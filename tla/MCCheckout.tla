----------------------------- MODULE MCCheckout -----------------------------
(* Small instances of Checkout for TLC.                                     *)
EXTENDS Checkout, TLC

CONSTANTS c1, c2, c3, milk, soap

Line(s, q) == [sku |-> s, qty |-> q]

(* Two tills racing for the same two products, in opposite order.           *)
CrossedCarts == c1 :> <<Line(milk, 1), Line(soap, 1)>> @@ c2 :> <<Line(soap, 1), Line(milk, 2)>>
ThreeTills == c1 :> <<Line(milk, 1), Line(soap, 1)>> @@ c2 :> <<Line(milk, 2)>> @@ c3 :> <<Line(soap, 1)>>
SmallCarts == c1 :> <<Line(milk, 1)>> @@ c2 :> <<Line(milk, 1), Line(soap, 1)>>
OneEach == c1 :> <<Line(milk, 1)>> @@ c2 :> <<Line(milk, 1)>>
OneSale == c1 :> <<Line(milk, 1)>>

Plenty == milk :> 3 @@ soap :> 2
Scarce == milk :> 2 @@ soap :> 1
LastUnit == milk :> 1 @@ soap :> 1

=============================================================================
