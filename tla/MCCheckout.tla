----------------------------- MODULE MCCheckout -----------------------------
EXTENDS Checkout

\* A branch that goes 1, 2 or is forced to 3, and a pull request at 4.
Graph == <<{}, {1}, {1}, {2}>>
=============================================================================
