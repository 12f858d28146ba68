--------------------------- MODULE MCPaymentOrders ---------------------------
\* Small instances of PaymentOrders for TLC.
EXTENDS PaymentOrders, TLC

CONSTANTS o1, a1, inbox_loop, order_loop, audit_loop

OneOrder == {o1}
OneApi == {a1}

=============================================================================
