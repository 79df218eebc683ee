----------------------------- MODULE MCDelivery -----------------------------
EXTENDS DeliveryProperties
=============================================================================
