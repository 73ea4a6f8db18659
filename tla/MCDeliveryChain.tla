-------------------------- MODULE MCDeliveryChain ---------------------------
EXTENDS DeliveryChain
=============================================================================
