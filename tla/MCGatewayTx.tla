---------------------------- MODULE MCGatewayTx ----------------------------
EXTENDS GatewayTx
MCOctets == { 0, 1, 16, 255 }
=============================================================================
