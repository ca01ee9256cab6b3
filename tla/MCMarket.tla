------------------------------ MODULE MCMarket ------------------------------
EXTENDS Market, TLC

CONSTANTS kite, heron, d1, d2

MCListens == kite :> "kafka" @@ heron :> "mqtt"
MCOwner == d1 :> kite @@ d2 :> heron
=============================================================================
