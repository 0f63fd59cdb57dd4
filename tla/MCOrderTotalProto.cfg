SPECIFICATION Spec
CONSTANTS
    NanosMod = 4
    Currencies = {USD}
    Prices <- MCPrices
    Shippings <- MCShippings
    Quantities = {0, 1, 2, 3}
    MaxLines = 2
INVARIANTS
    TotalFitsProto
CHECK_DEADLOCK FALSE
