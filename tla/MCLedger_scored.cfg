SPECIFICATION LedgerSpec
CONSTANTS
    Tickers = {x}
    Actions = {"BUY", "HOLD", "SELL"}
    Scorers = {s1}
    Horizons = {1, 2}
    MinHold = 1
    Retention = 2
    DoneKeep = 1
    Legacy <- FreshOrOld
    MaxDay = 3
    MaxCalls = 3
INVARIANTS
    LedgerInv
    OpenRowsAgree
    

    
