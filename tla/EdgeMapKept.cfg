CONSTANTS
    s1 = s1
    s2 = s2
    Stocks <- StocksDef
    Tasks = {t1, t2}
    Clis = {}
    Signals <- SignalsDef
    MaxGen = 2
SPECIFICATION EdgeSpec
PROPERTY OtherSymbolsKept
