CONSTANTS
    Alphabet <- MCAlphabet
    MaxArgs <- MCMaxArgs
    Nums = {"7"}
    DataTokens = {"7"}
    Selectors = {"s"}
    ActionNames = {"s"}
    NoArg = NoArg
    CliAlphabet <- MCCliAlphabet
    TableNames = {"s"}
    RegisterNames = {"s"}
    CounterNames = {"s"}
    MeterNames = {"s"}
    CounterValues = {"7"}
    MeterRates = {"7"}
    KeyCut <- MCKeyCut
    MaxItems = 2
    MaxNoise = 2
SPECIFICATION CliSpec
INVARIANTS
    SuccessMeansDone
