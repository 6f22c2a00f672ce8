SPECIFICATION RaceSpec
CONSTANTS
    Requests = {1, 2, 3}
    Inputs <- AllInputs
    Users <- MCUsers
    Products <- MCProducts
    Price <- MCPrice
    Number <- MCNumber
    BigintText <- MCBigintText
    InitialStock <- MCInitialStock
    InitialBalance <- MCInitialBalance
    NoKey = NoKey
    EmptyKey = EmptyKey
    None = None
INVARIANTS
    TypeOK
    RowVersionsSafe
    GoodsAndMoneyConserved
    OrderIsWhole
    ChargedOncePerKey
    AnswersAreTrue
    OnlyEmptyKeysFallThrough
PROPERTIES
    ImplementsOrderBook
    EveryRequestAnswered
