SPECIFICATION Spec
CONSTANTS
    Requests = {r1, r2}
    Inputs <- SpellingInputs
    Users <- MCUsers
    Products <- MCProducts
    Price <- MCPrice
    Number <- MCNumber
    BigintText <- MCBigintText
    InitialStock <- MCInitialStock
    InitialBalance <- MCInitialBalance
    NoKey = NoKey
    EmptyKey = EmptyKey
    None = None
INVARIANT SameBodyIsNotReuse
