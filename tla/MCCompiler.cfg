CONSTANTS
    asi = asi  add = add  mul = mul
    \* Lexer
    Alphabet <- MCAlphabet
    LaterLines <- MCLaterLines
    MaxChars = 4
    MaxSourceLines = 4
    \* Brackets
    BracketTokens <- MCBracketTokens
    MaxRow = 6
    \* Grammar
    Operands <- MCOperands
    \* ExprTree
    Signals = {asi, add, mul}
    Level <- MCLevel
    Assigns = {asi}
    MaxSignals = 4
    Spare = {101, 102}
    \* Optimizer
    MaxWraps = 2
    SelfInLists = FALSE
    \* Codegen
    Lines <- MCLines
    MaxLines = 5
    JumpsInUntil = FALSE
    \* Compile
    MainRunner = MainRunner
    aFiber = aFiber
    Runners = {MainRunner, aFiber}
    MaxPrograms = 3
    MaxWork = 4
    YieldsInCompile = FALSE
    \* Numeric
    MaxInt = 7
    T = 2
    Halves <- MCHalves
    EndPoints <- MCEndPoints
SPECIFICATION MCSpec
INVARIANTS
    LexerInv
    BracketsInv
    CallsFollowOperands
    ReadAsWritten
    ExprTreeInv
    TreeFollowsLevels
    OptimizerInv
    AcceptsTheLanguage
    CodegenInv
    CompileInv
    NumericInv
PROPERTIES
    RangeEnds
\* Each part has inputs up to its bounds only.
CHECK_DEADLOCK FALSE
