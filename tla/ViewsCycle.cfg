SPECIFICATION ViewsSpec
CONSTANTS
    None = None
    Null = Null
    Unset = Unset
    Garbage = Garbage
    Main = "main"
    Func <- MCFunc
    Addr <- MCAddr
    Width <- MCWidth
    Gap = 16
    MaxSteps = 8
    MaxDepth = 3
    Solve = "solve"
    Stmt <- MCStmt
    Size = 2
    Val <- MCVal
    NoNode = NoNode
    Nodes <- MCNodes
    BoxWidth <- MCBoxWidth
    BoxGap = 28
    MaxStatements = 5
    N = 3
    Arc <- MCArc
    Weight <- MCWeight
    MaxEdges = 3
    Row = 2
    Col = 3
    Inf = 2147483647
    Nil = Nil
    Checked = {"linked"}
INVARIANTS CyclesAreShown
CHECK_DEADLOCK FALSE
