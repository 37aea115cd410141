SPECIFICATION Spec
CONSTANTS
    Orders <- BothOrders
    Products <- TwoProducts
    Warehouses <- TwoWarehouses
    Main = 1
    Home <- HomeOf
    ReturnLines <- AnyLines
    Txs <- TwoTxs
    Compositions <- FewItems
    Ordered <- StartItems
    Pasts <- SomePasts
    MaxOps = 2
INVARIANTS CellsExplained UndoIsExact SortedWritersNeverDeadlock
PROPERTY RowsStayTrue
CHECK_DEADLOCK FALSE
