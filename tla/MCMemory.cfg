SPECIFICATION MCSpec
CONSTANTS
    t1 = t1
    t2 = t2
    e1 = e1
    e2 = e2
    i1 = i1
    i2 = i2
    i3 = i3
    Torrent <- MCTorrent
    Expirer <- MCExpirer
    MemoryMark = 5
    MaxPieces = 4
    MaxAdds = 6
    Piece <- MCPiece
    Old = 2
    MaxTime = 3
    MaxAvail = 1
INVARIANTS MeetsTarget  KeepsValuable
PROPERTIES Reclaimed
CHECK_DEADLOCK FALSE
