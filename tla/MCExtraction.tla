---------------------------- MODULE MCExtraction ----------------------------
(* All archives of up to three entries from a small pool, each name once.    *)
EXTENDS Extraction

CONSTANTS a, b, c

Abs(parts) == Written(TRUE, parts)
Rel(parts) == Written(FALSE, parts)

NoPath == Rel(<< >>)

DirE(parts, mode)   == [type |-> "dir", name |-> Rel(parts), mode |-> mode, link |-> NoPath]
RegE(parts)         == [type |-> "reg", name |-> Rel(parts), mode |-> Full, link |-> NoPath]
SymE(parts, link)   == [type |-> "sym", name |-> Rel(parts), mode |-> Full, link |-> link]
LinkE(parts, parts2) == [type |-> "link", name |-> Rel(parts), mode |-> Full, link |-> Rel(parts2)]

Pool ==
  { DirE(<<a>>, {"r", "x"}), DirE(<<a, b>>, {"r", "w"}), DirE(<<b>>, Full), DirE(<<b, c>>, {"r", "x"}),
    DirE(<<a, c>>, {"w", "x"}),
    RegE(<<a>>), RegE(<<b>>), RegE(<<a, b>>), RegE(<<a, c>>), RegE(<<b, c>>),
    SymE(<<a>>, Abs(<<b>>)), SymE(<<b>>, Rel(<<a>>)), SymE(<<a, b>>, Rel(<<"..", c>>)), SymE(<<a, b>>, Rel(<<c>>)),
    SymE(<<c>>, Abs(<<"..", a, b>>)), SymE(<<c>>, Rel(<<"..", a>>)), SymE(<<b>>, Rel(<<b>>)),
    LinkE(<<c>>, <<a>>), LinkE(<<b>>, <<c>>), LinkE(<<a>>, <<b, c>>), LinkE(<<b, c>>, <<a, b>>) }

MCNames == {a, b, c}

MCArchives ==
  { s \in BoundedSeq(Pool, 3) : \A i, j \in DOMAIN s : i # j => s[i].name # s[j].name }
=============================================================================
