-------------------------- MODULE SchemaWholeProofs --------------------------
(***************************************************************************)
(* A database that records the last version has the schema of an           *)
(* uninterrupted upgrade, whichever service it belongs to, however many    *)
(* processes upgrade it and however often they are killed, unless one of   *)
(* the two ways of bringing it out of order that SchemaMigrations names    *)
(* has been taken.                                                         *)
(***************************************************************************)
EXTENDS SchemaProofs, WellFoundedInduction

-----------------------------------------------------------------------------
(* What a script makes of a schema, statement by statement.                 *)

\* Induction, on the set of the numbers that have the property.
LEMMA Inductive ==
  ASSUME NEW S, 0 \in S, \A n \in Nat : n \in S => n + 1 \in S
  PROVE  Nat \subseteq S
<1> DEFINE R == {ss \in Nat \X Nat : ss[1] < ss[2]}
           T == Nat \ S
<1>0. IsWellFoundedOn(R, Nat)
  BY NatLessThanWellFounded DEF OpToRel
<1>1. SUFFICES ASSUME T # {} PROVE FALSE
  OBVIOUS
<1>2. T \subseteq Nat
  OBVIOUS
<1> HIDE DEF T, R
<1>3. PICK x \in T : \A y \in T : ~(<<y, x>> \in R)
  BY <1>0, <1>1, <1>2, WFMin
<1>4. x # 0 /\ x \in Nat
  BY DEF T
<1>5. x - 1 \in Nat /\ x - 1 \notin S
  BY <1>3, <1>4 DEF T
<1>6. <<x - 1, x>> \in R
  BY <1>4 DEF R
<1> QED
  BY <1>3, <1>5, <1>6 DEF T

\* One statement of an uninterrupted run.
Through(s, h) == IF IsIdle(s, h, h) THEN h ELSE SchemaAfter(s, h)

LEMMA PassedIs ==
  ASSUME NEW script, Len(script) \in Nat, NEW has
  PROVE  /\ Passed(script, has)[0] = has
         /\ \A i \in 1..Len(script) :
               Passed(script, has)[i] = Through(script[i], Passed(script, has)[i - 1])
<1> DEFINE n == Len(script)
           Is(f, k) == f = [i \in 0..k |-> IF i = 0 THEN has ELSE Through(script[i], f[i - 1])]
           S == {k \in Nat : \E f : Is(f, k)}
<1>1. 0 \in S
  <2>1. Is([i \in 0..0 |-> has], 0)
    OBVIOUS
  <2> QED
    BY <2>1
<1>2. ASSUME NEW k \in Nat, k \in S PROVE k + 1 \in S
  <2>1. PICK f : Is(f, k)
    BY <1>2
  <2> DEFINE g == [i \in 0..(k + 1) |-> IF i = k + 1 THEN Through(script[i], f[k]) ELSE f[i]]
  <2>2. \A i \in 0..k : g[i] = f[i]
    OBVIOUS
  <2>3. ASSUME NEW i \in 0..(k + 1)
        PROVE  g[i] = IF i = 0 THEN has ELSE Through(script[i], g[i - 1])
    <3>1. CASE i = k + 1
      <4>1. i # 0 /\ i - 1 = k /\ g[i - 1] = f[k]
        BY <2>2, <3>1
      <4> QED
        BY <3>1, <4>1
    <3>2. CASE i # k + 1
      <4>1. i \in 0..k /\ g[i] = f[i]
        BY <2>2, <3>2
      <4>2. f[i] = IF i = 0 THEN has ELSE Through(script[i], f[i - 1])
        BY <2>1, <4>1
      <4>3. i # 0 => i - 1 \in 0..k /\ g[i - 1] = f[i - 1]
        BY <2>2, <4>1
      <4> HIDE DEF g
      <4> QED
        BY <4>1, <4>2, <4>3
    <3> QED
      BY <3>1, <3>2
  <2>4. g = [i \in 0..(k + 1) |-> g[i]]
    OBVIOUS
  <2> HIDE DEF g
  <2>5. Is(g, k + 1)
    BY <2>3, <2>4
  <2> QED
    BY <2>5
<1>3. n \in S
  <2> HIDE DEF S
  <2>1. Nat \subseteq S
    BY <1>1, <1>2, Inductive
  <2> QED
    BY <2>1
<1>4. PICK f : Is(f, n)
  BY <1>3
<1> DEFINE p == Passed(script, has)
<1>5. p = CHOOSE f1 : Is(f1, n)
  BY DEF Passed, Through
<1>6. Is(p, n)
  <2> HIDE DEF Is, p
  <2> QED
    BY <1>4, <1>5
<1>7. p[0] = has
  <2> HIDE DEF p
  <2> QED
    BY <1>6
<1>8. \A i \in 1..n : p[i] = Through(script[i], p[i - 1])
  <2> HIDE DEF p
  <2> QED
    BY <1>6
<1> QED
  BY <1>7, <1>8

\* The schema of each version.
LEMMA UpgradedIs ==
  ASSUME NEW v \in Services, Len(Scripts[v]) \in Nat
  PROVE  /\ Upgraded[v][0] = {}
         /\ \A m \in 1..Len(Scripts[v]) :
               Upgraded[v][m] = Passed(Scripts[v][m], Upgraded[v][m - 1])[Len(Scripts[v][m])]
<1> DEFINE n == Len(Scripts[v])
           Made1(m, h) == Passed(Scripts[v][m], h)[Len(Scripts[v][m])]
           Is(f, k) == f = [m \in 0..k |-> IF m = 0 THEN {} ELSE Made1(m, f[m - 1])]
           S == {k \in Nat : \E f : Is(f, k)}
           u == Upgraded[v]
<1>5. u = CHOOSE f : Is(f, n)
  BY DEF Upgraded
<1> HIDE DEF Made1
<1>1. 0 \in S
  <2>1. Is([i \in 0..0 |-> {}], 0)
    OBVIOUS
  <2> QED
    BY <2>1
<1>2. ASSUME NEW k \in Nat, k \in S PROVE k + 1 \in S
  <2>1. PICK f : Is(f, k)
    BY <1>2
  <2> DEFINE g == [i \in 0..(k + 1) |-> IF i = k + 1 THEN Made1(i, f[k]) ELSE f[i]]
  <2>2. \A i \in 0..k : g[i] = f[i]
    OBVIOUS
  <2>3. ASSUME NEW i \in 0..(k + 1)
        PROVE  g[i] = IF i = 0 THEN {} ELSE Made1(i, g[i - 1])
    <3>1. CASE i = k + 1
      <4>1. i # 0 /\ i - 1 = k /\ g[i - 1] = f[k]
        BY <2>2, <3>1
      <4> QED
        BY <3>1, <4>1
    <3>2. CASE i # k + 1
      <4>1. i \in 0..k /\ g[i] = f[i]
        BY <2>2, <3>2
      <4>2. f[i] = IF i = 0 THEN {} ELSE Made1(i, f[i - 1])
        BY <2>1, <4>1
      <4>3. i # 0 => i - 1 \in 0..k /\ g[i - 1] = f[i - 1]
        BY <2>2, <4>1
      <4> HIDE DEF g
      <4> QED
        BY <4>1, <4>2, <4>3
    <3> QED
      BY <3>1, <3>2
  <2>4. g = [i \in 0..(k + 1) |-> g[i]]
    OBVIOUS
  <2> HIDE DEF g
  <2>5. Is(g, k + 1)
    BY <2>3, <2>4
  <2> QED
    BY <2>5
<1>3. n \in S
  <2> HIDE DEF S
  <2>1. Nat \subseteq S
    BY <1>1, <1>2, Inductive
  <2> QED
    BY <2>1
<1>4. PICK f : Is(f, n)
  BY <1>3
<1>6. Is(u, n)
  <2> HIDE DEF Is, u
  <2> QED
    BY <1>4, <1>5
<1>7. u[0] = {} /\ \A m \in 1..n : u[m] = Made1(m, u[m - 1])
  <2>0. n \in Nat
    OBVIOUS
  <2> HIDE DEF u, n
  <2>1. u = [m \in 0..n |-> IF m = 0 THEN {} ELSE Made1(m, u[m - 1])]
    BY <1>6
  <2>2. u[0] = {}
    BY <2>0, <2>1
  <2>3. ASSUME NEW m \in 1..n PROVE u[m] = Made1(m, u[m - 1])
    <3>1. m \in 0..n /\ m # 0
      BY <2>0
    <3> QED
      BY <2>1, <3>1
  <2> QED
    BY <2>2, <2>3
<1> QED
  BY <1>7 DEF Made1

-----------------------------------------------------------------------------
(* The statements that add to a schema.                                     *)

\* What a statement asks for is there, or it adds that and no more than is in
\* the schema at the end, where no other table has an object of its name.
Grows(s, top) ==
  \/ s.op \notin {"create", "part", "column", "drop", "rename"}
  \/ /\ IsAdding(s) /\ s.strict = FALSE
     /\ Gained(s) \subseteq top
     /\ s.op # "create" => \E x : s.names = {x}
     /\ s.op = "part" => \A o \in top : o[2] = Only(s) => o = Asked(s)

LEMMA AddsGained ==
  ASSUME NEW s, IsAdding(s), NEW has
  PROVE  SchemaAfter(s, has) = has \cup Gained(s)
  BY DEF IsAdding, SchemaAfter, Gained

LEMMA GrowingStep ==
  ASSUME NEW s, NEW top, Grows(s, top), NEW v, v \subseteq top, NEW seen, seen \subseteq v
  PROVE  /\ IsIdle(s, v, seen) => IsAdding(s) /\ Asked(s) \in v
         /\ IsAdding(s) => /\ SchemaAfter(s, v) = v \cup Gained(s)
                           /\ Asked(s) \in Gained(s) /\ Gained(s) \subseteq top
         /\ ~IsAdding(s) => ~IsIdle(s, v, seen) /\ SchemaAfter(s, v) = v
<1>1. CASE s.op \notin {"create", "part", "column", "drop", "rename"}
  BY <1>1 DEF IsIdle, IsAdding, SchemaAfter
<1>2. CASE ~(s.op \notin {"create", "part", "column", "drop", "rename"})
  <2>1. /\ IsAdding(s) /\ Gained(s) \subseteq top
        /\ s.op # "create" => \E x : s.names = {x}
        /\ s.op = "part" => \A o \in top : o[2] = Only(s) => o = Asked(s)
    BY <1>2 DEF Grows
  <2>2. IsIdle(s, v, seen) => Asked(s) \in v
    <3>1. CASE s.op = "create"
      BY <3>1 DEF IsIdle, Asked
    <3>2. CASE s.op = "part"
      <4>1. SUFFICES ASSUME IsIdle(s, v, seen) PROVE Asked(s) \in v
        OBVIOUS
      <4>2. PICK o \in v : o[2] = Only(s)
        BY <3>2, <4>1 DEF IsIdle, Named
      <4> QED
        BY <2>1, <3>2, <4>2
    <3>3. CASE s.op = "column"
      BY <3>3 DEF IsIdle, Asked
    <3> QED
      BY <2>1, <3>1, <3>2, <3>3 DEF IsAdding
  <2>3. Asked(s) \in Gained(s)
    <3>1. CASE s.op = "create"
      BY <3>1 DEF Asked, Gained
    <3>2. CASE s.op # "create"
      <4>1. PICK x : s.names = {x}
        BY <2>1, <3>2
      <4> QED
        BY <3>2, <4>1, OnlyName DEF Asked, Gained, Parts
    <3> QED
      BY <3>1, <3>2
  <2> QED
    BY <2>1, <2>2, <2>3, AddsGained
<1> QED
  BY <1>1, <1>2

\* What the first n statements of a script ask for.
AskedBy(script, n) == {Asked(script[j]) : j \in {k \in 1..n : IsAdding(script[k])}}

LEMMA Grown ==
  ASSUME NEW script, Len(script) \in Nat, NEW n \in 0..Len(script), NEW lo,
         \A j \in 1..n : Grows(script[j], lo \cup AskedBy(script, n))
  PROVE  /\ \A i \in 0..n : /\ lo \subseteq Passed(script, lo)[i]
                            /\ Passed(script, lo)[i] \subseteq lo \cup AskedBy(script, n)
         /\ Passed(script, lo)[n] = lo \cup AskedBy(script, n)
<1> DEFINE top == lo \cup AskedBy(script, n)
           P == Passed(script, lo)
           Is(i) == /\ lo \subseteq P[i] /\ P[i] \subseteq top
                    /\ \A j \in 1..i : IsAdding(script[j]) => Asked(script[j]) \in P[i]
           S == {i \in Nat : i <= n => Is(i)}
<1>1. /\ P[0] = lo
      /\ \A i \in 1..Len(script) : P[i] = Through(script[i], P[i - 1])
  BY PassedIs
<1>2. n \in Nat /\ n <= Len(script)
  OBVIOUS
<1> HIDE DEF P
<1>3. 0 \in S
  BY <1>1
<1>4. ASSUME NEW i \in Nat, i \in S PROVE i + 1 \in S
  <2>1. SUFFICES ASSUME i + 1 <= n PROVE Is(i + 1)
    OBVIOUS
  <2>2. i \in 0..n /\ i <= n /\ i + 1 \in 1..n /\ i + 1 \in 1..Len(script) /\ (i + 1) - 1 = i
    BY <1>2, <2>1
  <2>3. Is(i)
    BY <1>4, <2>2
  <2> DEFINE s == script[i + 1]
  <2>4. P[i + 1] = Through(s, P[i]) /\ Grows(s, top)
    BY <1>1, <2>2
  <2> HIDE DEF s, top
  <2>5. /\ P[i] \subseteq P[i + 1] /\ P[i + 1] \subseteq top
        /\ IsAdding(s) => Asked(s) \in P[i + 1]
    <3>1. P[i] \subseteq top
      BY <2>3
    <3>2. /\ IsIdle(s, P[i], P[i]) => IsAdding(s) /\ Asked(s) \in P[i]
          /\ IsAdding(s) => /\ SchemaAfter(s, P[i]) = P[i] \cup Gained(s)
                            /\ Asked(s) \in Gained(s) /\ Gained(s) \subseteq top
          /\ ~IsAdding(s) => ~IsIdle(s, P[i], P[i]) /\ SchemaAfter(s, P[i]) = P[i]
      BY <2>4, <3>1, GrowingStep
    <3> QED
      BY <2>4, <3>1, <3>2 DEF Through
  <2>6. ASSUME NEW j \in 1..(i + 1), IsAdding(script[j]) PROVE Asked(script[j]) \in P[i + 1]
    <3>1. CASE j = i + 1
      BY <2>5, <2>6, <3>1 DEF s
    <3>2. CASE j # i + 1
      <4>1. j \in 1..i
        BY <3>2
      <4> QED
        BY <2>3, <2>5, <2>6, <4>1
    <3> QED
      BY <3>1, <3>2
  <2> QED
    BY <2>3, <2>5, <2>6
<1>5. \A i \in 0..n : Is(i)
  <2>1. Nat \subseteq S
    <3> HIDE DEF S
    <3> QED
      BY <1>3, <1>4, Inductive
  <2> QED
    BY <1>2, <2>1
<1>6. P[n] = top
  <2>1. Is(n)
    BY <1>2, <1>5
  <2>2. AskedBy(script, n) \subseteq P[n]
    BY <2>1 DEF AskedBy
  <2> QED
    BY <2>1, <2>2
<1> QED
  BY <1>5, <1>6 DEF P

-----------------------------------------------------------------------------
(* What a script asks for, from the set of its statements.                  *)

\* The part of an object that is a table.
Blank == ""
LEMMA TableIs == \A t : TheTable(t) = <<t, Blank>>
  BY DEF Blank, TheTable

\* No statement is about the table of the versions, and no name is that of a
\* table.
IsPlain(s) ==
  /\ s.table \notin {"schema_migrations", "alembic_version"}
  /\ s.op = "rename" => Only(s) \notin {"schema_migrations", "alembic_version"}
  /\ s.op = "part" /\ ~s.strict => Only(s) # ""

\* A statement that fits into a growing script: what it adds is in top, and its
\* name, if it is not that of a column, is at home in one place.
Suits(s, top, homes) ==
  /\ IsPlain(s)
  /\ \/ s.op \notin {"create", "part", "column", "drop", "rename", "only", "fts5"}
     \/ /\ IsAdding(s) /\ s.strict = FALSE /\ Gained(s) \subseteq top
        /\ s.op # "create" => \E x : s.names = {x}
        /\ s.op = "part" => Asked(s) \in homes

AskedIn(S) == {Asked(s) : s \in {x \in S : IsAdding(x)}}

\* The objects with a name of homes are those of homes.
AtHome(has, homes) == \A o \in has, h \in homes : o[2] = h[2] => o = h

LEMMA SuitsGrow ==
  ASSUME NEW s, NEW top, NEW homes, Suits(s, top, homes), NEW lo, AtHome(lo \cup top, homes)
  PROVE  Grows(s, lo \cup top)
<1>1. CASE s.op \notin {"create", "part", "column", "drop", "rename"}
  BY <1>1 DEF Grows
<1>2. CASE ~(s.op \notin {"create", "part", "column", "drop", "rename"})
  <2>1. /\ IsAdding(s) /\ s.strict = FALSE /\ Gained(s) \subseteq top
        /\ s.op # "create" => \E x : s.names = {x}
        /\ s.op = "part" => Asked(s) \in homes
    BY <1>2 DEF Suits
  <2>2. ASSUME s.op = "part", NEW o \in lo \cup top, o[2] = Only(s) PROVE o = Asked(s)
    <3>1. Asked(s)[2] = Only(s)
      BY <2>2 DEF Asked
    <3> QED
      BY <2>1, <2>2, <3>1 DEF AtHome
  <2> QED
    BY <2>1, <2>2 DEF Grows
<1> QED
  BY <1>1, <1>2

LEMMA AskedParts ==
  ASSUME NEW S, NEW T
  PROVE  AskedIn(S \cup T) = AskedIn(S) \cup AskedIn(T)
  BY DEF AskedIn

\* The statements of the scripts that grow.
LEMMA StatementsSuit ==
  ASSUME NEW top, NEW homes, NEW t, t \notin {"schema_migrations", "alembic_version"}
  PROVE  /\ Suits(Read(t), top, homes) /\ ~IsAdding(Read(t))
         /\ \A w \in {"settle", "windows", "name", "newest", "unindex", "index", "govern", "copy", "cancel"} :
               Suits(Rows(w, t), top, homes) /\ ~IsAdding(Rows(w, t))
         /\ \A c : TheTable(t) \in top /\ Parts(t, c) \subseteq top =>
               Suits(Create(t, c), top, homes)
         /\ \A c : IsAdding(Create(t, c)) /\ Asked(Create(t, c)) = TheTable(t)
         /\ \A n : <<t, n>> \in top /\ n # "" /\ <<t, n>> \in homes => Suits(Adds(t, n), top, homes)
         /\ \A n : <<t, n>> \in top => Suits(ColumnUnseen(t, n), top, homes)
         /\ \A n : /\ IsAdding(Adds(t, n)) /\ Asked(Adds(t, n)) = <<t, n>>
                   /\ IsAdding(ColumnUnseen(t, n)) /\ Asked(ColumnUnseen(t, n)) = <<t, n>>
<1>1. Suits(Read(t), top, homes) /\ ~IsAdding(Read(t))
  BY DEF Suits, IsPlain, IsAdding, Read, Statement
<1>3. \A w \in {"settle", "windows", "name", "newest", "unindex", "index", "govern", "copy", "cancel"} :
         Suits(Rows(w, t), top, homes) /\ ~IsAdding(Rows(w, t))
  BY DEF Suits, IsPlain, IsAdding, Rows, Statement
<1>4. ASSUME NEW c
      PROVE  /\ TheTable(t) \in top /\ Parts(t, c) \subseteq top => Suits(Create(t, c), top, homes)
             /\ IsAdding(Create(t, c)) /\ Asked(Create(t, c)) = TheTable(t)
  <2>1. /\ Create(t, c).op = "create" /\ Create(t, c).table = t /\ Create(t, c).names = c
        /\ Create(t, c).strict = FALSE
    BY DEF Create, Statement
  <2>2. IsAdding(Create(t, c)) /\ Asked(Create(t, c)) = TheTable(t)
    BY <2>1 DEF IsAdding, Asked
  <2>3. Gained(Create(t, c)) = {TheTable(t)} \cup Parts(t, c)
    BY <2>1 DEF Gained
  <2>4. IsPlain(Create(t, c))
    BY <2>1 DEF IsPlain
  <2> QED
    BY <2>1, <2>2, <2>3, <2>4 DEF Suits
<1>5. ASSUME NEW n
      PROVE  /\ <<t, n>> \in top /\ n # "" /\ <<t, n>> \in homes => Suits(Adds(t, n), top, homes)
             /\ <<t, n>> \in top => Suits(ColumnUnseen(t, n), top, homes)
             /\ IsAdding(Adds(t, n)) /\ Asked(Adds(t, n)) = <<t, n>>
             /\ IsAdding(ColumnUnseen(t, n)) /\ Asked(ColumnUnseen(t, n)) = <<t, n>>
  <2>0. Adds(t, n).names = {n} /\ ColumnUnseen(t, n).names = {n}
    BY DEF Adds, ColumnUnseen, Statement
  <2>1. Only(Adds(t, n)) = n /\ Only(ColumnUnseen(t, n)) = n
    BY <2>0, OnlyName
  <2>2. /\ IsAdding(Adds(t, n)) /\ Asked(Adds(t, n)) = <<t, n>>
        /\ IsAdding(ColumnUnseen(t, n)) /\ Asked(ColumnUnseen(t, n)) = <<t, n>>
    BY <2>1 DEF IsAdding, Asked, Adds, ColumnUnseen, Statement
  <2>3. Gained(Adds(t, n)) = {<<t, n>>} /\ Gained(ColumnUnseen(t, n)) = {<<t, n>>}
    BY DEF Gained, Parts, Adds, ColumnUnseen, Statement
  <2>4. /\ Adds(t, n).op = "part" /\ Adds(t, n).strict = FALSE /\ Adds(t, n).names = {n}
        /\ ColumnUnseen(t, n).op = "column" /\ ColumnUnseen(t, n).strict = FALSE
        /\ ColumnUnseen(t, n).names = {n}
        /\ Adds(t, n).table = t /\ ColumnUnseen(t, n).table = t
    BY DEF Adds, ColumnUnseen, Statement
  <2> HIDE DEF IsAdding
  <2>5. <<t, n>> \in top /\ n # "" /\ <<t, n>> \in homes => Suits(Adds(t, n), top, homes)
    BY <2>1, <2>2, <2>3, <2>4 DEF Suits, IsPlain
  <2>6. <<t, n>> \in top => Suits(ColumnUnseen(t, n), top, homes)
    BY <2>1, <2>2, <2>3, <2>4 DEF Suits, IsPlain
  <2> QED
    BY <2>2, <2>5, <2>6
<1> QED
  BY <1>1, <1>3, <1>4, <1>5

LEMMA EndsSuit ==
  ASSUME NEW top, NEW homes
  PROVE  Suits(Commit, top, homes) /\ ~IsAdding(Commit)
  BY DEF Suits, IsPlain, IsAdding, Commit, Statement

LEMMA EachSuits ==
  ASSUME NEW top, NEW homes, NEW t, t \notin {"schema_migrations", "alembic_version"},
         NEW names, Parts(t, names) \subseteq top
  PROVE  /\ AskedIn({ColumnUnseen(t, n) : n \in names}) = Parts(t, names)
         /\ AskedIn({Adds(t, n) : n \in names}) = Parts(t, names)
         /\ \A s \in {ColumnUnseen(t, n) : n \in names} : Suits(s, top, homes)
         /\ Parts(t, names) \subseteq homes /\ "" \notin names =>
               \A s \in {Adds(t, n) : n \in names} : Suits(s, top, homes)
<1>1. \A n : /\ IsAdding(Adds(t, n)) /\ Asked(Adds(t, n)) = <<t, n>>
             /\ IsAdding(ColumnUnseen(t, n)) /\ Asked(ColumnUnseen(t, n)) = <<t, n>>
  BY StatementsSuit
<1>2. AskedIn({ColumnUnseen(t, n) : n \in names}) = Parts(t, names)
  BY <1>1 DEF AskedIn, Parts
<1>3. AskedIn({Adds(t, n) : n \in names}) = Parts(t, names)
  BY <1>1 DEF AskedIn, Parts
<1>4. \A n \in names : <<t, n>> \in top
  BY DEF Parts
<1>5. \A s \in {ColumnUnseen(t, n) : n \in names} : Suits(s, top, homes)
  BY <1>4, StatementsSuit
<1>6. ASSUME Parts(t, names) \subseteq homes, "" \notin names
      PROVE  \A s \in {Adds(t, n) : n \in names} : Suits(s, top, homes)
  <2>1. \A n \in names : <<t, n>> \in homes /\ n # ""
    BY <1>6 DEF Parts
  <2>2. \A n \in names : Suits(Adds(t, n), top, homes)
    BY <1>4, <2>1, StatementsSuit
  <2> QED
    BY <2>2
<1> QED
  BY <1>2, <1>3, <1>5, <1>6

-----------------------------------------------------------------------------
(* The scripts of the control service.                                      *)

Commands == "device_command"
Proposals == "remediation_proposal"

Adds1 == {<<Commands, "">>, <<Commands, "idx_command_device">>, <<Proposals, "">>,
          <<Proposals, "idx_proposal_status">>, <<Proposals, "diagnosis_id">>}
         \cup Parts(Commands, ToSet(CommandCompat))
Adds2 == {<<Commands, "idx_command_diagnosis">>, <<Proposals, "idx_proposal_diagnosis">>}
         \cup Parts(Commands, ToSet(CommandTriggers)) \cup Parts(Proposals, ToSet(ProposalTriggers))
Adds3 == {<<"action_correlation", "">>}
Adds5 == {<<"command_outbox", "">>, Trigger, <<"command_verification", "">>,
          <<"command_outbox", "idx_outbox_pending">>,
          <<"command_verification", "idx_verification_device">>}

ControlHomes ==
  {<<Commands, "idx_command_device">>, <<Commands, "idx_command_diagnosis">>, Trigger,
   <<Proposals, "idx_proposal_status">>, <<Proposals, "idx_proposal_diagnosis">>,
   <<"command_outbox", "idx_outbox_pending">>,
   <<"command_verification", "idx_verification_device">>}
  \cup Parts(Commands, ToSet(CommandTriggers)) \cup Parts(Proposals, ToSet(ProposalTriggers))

\* The statements of a script fit, and it asks for what it adds.
Builds(script, adds, homes) ==
  /\ IsScript(script) /\ Len(script) \in Nat
  /\ AskedBy(script, Len(script)) = adds
  /\ \A j \in 1..Len(script) : Suits(script[j], adds, homes)

LEMMA BuildsSet ==
  ASSUME NEW script, IsScript(script), NEW adds, NEW homes,
         AskedIn(ToSet(script)) = adds, \A s \in ToSet(script) : Suits(s, adds, homes)
  PROVE  Builds(script, adds, homes)
<1>1. Len(script) \in Nat /\ DOMAIN script = 1..Len(script)
  BY DEF IsScript
<1>2. AskedBy(script, Len(script)) = AskedIn(ToSet(script))
  BY <1>1 DEF AskedBy, AskedIn, ToSet
<1> QED
  BY <1>1, <1>2 DEF Builds, ToSet

LEMMA Control1Builds == Builds(Control1, Adds1, ControlHomes)
<1> DEFINE a == <<Create(Commands, CaseColumns \cup {"diagnosis_id"}),
                  Adds(Commands, "idx_command_device"),
                  Create(Proposals, {"diagnosis_id"}),
                  Adds(Proposals, "idx_proposal_status"),
                  Read(Commands)>>
           b == ColumnsUnseen(Commands, CommandCompat)
           c == <<Read(Proposals), ColumnUnseen(Proposals, "diagnosis_id"), Commit>>
           A == {a[1], a[2], a[3], a[4], a[5]}
           B == {ColumnUnseen(Commands, n) : n \in ToSet(CommandCompat)}
           C == {c[1], c[2], c[3]}
<1>1. IsScript(a) /\ ToSet(a) = A /\ IsScript(c) /\ ToSet(c) = C
  BY DEF IsScript, ToSet
<1>2. IsScript(b) /\ ToSet(b) = B
  <2>1. IsScript(CommandCompat)
    BY DEF IsScript, ToSet, CommandCompat
  <2> QED
    BY <2>1, EachSet
<1>3. Control1 = a \o b \o c
  BY DEF Control1, Commands, Proposals
<1>4. IsScript(Control1) /\ ToSet(Control1) = A \cup B \cup C
  <2> HIDE DEF a, b, c, A, B, C
  <2> QED
    BY <1>1, <1>2, <1>3, CatSet, Zenon
<1>5. Commands \notin {"schema_migrations", "alembic_version"}
      /\ Proposals \notin {"schema_migrations", "alembic_version"}
  BY DEF Commands, Proposals
<1>6. /\ TheTable(Commands) \in Adds1 /\ TheTable(Proposals) \in Adds1
      /\ Parts(Commands, CaseColumns \cup {"diagnosis_id"}) \subseteq Adds1
      /\ Parts(Commands, ToSet(CommandCompat)) \subseteq Adds1
      /\ Parts(Proposals, {"diagnosis_id"}) \subseteq Adds1
      /\ <<Proposals, "diagnosis_id">> \in Adds1
      /\ <<Commands, "idx_command_device">> \in Adds1 /\ <<Proposals, "idx_proposal_status">> \in Adds1
  <2>1. ToSet(CommandCompat) = {"diagnosis_id", "case_status", "case_id", "case_attempts", "case_error"}
    BY DEF ToSet, CommandCompat
  <2> QED
    BY <2>1 DEF TheTable, Adds1, Parts, CaseColumns
<1>7. <<Commands, "idx_command_device">> \in ControlHomes /\ <<Proposals, "idx_proposal_status">> \in ControlHomes
  BY DEF ControlHomes
<1>8. \A s \in A : Suits(s, Adds1, ControlHomes)
  <2>1. Suits(a[1], Adds1, ControlHomes) /\ Suits(a[3], Adds1, ControlHomes)
    BY <1>5, <1>6, StatementsSuit
  <2>2. Suits(a[2], Adds1, ControlHomes) /\ Suits(a[4], Adds1, ControlHomes) /\ Suits(a[5], Adds1, ControlHomes)
    BY <1>5, <1>6, <1>7, StatementsSuit
  <2> QED
    BY <2>1, <2>2
<1>9. \A s \in B : Suits(s, Adds1, ControlHomes)
  BY <1>5, <1>6, EachSuits
<1>10. \A s \in C : Suits(s, Adds1, ControlHomes)
  <2>1. Suits(c[1], Adds1, ControlHomes) /\ Suits(c[2], Adds1, ControlHomes)
    BY <1>5, <1>6, StatementsSuit
  <2>2. Suits(c[3], Adds1, ControlHomes)
    BY EndsSuit
  <2> QED
    BY <2>1, <2>2
<1>11. AskedIn(A) = {<<Commands, "">>, <<Commands, "idx_command_device">>, <<Proposals, "">>,
                     <<Proposals, "idx_proposal_status">>}
  <2>1. /\ IsAdding(a[1]) /\ Asked(a[1]) = <<Commands, "">>
        /\ IsAdding(a[2]) /\ Asked(a[2]) = <<Commands, "idx_command_device">>
        /\ IsAdding(a[3]) /\ Asked(a[3]) = <<Proposals, "">>
        /\ IsAdding(a[4]) /\ Asked(a[4]) = <<Proposals, "idx_proposal_status">>
        /\ ~IsAdding(a[5])
    BY <1>5, StatementsSuit DEF TheTable
  <2> HIDE DEF a
  <2> QED
    BY <2>1 DEF AskedIn
<1>12. AskedIn(B) = Parts(Commands, ToSet(CommandCompat))
  BY <1>5, <1>6, EachSuits
<1>13. AskedIn(C) = {<<Proposals, "diagnosis_id">>}
  <2>1. /\ ~IsAdding(c[1]) /\ IsAdding(c[2]) /\ Asked(c[2]) = <<Proposals, "diagnosis_id">>
        /\ ~IsAdding(c[3])
    BY <1>5, StatementsSuit, EndsSuit
  <2> HIDE DEF c
  <2> QED
    BY <2>1 DEF AskedIn
<1> HIDE DEF A, B, C
<1>14. AskedIn(A \cup B \cup C) = AskedIn(A) \cup AskedIn(B) \cup AskedIn(C)
  <2>1. /\ AskedIn((A \cup B) \cup C) = AskedIn(A \cup B) \cup AskedIn(C)
        /\ AskedIn(A \cup B) = AskedIn(A) \cup AskedIn(B)
    BY AskedParts
  <2> QED
    BY <2>1
<1>15. AskedIn(ToSet(Control1)) = Adds1
  BY <1>4, <1>11, <1>12, <1>13, <1>14 DEF Adds1
<1> QED
  BY <1>4, <1>8, <1>9, <1>10, <1>15, BuildsSet

LEMMA Control2Builds == Builds(Control2, Adds2, ControlHomes)
<1> DEFINE a == <<Adds(Commands, "idx_command_diagnosis"), Adds(Proposals, "idx_proposal_diagnosis")>>
           b == EachAdds(Commands, CommandTriggers)
           c == EachAdds(Proposals, ProposalTriggers)
           d == <<Commit>>
           A == {a[1], a[2]}
           B == {Adds(Commands, n) : n \in ToSet(CommandTriggers)}
           C == {Adds(Proposals, n) : n \in ToSet(ProposalTriggers)}
           D == {Commit}
<1>1. IsScript(a) /\ ToSet(a) = A /\ IsScript(d) /\ ToSet(d) = D
  BY DEF IsScript, ToSet
<1>2. IsScript(b) /\ ToSet(b) = B /\ IsScript(c) /\ ToSet(c) = C
  <2>1. IsScript(CommandTriggers) /\ IsScript(ProposalTriggers)
    BY DEF IsScript, ToSet, CommandTriggers, ProposalTriggers
  <2> QED
    BY <2>1, EachSet
<1>3. Control2 = a \o b \o c \o d
  BY DEF Control2, Commands, Proposals
<1>4. IsScript(Control2) /\ ToSet(Control2) = A \cup B \cup C \cup D
  <2> HIDE DEF a, b, c, d, A, B, C, D
  <2>1. IsScript(a \o b) /\ ToSet(a \o b) = A \cup B
    BY <1>1, <1>2, CatSet, Zenon
  <2>2. IsScript((a \o b) \o c) /\ ToSet((a \o b) \o c) = A \cup B \cup C
    BY <1>2, <2>1, CatSet, Zenon
  <2>3. IsScript(((a \o b) \o c) \o d) /\ ToSet(((a \o b) \o c) \o d) = A \cup B \cup C \cup D
    BY <1>1, <2>2, CatSet, Zenon
  <2> QED
    BY <1>3, <2>3, Zenon
<1>5. Commands \notin {"schema_migrations", "alembic_version"}
      /\ Proposals \notin {"schema_migrations", "alembic_version"}
  BY DEF Commands, Proposals
<1>6. /\ "" \notin ToSet(CommandTriggers) /\ "" \notin ToSet(ProposalTriggers)
      /\ Parts(Commands, ToSet(CommandTriggers)) \subseteq Adds2 \cap ControlHomes
      /\ Parts(Proposals, ToSet(ProposalTriggers)) \subseteq Adds2 \cap ControlHomes
      /\ <<Commands, "idx_command_diagnosis">> \in Adds2 \cap ControlHomes
      /\ <<Proposals, "idx_proposal_diagnosis">> \in Adds2 \cap ControlHomes
  <2>1. "" \notin ToSet(CommandTriggers) /\ "" \notin ToSet(ProposalTriggers)
    <3>1. /\ ToSet(CommandTriggers) = {CommandTriggers[1], CommandTriggers[2]}
          /\ ToSet(ProposalTriggers) = {ProposalTriggers[1], ProposalTriggers[2]}
      BY DEF ToSet, CommandTriggers, ProposalTriggers
    <3>2. CommandTriggers[1] # "" /\ CommandTriggers[2] # ""
      BY DEF CommandTriggers
    <3>3. ProposalTriggers[1] # "" /\ ProposalTriggers[2] # ""
      BY DEF ProposalTriggers
    <3> QED
      BY <3>1, <3>2, <3>3
  <2>2. <<Commands, "idx_command_diagnosis">> \in Adds2 \cap ControlHomes
        /\ <<Proposals, "idx_proposal_diagnosis">> \in Adds2 \cap ControlHomes
    BY DEF Adds2, ControlHomes
  <2> DEFINE x == Parts(Commands, ToSet(CommandTriggers))
             y == Parts(Proposals, ToSet(ProposalTriggers))
  <2> HIDE DEF x, y
  <2>3. Adds2 = {<<Commands, "idx_command_diagnosis">>, <<Proposals, "idx_proposal_diagnosis">>} \cup x \cup y
    BY DEF Adds2, x, y
  <2>4. \E b1 : ControlHomes = b1 \cup x \cup y
    BY DEF ControlHomes, x, y
  <2>5. x \subseteq Adds2 \cap ControlHomes /\ y \subseteq Adds2 \cap ControlHomes
    BY <2>3, <2>4
  <2> QED
    BY <2>1, <2>2, <2>5 DEF x, y
<1>8. \A s \in A : Suits(s, Adds2, ControlHomes)
  <2>1. Suits(a[1], Adds2, ControlHomes) /\ Suits(a[2], Adds2, ControlHomes)
    BY <1>5, <1>6, StatementsSuit
  <2> QED
    BY <2>1
<1>9. \A s \in B \cup C : Suits(s, Adds2, ControlHomes)
  <2>1. Parts(Commands, ToSet(CommandTriggers)) \subseteq Adds2
        /\ Parts(Commands, ToSet(CommandTriggers)) \subseteq ControlHomes
        /\ Parts(Proposals, ToSet(ProposalTriggers)) \subseteq Adds2
        /\ Parts(Proposals, ToSet(ProposalTriggers)) \subseteq ControlHomes
    BY <1>6
  <2>2. \A s \in B : Suits(s, Adds2, ControlHomes)
    BY <1>5, <1>6, <2>1, EachSuits
  <2>3. \A s \in C : Suits(s, Adds2, ControlHomes)
    BY <1>5, <1>6, <2>1, EachSuits
  <2> QED
    BY <2>2, <2>3
<1>10. Suits(Commit, Adds2, ControlHomes) /\ ~IsAdding(Commit)
  BY EndsSuit
<1>11. AskedIn(A) = {<<Commands, "idx_command_diagnosis">>, <<Proposals, "idx_proposal_diagnosis">>}
  <2>1. /\ IsAdding(a[1]) /\ Asked(a[1]) = <<Commands, "idx_command_diagnosis">>
        /\ IsAdding(a[2]) /\ Asked(a[2]) = <<Proposals, "idx_proposal_diagnosis">>
    BY <1>5, StatementsSuit
  <2> HIDE DEF a
  <2> QED
    BY <2>1 DEF AskedIn
<1>12. /\ AskedIn(B) = Parts(Commands, ToSet(CommandTriggers))
       /\ AskedIn(C) = Parts(Proposals, ToSet(ProposalTriggers))
  <2>1. Parts(Commands, ToSet(CommandTriggers)) \subseteq Adds2
        /\ Parts(Proposals, ToSet(ProposalTriggers)) \subseteq Adds2
    BY <1>6
  <2> QED
    BY <1>5, <2>1, EachSuits
<1>13. AskedIn(D) = {}
  BY <1>10 DEF AskedIn
<1>15. AskedIn(ToSet(Control2)) = Adds2
  <2> HIDE DEF A, B, C, D
  <2>1. /\ AskedIn(((A \cup B) \cup C) \cup D) = AskedIn((A \cup B) \cup C) \cup AskedIn(D)
        /\ AskedIn((A \cup B) \cup C) = AskedIn(A \cup B) \cup AskedIn(C)
        /\ AskedIn(A \cup B) = AskedIn(A) \cup AskedIn(B)
    BY AskedParts
  <2> QED
    BY <1>4, <1>11, <1>12, <1>13, <2>1 DEF Adds2
<1>16. \A s \in ToSet(Control2) : Suits(s, Adds2, ControlHomes)
  <2>1. \A s \in D : Suits(s, Adds2, ControlHomes)
    BY <1>10
  <2> HIDE DEF A, B, C, D
  <2> QED
    BY <1>4, <1>8, <1>9, <2>1
<1> QED
  BY <1>4, <1>15, <1>16, BuildsSet

LEMMA Control3Builds == Builds(Control3, Adds3, ControlHomes)
<1> DEFINE a == Create("action_correlation", {})
<1>1. IsScript(Control3) /\ ToSet(Control3) = {a, Commit}
  BY DEF Control3, IsScript, ToSet
<1>2. TheTable("action_correlation") \in Adds3 /\ Parts("action_correlation", {}) \subseteq Adds3
      /\ Adds3 = {TheTable("action_correlation")}
  BY DEF Adds3, TheTable, Parts
<1>3. Suits(a, Adds3, ControlHomes) /\ IsAdding(a) /\ Asked(a) = TheTable("action_correlation")
  <2>1. "action_correlation" \notin {"schema_migrations", "alembic_version"}
    OBVIOUS
  <2> QED
    BY <1>2, <2>1, StatementsSuit
<1>4. Suits(Commit, Adds3, ControlHomes) /\ ~IsAdding(Commit)
  BY EndsSuit
<1> HIDE DEF a
<1>5. AskedIn(ToSet(Control3)) = Adds3
  BY <1>1, <1>2, <1>3, <1>4 DEF AskedIn
<1> QED
  BY <1>1, <1>3, <1>4, <1>5, BuildsSet

LEMMA Control5Builds == Builds(Control5, Adds5, ControlHomes)
<1> DEFINE u == "command_outbox"
           w == "command_verification"
           s1 == Create(u, {})
           s2 == Rows("settle", u)
           s3 == Adds(Commands, Enqueue)
           s4 == Create(w, {})
           s5 == Rows("windows", w)
           s6 == Adds(u, "idx_outbox_pending")
           s7 == Adds(w, "idx_verification_device")
<1>1. IsScript(Control5) /\ ToSet(Control5) = {s1, s2, s3, s4, s5, s6, s7}
  BY DEF Control5, IsScript, ToSet, Commands
<1>2. /\ TheTable(u) \in Adds5 /\ TheTable(w) \in Adds5
      /\ Parts(u, {}) \subseteq Adds5 /\ Parts(w, {}) \subseteq Adds5
      /\ <<Commands, Enqueue>> \in Adds5 \cap ControlHomes
      /\ <<u, "idx_outbox_pending">> \in Adds5 \cap ControlHomes
      /\ <<w, "idx_verification_device">> \in Adds5 \cap ControlHomes
      /\ Enqueue # ""
  BY DEF Adds5, ControlHomes, TheTable, Parts, Trigger, Commands, Enqueue
<1>3. u \notin {"schema_migrations", "alembic_version"} /\ w \notin {"schema_migrations", "alembic_version"}
      /\ Commands \notin {"schema_migrations", "alembic_version"}
  BY DEF Commands
<1>4. /\ Suits(s1, Adds5, ControlHomes) /\ IsAdding(s1) /\ Asked(s1) = <<u, "">>
      /\ Suits(s2, Adds5, ControlHomes) /\ ~IsAdding(s2)
      /\ Suits(s4, Adds5, ControlHomes) /\ IsAdding(s4) /\ Asked(s4) = <<w, "">>
      /\ Suits(s5, Adds5, ControlHomes) /\ ~IsAdding(s5)
  BY <1>2, <1>3, StatementsSuit DEF TheTable
<1>5. /\ Suits(s3, Adds5, ControlHomes) /\ IsAdding(s3) /\ Asked(s3) = <<Commands, Enqueue>>
      /\ Suits(s6, Adds5, ControlHomes) /\ IsAdding(s6) /\ Asked(s6) = <<u, "idx_outbox_pending">>
      /\ Suits(s7, Adds5, ControlHomes) /\ IsAdding(s7) /\ Asked(s7) = <<w, "idx_verification_device">>
  BY <1>2, <1>3, StatementsSuit
<1> HIDE DEF s1, s2, s3, s4, s5, s6, s7
<1>6. AskedIn(ToSet(Control5)) = Adds5
  BY <1>1, <1>4, <1>5 DEF AskedIn, Adds5, Trigger, Commands
<1>7. \A s \in ToSet(Control5) : Suits(s, Adds5, ControlHomes)
  BY <1>1, <1>4, <1>5
<1> QED
  BY <1>1, <1>6, <1>7, BuildsSet

LEMMA AtHomeParts ==
  ASSUME NEW homes, NEW a, NEW b
  PROVE  /\ AtHome(a \cup b, homes) <=> AtHome(a, homes) /\ AtHome(b, homes)
         /\ AtHome(a, homes) /\ b \subseteq a => AtHome(b, homes)
         /\ AtHome({}, homes)
  BY DEF AtHome

LEMMA BuildsUp ==
  ASSUME NEW script, NEW adds, NEW homes, Builds(script, adds, homes), NEW lo,
         AtHome(lo \cup adds, homes)
  PROVE  /\ \A j \in 1..Len(script) : Grows(script[j], lo \cup AskedBy(script, Len(script)))
         /\ Passed(script, lo)[Len(script)] = lo \cup adds
<1>1. \A j \in 1..Len(script) : Grows(script[j], lo \cup adds)
  BY SuitsGrow DEF Builds
<1>2. Len(script) \in Nat /\ AskedBy(script, Len(script)) = adds
  BY DEF Builds
<1>3. Len(script) \in 0..Len(script)
  BY <1>2
<1>4. \A j \in 1..Len(script) : Grows(script[j], lo \cup AskedBy(script, Len(script)))
  BY <1>1, <1>2
<1>5. Passed(script, lo)[Len(script)] = lo \cup AskedBy(script, Len(script))
  BY <1>2, <1>3, <1>4, Grown
<1> QED
  BY <1>2, <1>4, <1>5

LEMMA TriggersAre ==
  /\ ToSet(CommandTriggers) = {"trg_device_command_require_diagnosis_insert",
                               "trg_device_command_require_diagnosis_update"}
  /\ ToSet(ProposalTriggers) = {"trg_remediation_proposal_require_diagnosis_insert",
                                "trg_remediation_proposal_require_diagnosis_update"}
  /\ ToSet(CommandCompat) = {"diagnosis_id", "case_status", "case_id", "case_attempts", "case_error"}
<1>1. ToSet(CommandTriggers) = {CommandTriggers[1], CommandTriggers[2]}
      /\ ToSet(ProposalTriggers) = {ProposalTriggers[1], ProposalTriggers[2]}
  BY DEF ToSet, CommandTriggers, ProposalTriggers
<1>2. ToSet(CommandCompat) = {"diagnosis_id", "case_status", "case_id", "case_attempts", "case_error"}
  BY DEF ToSet, CommandCompat
<1>3. /\ CommandTriggers[1] = "trg_device_command_require_diagnosis_insert"
      /\ CommandTriggers[2] = "trg_device_command_require_diagnosis_update"
      /\ ProposalTriggers[1] = "trg_remediation_proposal_require_diagnosis_insert"
      /\ ProposalTriggers[2] = "trg_remediation_proposal_require_diagnosis_update"
  BY DEF CommandTriggers, ProposalTriggers
<1> QED
  BY <1>1, <1>2, <1>3

LEMMA ControlAtHome ==
  /\ AtHome(Adds1, ControlHomes) /\ AtHome(Adds2, ControlHomes)
  /\ AtHome(Adds3, ControlHomes) /\ AtHome(Adds5, ControlHomes)
<1> USE DEF Commands, Proposals, Enqueue, Trigger
<1> DEFINE blank == ""
           others == {blank, "diagnosis_id", "case_id", "case_status", "case_attempts", "case_error"}
<1>1. ASSUME NEW h \in ControlHomes
      PROVE  h \in {<<Commands, "idx_command_device">>, <<Commands, "idx_command_diagnosis">>,
                    Trigger, <<Proposals, "idx_proposal_status">>,
                    <<Proposals, "idx_proposal_diagnosis">>,
                    <<"command_outbox", "idx_outbox_pending">>,
                    <<"command_verification", "idx_verification_device">>,
                    <<Commands, "trg_device_command_require_diagnosis_insert">>,
                    <<Commands, "trg_device_command_require_diagnosis_update">>,
                    <<Proposals, "trg_remediation_proposal_require_diagnosis_insert">>,
                    <<Proposals, "trg_remediation_proposal_require_diagnosis_update">>}
  BY TriggersAre DEF ControlHomes, Parts
<1>2. \A g, h \in ControlHomes : g[2] = h[2] => g = h
  BY <1>1
<1>3. ASSUME NEW h \in ControlHomes PROVE h[2] \notin others
  <2>1. /\ blank # "idx_command_device" /\ blank # "idx_command_diagnosis"
        /\ blank # "enqueue_device_command" /\ blank # "idx_proposal_status"
        /\ blank # "idx_proposal_diagnosis" /\ blank # "idx_outbox_pending"
        /\ blank # "idx_verification_device"
        /\ blank # "trg_device_command_require_diagnosis_insert"
        /\ blank # "trg_device_command_require_diagnosis_update"
        /\ blank # "trg_remediation_proposal_require_diagnosis_insert"
        /\ blank # "trg_remediation_proposal_require_diagnosis_update"
    OBVIOUS
  <2> HIDE DEF blank
  <2> QED
    BY <1>1, <2>1
<1>4. ASSUME NEW has, \A o \in has : o \in ControlHomes \/ o[2] \in others
      PROVE  AtHome(has, ControlHomes)
  <2> HIDE DEF others
  <2> QED
    BY <1>2, <1>3, <1>4 DEF AtHome
<1>5. \A o \in Adds1 : o \in ControlHomes \/ o[2] \in others
  <2>1. Adds1 = {<<Commands, blank>>, <<Commands, "idx_command_device">>, <<Proposals, blank>>,
                 <<Proposals, "idx_proposal_status">>, <<Proposals, "diagnosis_id">>}
                \cup Parts(Commands, ToSet(CommandCompat))
    BY DEF Adds1
  <2> HIDE DEF blank
  <2> QED
    BY <2>1, TriggersAre DEF Parts, ControlHomes
<1>6. \A o \in Adds2 : o \in ControlHomes \/ o[2] \in others
  BY DEF Adds2, Parts, ControlHomes
<1>7. \A o \in Adds3 : o \in ControlHomes \/ o[2] \in others
  <2>1. Adds3 = {<<"action_correlation", blank>>}
    BY DEF Adds3
  <2> HIDE DEF blank
  <2> QED
    BY <2>1
<1>8. \A o \in Adds5 : o \in ControlHomes \/ o[2] \in others
  <2>1. Adds5 = {<<"command_outbox", blank>>, Trigger, <<"command_verification", blank>>,
                 <<"command_outbox", "idx_outbox_pending">>,
                 <<"command_verification", "idx_verification_device">>}
    BY DEF Adds5
  <2> HIDE DEF blank
  <2> QED
    BY <2>1 DEF ControlHomes
<1> HIDE DEF others
<1> QED
  BY <1>4, <1>5, <1>6, <1>7, <1>8

NewTable == TheTable("device_command_new")
CaseParts == Parts("device_command", CaseColumns)

\* What is in a statement.
LEMMA AddFields ==
  /\ \A t, c : /\ Create(t, c).op = "create" /\ Create(t, c).table = t
               /\ Create(t, c).names = c /\ Create(t, c).strict = FALSE
               /\ CreateNew(t, c).op = "create" /\ CreateNew(t, c).table = t
               /\ CreateNew(t, c).names = c /\ CreateNew(t, c).strict = TRUE
  /\ \A t, n : /\ Adds(t, n).op = "part" /\ Adds(t, n).table = t
               /\ Adds(t, n).names = {n} /\ Adds(t, n).strict = FALSE
               /\ AddsNew(t, n).op = "part" /\ AddsNew(t, n).table = t
               /\ AddsNew(t, n).names = {n} /\ AddsNew(t, n).strict = TRUE
  /\ \A t, n : /\ ColumnUnseen(t, n).op = "column" /\ ColumnUnseen(t, n).table = t
               /\ ColumnUnseen(t, n).names = {n} /\ ColumnUnseen(t, n).strict = FALSE
               /\ ColumnNew(t, n).op = "column" /\ ColumnNew(t, n).table = t
               /\ ColumnNew(t, n).names = {n} /\ ColumnNew(t, n).strict = TRUE
  BY DEF Create, CreateNew, Adds, AddsNew, ColumnUnseen, ColumnNew, Statement
LEMMA DropFields ==
  /\ \A t, n : /\ DropIfExists(t, n).op = "drop" /\ DropIfExists(t, n).table = t
               /\ DropIfExists(t, n).names = {n} /\ DropIfExists(t, n).strict = FALSE
               /\ DropStrict(t, n).op = "drop" /\ DropStrict(t, n).table = t
               /\ DropStrict(t, n).names = {n} /\ DropStrict(t, n).strict = TRUE
  /\ \A t, n : /\ Rename(t, n).op = "rename" /\ Rename(t, n).table = t
               /\ Rename(t, n).names = {n}
  BY DEF DropIfExists, DropStrict, Rename, Statement
LEMMA OtherFields ==
  /\ \A t : Read(t).op = "read" /\ Read(t).table = t
  /\ \A t, n : /\ OnlyIfSeen(t, n).op = "only" /\ OnlyIfSeen(t, n).table = t
               /\ OnlyIfSeen(t, n).names = n
  /\ \A t, w : Rows(w, t).op = w /\ Rows(w, t).table = t
  /\ Commit.op = "commit" /\ Commit.table = Blank
  /\ OnlyWithFts5.op = "fts5" /\ OnlyWithFts5.table = Blank
  BY DEF Read, OnlyIfSeen, Rows, Commit, OnlyWithFts5, Statement, Blank

\* A statement that leaves the schema alone.
LEMMA ThroughSame ==
  ASSUME NEW s, s.op \notin {"create", "part", "column", "drop", "rename"}, NEW h
  PROVE  Through(s, h) = h /\ ~IsIdle(s, h, h) /\ SchemaAfter(s, h) = h
  BY DEF Through, IsIdle, SchemaAfter

\* The rebuild, from a schema without the new table.
LEMMA Control4Passed ==
  ASSUME NEW lo, \A o \in lo : o[1] # "device_command_new",
         Adds1 \subseteq lo, Adds2 \subseteq lo
  PROVE  LET P == Passed(Control4, lo)
         IN  /\ P[0] = lo /\ P[1] = lo /\ P[2] = lo
             /\ P[3] = lo \cup {NewTable} /\ P[4] = P[3] /\ P[11] = P[10]
             /\ P[11] \subseteq lo /\ P[11] \cap CaseParts = {}
<1> DEFINE P == Passed(Control4, lo)
           C == Control4
<1>1. /\ Len(C) = 11 /\ P[0] = lo
      /\ \A i \in 1..11 : P[i] = Through(C[i], P[i - 1])
  <2>1. Len(C) = 11
    BY Control4Is
  <2>2. Len(C) \in Nat
    BY <2>1
  <2>3. P[0] = lo
    BY <2>2, PassedIs
  <2>4. \A i \in 1..Len(C) : P[i] = Through(C[i], P[i - 1])
    BY <2>2, PassedIs
  <2> QED
    BY <2>1, <2>3, <2>4
<1>2. /\ C[1] = Read("device_command") /\ C[2] = OnlyIfSeen("device_command", CaseColumns)
      /\ C[3] = CreateNew("device_command_new", {}) /\ C[4] = Rows("copy", "device_command_new")
      /\ C[5] = DropStrict("device_command", Blank)
      /\ C[6] = Rename("device_command_new", "device_command")
      /\ C[11] = Commit
  BY Control4Is DEF Blank
<1>3. /\ C[7] = Adds("device_command", "idx_command_device")
      /\ C[8] = Adds("device_command", "idx_command_diagnosis")
      /\ C[9] = AddsNew("device_command", CommandTriggers[1])
      /\ C[10] = AddsNew("device_command", CommandTriggers[2])
  BY DEF Control4
<1> HIDE DEF P, C
<1>4. /\ P[1] = Through(C[1], P[0]) /\ P[2] = Through(C[2], P[1]) /\ P[3] = Through(C[3], P[2])
      /\ P[4] = Through(C[4], P[3]) /\ P[5] = Through(C[5], P[4]) /\ P[6] = Through(C[6], P[5])
      /\ P[7] = Through(C[7], P[6]) /\ P[8] = Through(C[8], P[7]) /\ P[9] = Through(C[9], P[8])
      /\ P[10] = Through(C[10], P[9]) /\ P[11] = Through(C[11], P[10])
  BY <1>1
<1>5. P[1] = lo /\ P[2] = lo /\ P[4] = P[3] /\ P[11] = P[10]
  <2>1. /\ C[1].op = "read" /\ C[2].op = "only" /\ C[4].op = "copy" /\ C[11].op = "commit"
    BY <1>2, OtherFields
  <2> QED
    BY <1>1, <1>4, <2>1, ThroughSame
<1>6. P[3] = lo \cup {NewTable}
  <2>1. C[3].op = "create" /\ C[3].strict = TRUE /\ C[3].table = "device_command_new" /\ C[3].names = {}
    BY <1>2, AddFields
  <2>2. ~IsIdle(C[3], lo, lo)
    BY <2>1 DEF IsIdle
  <2>3. SchemaAfter(C[3], lo) = lo \cup {NewTable}
    BY <2>1 DEF SchemaAfter, NewTable, Parts
  <2> QED
    BY <1>4, <1>5, <2>2, <2>3 DEF Through
<1>7. P[5] = P[3] \ Of("device_command", P[3])
  <2>1. C[5].op = "drop" /\ C[5].strict = TRUE /\ C[5].table = "device_command" /\ C[5].names = {Blank}
    BY <1>2, DropFields
  <2>2. Only(C[5]) = Blank
    BY <2>1, OnlyName
  <2>3. ~IsIdle(C[5], P[4], P[4])
    BY <2>1 DEF IsIdle
  <2>4. SchemaAfter(C[5], P[4]) = P[4] \ Of("device_command", P[4])
    BY <2>1, <2>2 DEF SchemaAfter, Blank
  <2> QED
    BY <1>4, <1>5, <2>3, <2>4 DEF Through
<1>8. P[6] \subseteq lo /\ P[6] \cap CaseParts = {}
  <2>1. C[6].op = "rename" /\ C[6].table = "device_command_new" /\ C[6].names = {"device_command"}
    BY <1>2, DropFields
  <2>2. Only(C[6]) = "device_command"
    BY <2>1, OnlyName
  <2>3. ~IsIdle(C[6], P[5], P[5])
    BY <2>1 DEF IsIdle
  <2> DEFINE news == Of("device_command_new", P[5])
  <2>4. P[6] = (P[5] \ news) \cup Parts("device_command", Named(news))
    BY <1>4, <2>1, <2>2, <2>3 DEF Through, SchemaAfter
  <2>5. \A o \in P[5] : o[1] # "device_command" /\ (o \in lo \/ o = NewTable)
    BY <1>6, <1>7 DEF Of
  <2>6. \A o \in news : o = NewTable
    BY <2>5 DEF Of
  <2>7. NewTable[2] = Blank /\ NewTable[1] = "device_command_new"
    BY TableIs DEF NewTable
  <2>8. \A x \in Named(news) : x = Blank
    BY <2>6, <2>7 DEF Named
  <2>9. \A o \in Parts("device_command", Named(news)) : o = <<"device_command", Blank>>
    BY <2>8 DEF Parts
  <2>10. <<"device_command", Blank>> \in lo
    BY DEF Adds1, Commands, Blank
  <2>11. \A o \in P[6] : (o \in lo /\ o[1] # "device_command") \/ o = <<"device_command", Blank>>
    <3> HIDE DEF news
    <3>1. ASSUME NEW o \in P[5] \ news PROVE o \in lo /\ o[1] # "device_command"
      <4>1. o # NewTable
        BY <2>7, <3>1 DEF Of, news
      <4> QED
        BY <2>5, <4>1
    <3> QED
      BY <2>4, <2>9, <3>1
  <2>12. \A o \in CaseParts : o[1] = "device_command" /\ o # <<"device_command", Blank>>
    <3>1. \A x \in CaseColumns : x # Blank
      BY DEF CaseColumns, Blank
    <3> QED
      BY <3>1 DEF CaseParts, Parts
  <2> QED
    BY <2>10, <2>11, <2>12
<1>9. ASSUME NEW s, NEW h, h \subseteq lo, h \cap CaseParts = {},
             s.op = "part", s.names \subseteq {"idx_command_device", "idx_command_diagnosis",
                                               CommandTriggers[1], CommandTriggers[2]},
             s.table = "device_command"
      PROVE  Through(s, h) \subseteq lo /\ Through(s, h) \cap CaseParts = {}
  <2>1. SchemaAfter(s, h) = h \cup Parts("device_command", s.names)
    BY <1>9 DEF SchemaAfter
  <2>2. Through(s, h) \subseteq h \cup Parts("device_command", s.names)
    BY <2>1 DEF Through
  <2>3. CommandTriggers[1] \in ToSet(CommandTriggers) /\ CommandTriggers[2] \in ToSet(CommandTriggers)
    BY DEF ToSet, CommandTriggers
  <2>4. /\ <<"device_command", "idx_command_device">> \in Adds1
        /\ <<"device_command", "idx_command_diagnosis">> \in Adds2
        /\ Parts("device_command", ToSet(CommandTriggers)) \subseteq Adds2
    BY DEF Adds1, Adds2, Commands
  <2>5. Parts("device_command", s.names) \subseteq lo
    BY <1>9, <2>3, <2>4 DEF Parts
  <2>6. /\ CommandTriggers[1] \notin CaseColumns /\ CommandTriggers[2] \notin CaseColumns
        /\ "idx_command_device" \notin CaseColumns /\ "idx_command_diagnosis" \notin CaseColumns
    BY DEF CommandTriggers, CaseColumns
  <2>7. Parts("device_command", s.names) \cap CaseParts = {}
    BY <1>9, <2>6 DEF Parts, CaseParts
  <2> QED
    BY <1>9, <2>2, <2>5, <2>7
<1>10. /\ C[7].op = "part" /\ C[7].table = "device_command" /\ C[7].names = {"idx_command_device"}
       /\ C[8].op = "part" /\ C[8].table = "device_command" /\ C[8].names = {"idx_command_diagnosis"}
       /\ C[9].op = "part" /\ C[9].table = "device_command" /\ C[9].names = {CommandTriggers[1]}
       /\ C[10].op = "part" /\ C[10].table = "device_command" /\ C[10].names = {CommandTriggers[2]}
  BY <1>3, AddFields
<1>11. P[7] \subseteq lo /\ P[7] \cap CaseParts = {}
  BY <1>4, <1>8, <1>9, <1>10
<1>12. P[8] \subseteq lo /\ P[8] \cap CaseParts = {}
  BY <1>4, <1>9, <1>10, <1>11
<1>13. P[9] \subseteq lo /\ P[9] \cap CaseParts = {}
  BY <1>4, <1>9, <1>10, <1>12
<1>14. P[10] \subseteq lo /\ P[10] \cap CaseParts = {}
  BY <1>4, <1>9, <1>10, <1>13
<1> QED
  BY <1>1, <1>5, <1>6, <1>14 DEF P

\* A script that grows from a schema.
GrowsFrom(script, lo) ==
  /\ Len(script) \in Nat
  /\ \A j \in 1..Len(script) : Grows(script[j], lo \cup AskedBy(script, Len(script)))
AllPlain(script) == \A j \in 1..Len(script) : IsPlain(script[j])

LEMMA ControlSchemas ==
  LET U == Upgraded["control"]
  IN  /\ U[0] = {} /\ U[1] = Adds1 /\ U[3] = Adds1 \cup Adds2 \cup Adds3
      /\ \A m \in {1, 2, 3, 5} : /\ GrowsFrom(Control[m], U[m - 1])
                                 /\ U[m] = U[m - 1] \cup AskedBy(Control[m], Len(Control[m]))
      /\ U[4] = Passed(Control4, U[3])[11]
      /\ \A o \in U[3] : o[1] # "device_command_new"
      /\ U[4] \subseteq U[3] /\ U[4] \cap CaseParts = {}
<1> DEFINE U == Upgraded["control"]
<1>1. /\ U[0] = {}
      /\ \A m \in 1..5 : U[m] = Passed(Control[m], U[m - 1])[Len(Control[m])]
  <2>1. Scripts["control"] = Control /\ Len(Control) = 5
    BY ControlScripts
  <2>2. "control" \in Services /\ Len(Scripts["control"]) \in Nat
    BY <2>1 DEF Services
  <2> QED
    BY <2>1, <2>2, UpgradedIs
<1> HIDE DEF U
<1>2. /\ Control[1] = Control1 /\ Control[2] = Control2 /\ Control[3] = Control3
      /\ Control[4] = Control4 /\ Control[5] = Control5
  BY ControlScripts
<1>3. /\ U[1] = Passed(Control1, U[0])[Len(Control1)]
      /\ U[2] = Passed(Control2, U[1])[Len(Control2)]
      /\ U[3] = Passed(Control3, U[2])[Len(Control3)]
      /\ U[4] = Passed(Control4, U[3])[Len(Control4)]
      /\ U[5] = Passed(Control5, U[4])[Len(Control5)]
  <2>0. 1 - 1 = 0 /\ 2 - 1 = 1 /\ 3 - 1 = 2 /\ 4 - 1 = 3 /\ 5 - 1 = 4
    OBVIOUS
  <2>1. U[1] = Passed(Control[1], U[1 - 1])[Len(Control[1])]
    BY <1>1
  <2>2. U[2] = Passed(Control[2], U[2 - 1])[Len(Control[2])]
    BY <1>1
  <2>3. U[3] = Passed(Control[3], U[3 - 1])[Len(Control[3])]
    BY <1>1
  <2>4. U[4] = Passed(Control[4], U[4 - 1])[Len(Control[4])]
    BY <1>1
  <2>5. U[5] = Passed(Control[5], U[5 - 1])[Len(Control[5])]
    BY <1>1
  <2> QED
    BY <1>2, <2>0, <2>1, <2>2, <2>3, <2>4, <2>5, Zenon
<1>4. ASSUME NEW script, NEW adds, Builds(script, adds, ControlHomes), NEW lo,
             AtHome(lo, ControlHomes), AtHome(adds, ControlHomes)
      PROVE  /\ GrowsFrom(script, lo) /\ Passed(script, lo)[Len(script)] = lo \cup adds
             /\ AskedBy(script, Len(script)) = adds /\ AtHome(lo \cup adds, ControlHomes)
  <2>1. AtHome(lo \cup adds, ControlHomes)
    BY <1>4, AtHomeParts
  <2> QED
    BY <1>4, <2>1, BuildsUp DEF GrowsFrom, Builds
<1>5. /\ GrowsFrom(Control1, U[0]) /\ U[1] = U[0] \cup Adds1
      /\ AskedBy(Control1, Len(Control1)) = Adds1 /\ AtHome(U[1], ControlHomes)
  <2>1. AtHome(U[0], ControlHomes)
    BY <1>1, AtHomeParts
  <2>2. /\ GrowsFrom(Control1, U[0]) /\ Passed(Control1, U[0])[Len(Control1)] = U[0] \cup Adds1
        /\ AskedBy(Control1, Len(Control1)) = Adds1 /\ AtHome(U[0] \cup Adds1, ControlHomes)
    BY <1>4, <2>1, Control1Builds, ControlAtHome
  <2> QED
    BY <1>3, <2>2, Zenon
<1>6. /\ GrowsFrom(Control2, U[1]) /\ U[2] = U[1] \cup Adds2
      /\ AskedBy(Control2, Len(Control2)) = Adds2 /\ AtHome(U[2], ControlHomes)
  <2>1. /\ GrowsFrom(Control2, U[1])
        /\ Passed(Control2, U[1])[Len(Control2)] = U[1] \cup Adds2
        /\ AskedBy(Control2, Len(Control2)) = Adds2 /\ AtHome(U[1] \cup Adds2, ControlHomes)
    BY <1>4, <1>5, Control2Builds, ControlAtHome
  <2> QED
    BY <1>3, <2>1, Zenon
<1>7. /\ GrowsFrom(Control3, U[2]) /\ U[3] = U[2] \cup Adds3
      /\ AskedBy(Control3, Len(Control3)) = Adds3 /\ AtHome(U[3], ControlHomes)
  <2>1. /\ GrowsFrom(Control3, U[2])
        /\ Passed(Control3, U[2])[Len(Control3)] = U[2] \cup Adds3
        /\ AskedBy(Control3, Len(Control3)) = Adds3 /\ AtHome(U[2] \cup Adds3, ControlHomes)
    BY <1>4, <1>6, Control3Builds, ControlAtHome
  <2> QED
    BY <1>3, <2>1, Zenon
<1>8. U[3] = Adds1 \cup Adds2 \cup Adds3
  BY <1>1, <1>5, <1>6, <1>7
<1>9. \A o \in U[3] : o[1] # "device_command_new"
  <2>1. \A o \in Adds1 : o[1] # "device_command_new"
    <3>1. Adds1 = {<<Commands, Blank>>, <<Commands, "idx_command_device">>, <<Proposals, Blank>>,
                   <<Proposals, "idx_proposal_status">>, <<Proposals, "diagnosis_id">>}
                  \cup Parts(Commands, ToSet(CommandCompat))
      BY DEF Adds1, Blank
    <3> QED
      BY <3>1 DEF Parts, Commands, Proposals
  <2>2. \A o \in Adds2 : o[1] # "device_command_new"
    BY DEF Adds2, Parts, Commands, Proposals
  <2>3. \A o \in Adds3 : o[1] # "device_command_new"
    <3>1. Adds3 = {<<"action_correlation", Blank>>}
      BY DEF Adds3, Blank
    <3> QED
      BY <3>1
  <2> QED
    BY <1>8, <2>1, <2>2, <2>3
<1>10. /\ U[4] = Passed(Control4, U[3])[11] /\ U[4] \subseteq U[3] /\ U[4] \cap CaseParts = {}
  <2>1. Len(Control4) = 11
    BY Control4Is
  <2>2. Adds1 \subseteq U[3] /\ Adds2 \subseteq U[3]
    BY <1>8
  <2> QED
    BY <1>3, <1>9, <2>1, <2>2, Control4Passed
<1>11. AtHome(U[4], ControlHomes)
  BY <1>7, <1>10, AtHomeParts
<1>12. /\ GrowsFrom(Control5, U[4]) /\ U[5] = U[4] \cup Adds5
       /\ AskedBy(Control5, Len(Control5)) = Adds5
  BY <1>3, <1>4, <1>11, Control5Builds, ControlAtHome
<1>13. ASSUME NEW m \in {1, 2, 3, 5}
       PROVE  /\ GrowsFrom(Control[m], U[m - 1])
              /\ U[m] = U[m - 1] \cup AskedBy(Control[m], Len(Control[m]))
  <2>1. CASE m = 1
    <3>1. m - 1 = 0
      BY <2>1
    <3> QED
      BY <1>2, <1>5, <2>1, <3>1, Zenon
  <2>2. CASE m = 2
    <3>1. m - 1 = 1
      BY <2>2
    <3> QED
      BY <1>2, <1>6, <2>2, <3>1, Zenon
  <2>3. CASE m = 3
    <3>1. m - 1 = 2
      BY <2>3
    <3> QED
      BY <1>2, <1>7, <2>3, <3>1, Zenon
  <2>4. CASE m = 5
    <3>1. m - 1 = 4
      BY <2>4
    <3> QED
      BY <1>2, <1>12, <2>4, <3>1, Zenon
  <2> QED
    BY <2>1, <2>2, <2>3, <2>4
<1>14. U[1] = Adds1
  BY <1>1, <1>5
<1> QED
  BY <1>1, <1>8, <1>9, <1>10, <1>13, <1>14 DEF U

LEMMA ControlPlain == \A m \in 1..5 : AllPlain(Control[m])
<1>1. \A script, adds, homes : Builds(script, adds, homes) => AllPlain(script)
  BY DEF Builds, Suits, AllPlain
<1>2. AllPlain(Control1) /\ AllPlain(Control2) /\ AllPlain(Control3) /\ AllPlain(Control5)
  BY <1>1, Control1Builds, Control2Builds, Control3Builds, Control5Builds
<1>3. AllPlain(Control4)
  <2> DEFINE C == Control4
  <2>1. /\ C[1] = Read("device_command") /\ C[2] = OnlyIfSeen("device_command", CaseColumns)
        /\ C[3] = CreateNew("device_command_new", {}) /\ C[4] = Rows("copy", "device_command_new")
        /\ C[5] = DropStrict("device_command", Blank)
        /\ C[6] = Rename("device_command_new", "device_command")
        /\ C[11] = Commit
    BY Control4Is DEF Blank
  <2>2. /\ C[7] = Adds("device_command", "idx_command_device")
        /\ C[8] = Adds("device_command", "idx_command_diagnosis")
        /\ C[9] = AddsNew("device_command", CommandTriggers[1])
        /\ C[10] = AddsNew("device_command", CommandTriggers[2])
    BY DEF Control4
  <2> HIDE DEF C
  <2>3. /\ C[1].op = "read" /\ C[1].table = "device_command"
        /\ C[2].op = "only" /\ C[2].table = "device_command"
        /\ C[4].op = "copy" /\ C[4].table = "device_command_new"
        /\ C[11].op = "commit" /\ C[11].table = Blank
    BY <2>1, OtherFields
  <2>4. /\ C[3].op = "create" /\ C[3].table = "device_command_new"
        /\ C[7].op = "part" /\ C[7].table = "device_command" /\ C[7].names = {"idx_command_device"}
        /\ C[8].op = "part" /\ C[8].table = "device_command" /\ C[8].names = {"idx_command_diagnosis"}
        /\ C[9].op = "part" /\ C[9].table = "device_command" /\ C[9].strict = TRUE
        /\ C[10].op = "part" /\ C[10].table = "device_command" /\ C[10].strict = TRUE
    BY <2>1, <2>2, AddFields
  <2>5. /\ C[5].op = "drop" /\ C[5].table = "device_command"
        /\ C[6].op = "rename" /\ C[6].table = "device_command_new" /\ C[6].names = {"device_command"}
    BY <2>1, DropFields
  <2>6. /\ Only(C[6]) = "device_command" /\ Only(C[7]) = "idx_command_device"
        /\ Only(C[8]) = "idx_command_diagnosis"
    BY <2>4, <2>5, OnlyName
  <2>7. Blank \notin {"schema_migrations", "alembic_version"} /\ Blank # "idx_command_device"
        /\ Blank # "idx_command_diagnosis"
    BY DEF Blank
  <2>8. \A s : IsPlain(s) <=> /\ s.table \notin {"schema_migrations", "alembic_version"}
                              /\ s.op = "rename" => Only(s) \notin {"schema_migrations", "alembic_version"}
                              /\ s.op = "part" /\ ~s.strict => Only(s) # Blank
    BY DEF IsPlain, Blank
  <2>9. /\ IsPlain(C[1]) /\ IsPlain(C[2]) /\ IsPlain(C[3]) /\ IsPlain(C[4]) /\ IsPlain(C[5])
        /\ IsPlain(C[6]) /\ IsPlain(C[7]) /\ IsPlain(C[8]) /\ IsPlain(C[9]) /\ IsPlain(C[10])
        /\ IsPlain(C[11])
    BY <2>3, <2>4, <2>5, <2>6, <2>7, <2>8
  <2>10. Len(C) = 11
    BY Control4Is DEF C
  <2> QED
    BY <2>9, <2>10 DEF C, AllPlain
<1> QED
  BY <1>2, <1>3, ControlScripts

-----------------------------------------------------------------------------
(* The table of the versions is out of the scripts' reach.                  *)

LEMMA LedgerIs ==
  ASSUME svc \in Services
  PROVE  \E t \in {"schema_migrations", "alembic_version"} : Ledger[svc] = <<t, Blank>>
<1>1. Ledger[svc] = TheTable(IF svc = "backend" THEN "alembic_version" ELSE "schema_migrations")
  BY DEF Ledger
<1> QED
  BY <1>1, TableIs

\* A statement of a script does to a schema without that table what it does to
\* the whole of it.
LEMMA OnBare ==
  ASSUME svc \in Services, NEW s, IsPlain(s), NEW has, NEW seen
  PROVE  /\ IsIdle(s, has, seen) <=> IsIdle(s, Bare(has), seen)
         /\ IsError(s, has) <=> IsError(s, Bare(has))
         /\ Bare(SchemaAfter(s, has)) = SchemaAfter(s, Bare(has))
         /\ Of(s.table, has) = Of(s.table, Bare(has))
         /\ Ledger[svc] \in has => Ledger[svc] \in SchemaAfter(s, has)
<1>1. PICK t \in {"schema_migrations", "alembic_version"} : Ledger[svc] = <<t, Blank>>
  BY LedgerIs
<1> DEFINE L == Ledger[svc]
<1>2. s.table # t /\ (s.op = "rename" => Only(s) # t) /\ (s.op = "part" /\ ~s.strict => Only(s) # Blank)
  BY DEF IsPlain, Blank
<1>3. L[1] = t /\ L[2] = Blank
  BY <1>1
<1>4. /\ \A n : <<s.table, n>> # L
      /\ TheTable(s.table) # L /\ (s.op = "rename" => TheTable(Only(s)) # L)
  BY <1>1, <1>2, TableIs
<1>5. \A x : Bare(x) = x \ {L}
  BY DEF Bare
<1> HIDE DEF L
<1>6. Of(s.table, has) = Of(s.table, has \ {L})
  BY <1>2, <1>3 DEF Of
<1>7. s.op = "part" /\ ~s.strict => (Only(s) \in Named(has) <=> Only(s) \in Named(has \ {L}))
  BY <1>2, <1>3 DEF Named
<1>8. IsIdle(s, has, seen) <=> IsIdle(s, has \ {L}, seen)
  BY <1>4, <1>7 DEF IsIdle
<1>9. IsError(s, has) <=> IsError(s, has \ {L})
  BY <1>4 DEF IsError
<1>10. \A names : L \notin Parts(s.table, names)
  BY <1>4 DEF Parts
<1>11. s.op = "rename" => \A names : L \notin Parts(Only(s), names)
  BY <1>2, <1>3 DEF Parts
<1>12. L \notin Of(s.table, has)
  BY <1>2, <1>3 DEF Of
<1> DEFINE Kept(x, y) == y \ {L} = x /\ (L \in has => L \in y)
<1>13. ASSUME s.op = "create" PROVE Kept(SchemaAfter(s, has \ {L}), SchemaAfter(s, has))
  BY <1>4, <1>10, <1>13 DEF SchemaAfter
<1>14. ASSUME s.op \in {"part", "column"} PROVE Kept(SchemaAfter(s, has \ {L}), SchemaAfter(s, has))
  BY <1>10, <1>14 DEF SchemaAfter
<1>15. ASSUME s.op = "drop" PROVE Kept(SchemaAfter(s, has \ {L}), SchemaAfter(s, has))
  <2>1. CASE Only(s) = Blank
    <3>1. /\ SchemaAfter(s, has) = has \ Of(s.table, has)
          /\ SchemaAfter(s, has \ {L}) = (has \ {L}) \ Of(s.table, has \ {L})
      BY <1>15, <2>1 DEF SchemaAfter, Blank
    <3> QED
      BY <1>6, <1>12, <3>1
  <2>2. CASE Only(s) # Blank
    <3>1. /\ SchemaAfter(s, has) = has \ Parts(s.table, s.names)
          /\ SchemaAfter(s, has \ {L}) = (has \ {L}) \ Parts(s.table, s.names)
      BY <1>15, <2>2 DEF SchemaAfter, Blank
    <3> QED
      BY <1>10, <3>1
  <2> QED
    BY <2>1, <2>2
<1>16. ASSUME s.op = "rename" PROVE Kept(SchemaAfter(s, has \ {L}), SchemaAfter(s, has))
  <2>1. /\ SchemaAfter(s, has) = (has \ Of(s.table, has))
                                 \cup Parts(Only(s), Named(Of(s.table, has)))
        /\ SchemaAfter(s, has \ {L}) = ((has \ {L}) \ Of(s.table, has \ {L}))
                                 \cup Parts(Only(s), Named(Of(s.table, has \ {L})))
    BY <1>16 DEF SchemaAfter
  <2> QED
    BY <1>6, <1>11, <1>12, <1>16, <2>1
<1>17. ASSUME s.op \notin {"create", "part", "column", "drop", "rename"}
       PROVE  Kept(SchemaAfter(s, has \ {L}), SchemaAfter(s, has))
  BY <1>17 DEF SchemaAfter
<1>18. Kept(SchemaAfter(s, has \ {L}), SchemaAfter(s, has))
  <2> HIDE DEF Kept
  <2> QED
    BY <1>13, <1>14, <1>15, <1>16, <1>17
<1> QED
  BY <1>5, <1>6, <1>8, <1>9, <1>18 DEF L

-----------------------------------------------------------------------------
(* What is asked of a script.                                               *)

\* A statement that leaves the database as it is.
Goes(m, i, h, j, e, w, o) == Held(m, j, e, h, w, o) /\ (IsAlone(m, j) => IsAlone(m, i))

\* A statement that makes another schema of it.
Carries(m, i, h, h2) ==
  h2 # h =>
    \A k, d : Held(m, k, d, h, h, FALSE) /\ ~(IsAlone(m, i) /\ IsAlone(m, k)) =>
                  Held(m, k, d, h2, h2, FALSE)
ArrivesAlone(m, i, h, j) ==
  IsAlone(m, j) /\ ~IsAlone(m, i) => \A k, d, w, o : Held(m, k, d, h, w, o) => ~IsAlone(m, k)
Changes(m, i, h, j, e, h2) ==
  /\ Stands(m, h2) /\ Held(m, j, e, h2, h2, FALSE)
  /\ Carries(m, i, h, h2) /\ ArrivesAlone(m, i, h, j)

IsOn(s, seen) == IF s.op = "fts5" THEN fts5 ELSE Parts(s.table, s.names) \cap seen # {}
Applies(s, v, seen) == IsSchema(s) /\ ~IsIdle(s, v, seen) /\ ~IsError(s, v)

Does(m, i, seen, h, v, open) ==
  LET s == Script(m)[i]
  IN  /\ s.op = "read" => Goes(m, i, h, i + 1, Of(s.table, v), v, open)
      /\ IsIdle(s, v, seen) => Goes(m, i, h, i + 1, seen, v, open)
      /\ s.op \in {"only", "fts5"} =>
            Goes(m, i, h, IF IsOn(s, seen) THEN i + 1 ELSE Len(Script(m)) + 1, seen, v, open)
      /\ IsRows(s) /\ ~IsError(s, v) =>
            /\ Goes(m, i, h, i + 1, seen, v, TRUE)
            /\ s.op = "newest" => Goes(m, i, h, i + 1, seen, v, open)
      /\ open /\ Applies(s, v, seen) => Goes(m, i, h, i + 1, seen, SchemaAfter(s, v), TRUE)
      /\ ~open /\ Applies(s, v, seen) /\ Bare(seen) \subseteq h =>
            Changes(m, i, h, i + 1, seen, SchemaAfter(s, v))
      /\ s.op = "commit" /\ (v # h => Bare(seen) \subseteq h) => Changes(m, i, h, i + 1, seen, v)

Soundly(m) ==
  /\ Len(Script(m)) \in Nat /\ AllPlain(Script(m))
  /\ \A h : Stands(m, h) => Held(m, 1, {}, h, h, FALSE) /\ ~IsAlone(m, 1)
  /\ \A i \in 1..Len(Script(m)), open \in BOOLEAN : \A seen, h, v :
        /\ Stands(m, h) /\ Held(m, i, seen, h, v, open) /\ (open \/ v = h)
        /\ svc = "diagnosis" /\ m = 6 => (open <=> i = 8)
        => Does(m, i, seen, h, v, open)
  /\ \A open \in BOOLEAN : \A seen, h, v :
        /\ Stands(m, h) /\ Held(m, Len(Script(m)) + 1, seen, h, v, open) /\ (open \/ v = h)
        => Stands(m + 1, v)

-----------------------------------------------------------------------------
(* The invariant in the next state.                                         *)

LEMMA LowSame ==
  ASSUME svc' = svc, fts5' = fts5, NEW m, NEW i
  PROVE  /\ Low(m)' = Low(m) /\ High(m)' = High(m) /\ Made(m, i)' = Made(m, i)
         /\ GotThrough(m, i)' = GotThrough(m, i) /\ LastVersion' = LastVersion
         /\ IsGrowing(m)' = IsGrowing(m) /\ Script(m)' = Script(m)
         /\ IsAlone(m, i)' = IsAlone(m, i)
<1>1. Low(m)' = Low(m) /\ High(m)' = High(m)
  BY DEF Low, High, Here
<1>2. LastVersion' = LastVersion /\ Script(m)' = Script(m)
  BY DEF LastVersion, Script
<1>3. Made(m, i)' = Made(m, i)
  BY <1>1, <1>2 DEF Made
<1>4. GotThrough(m, i)' = GotThrough(m, i)
  BY <1>2 DEF GotThrough
<1>5. IsGrowing(m)' = IsGrowing(m)
  BY DEF IsGrowing
<1>6. IsAlone(m, i)' = IsAlone(m, i)
  BY DEF IsAlone
<1> QED
  BY <1>1, <1>2, <1>3, <1>4, <1>5, <1>6

LEMMA StandsSame ==
  ASSUME svc' = svc, fts5' = fts5, NEW m, Stands(m, Bare(db'.has))
  PROVE  Stands(m, Bare(db.has))'
<1>1. Bare(db.has)' = Bare(db'.has)
  BY DEF Bare
<1>2. /\ Low(m)' = Low(m) /\ High(m)' = High(m) /\ LastVersion' = LastVersion
      /\ IsGrowing(m)' = IsGrowing(m) /\ Script(m)' = Script(m)
      /\ Low(4)' = Low(4) /\ Low(6)' = Low(6) /\ Low(2)' = Low(2)
      /\ High(4)' = High(4) /\ High(2)' = High(2) /\ High(6)' = High(6)
      /\ Made(4, 3)' = Made(4, 3) /\ Made(2, 9)' = Made(2, 9)
  BY LowSame
<1>3. FirstFails(m, Bare(db.has))' = FirstFails(m, Bare(db'.has))
  BY <1>1, <1>2 DEF FirstFails
<1> HIDE DEF Bare
<1> QED
  BY <1>1, <1>2, <1>3 DEF Stands

LEMMA HeldSame ==
  ASSUME svc' = svc, fts5' = fts5, NEW m, NEW p,
         Held(m, proc'[p].i, proc'[p].seen, Bare(db'.has), Bare(View(p)'.has), proc'[p].open)
  PROVE  Held(m, proc[p].i, proc[p].seen, Bare(db.has), Bare(View(p).has), proc[p].open)'
<1> DEFINE i == proc[p].i
           seen == proc[p].seen
           h == Bare(db.has)
           v == Bare(View(p).has)
           o == proc[p].open
<1>1. h' = Bare(db'.has) /\ v' = Bare(View(p)'.has)
  BY DEF Bare
<1>2. /\ High(m)' = High(m) /\ LastVersion' = LastVersion
      /\ IsGrowing(m)' = IsGrowing(m) /\ Script(m)' = Script(m)
      /\ Low(4)' = Low(4) /\ Low(2)' = Low(2)
      /\ High(4)' = High(4) /\ High(2)' = High(2)
      /\ Made(4, 3)' = Made(4, 3) /\ Made(2, 9)' = Made(2, 9)
  BY LowSame
<1>3. Script(m)' = Script(m) /\ Low(m)' = Low(m) /\ Script(4)' = Script(4) /\ Script(2)' = Script(2)
  BY LowSame
<1>4. GotThrough(m, i)' = GotThrough(m, i') /\ GotThrough(2, i)' = GotThrough(2, i')
  BY <1>3 DEF GotThrough
<1>5. Made(m, i - 1)' = Made(m, i' - 1) /\ Made(4, i - 1)' = Made(4, i' - 1)
  BY <1>2, <1>3 DEF Made
<1>6. i' = proc'[p].i /\ seen' = proc'[p].seen /\ o' = proc'[p].open
  OBVIOUS
<1>7. FirstFails(m, h)' = FirstFails(m, h')
  BY <1>3 DEF FirstFails
<1>8. Held(m, i', seen', h', v', o')
  BY <1>1, <1>6
<1> HIDE DEF i, seen, h, v, o
<1> SUFFICES Held(m, i, seen, h, v, o)'
  BY DEF i, seen, h, v, o
<1> QED
  BY <1>2, <1>3, <1>4, <1>5, <1>7, <1>8 DEF Held

\* One process moves; what the others have stays, or is carried along.
LEMMA UnderwayNext ==
  ASSUME svc' = svc, fts5' = fts5, ServiceInv, NEW m, Underway(m), NEW p \in Procs, OthersStay(p),
         Stands(m, Bare(db'.has)),
         \/ Bare(db'.has) = Bare(db.has)
         \/ /\ IsAt(proc[p], m) /\ Unlocked(p)
            /\ Carries(m, proc[p].i, Bare(db.has), Bare(db'.has)),
         IsAt(proc'[p], m) =>
            /\ Held(m, proc'[p].i, proc'[p].seen, Bare(db'.has), Bare(View(p)'.has), proc'[p].open)
            /\ IsAlone(m, proc'[p].i) =>
                  \/ IsAt(proc[p], m) /\ IsAlone(m, proc[p].i)
                  \/ \A q \in Procs \ {p} : IsAt(proc[q], m) => ~IsAlone(m, proc[q].i)
  PROVE  Underway(m)'
<1>1. Stands(m, Bare(db.has))'
  BY StandsSame
<1>2. Procs' = Procs /\ \A q \in Procs \ {p} : proc'[q] = proc[q]
  BY DEF OthersStay
<1>3. \A q \in Procs : IsAt(proc[q], m)' = IsAt(proc'[q], m)
  BY DEF IsAt, Runs
<1>4. ASSUME NEW q \in Procs, IsAt(proc'[q], m)
      PROVE  Held(m, proc[q].i, proc[q].seen, Bare(db.has), Bare(View(q).has), proc[q].open)'
  <2>1. CASE q = p
    BY <1>4, <2>1, HeldSame
  <2>2. CASE q # p
    <3>1. proc'[q] = proc[q] /\ IsAt(proc[q], m)
      BY <1>2, <1>4, <2>2
    <3>2. Held(m, proc[q].i, proc[q].seen, Bare(db.has), Bare(View(q).has), proc[q].open)
      BY <3>1 DEF Underway
    <3>3. proc[q].open \in BOOLEAN
      BY DEF ServiceInv, ProcFits
    <3>4. CASE proc[q].open
      <4>1. Bare(db'.has) = Bare(db.has)
        BY <2>2, <3>4 DEF Unlocked
      <4>2. View(q)' = View(q)
        BY <3>1, <3>4 DEF View
      <4>3. Held(m, proc'[q].i, proc'[q].seen, Bare(db'.has), Bare(View(q)'.has), proc'[q].open)
        BY <3>1, <3>2, <4>1, <4>2
      <4> QED
        BY <4>3, HeldSame
    <3>5. CASE ~proc[q].open
      <4>1. View(q).has = db.has /\ View(q)'.has = db'.has /\ proc[q].open = FALSE
        BY <3>1, <3>3, <3>5 DEF View
      <4>2. CASE Bare(db'.has) = Bare(db.has)
        <5>1. Held(m, proc'[q].i, proc'[q].seen, Bare(db'.has), Bare(View(q)'.has), proc'[q].open)
          BY <3>1, <3>2, <4>1, <4>2
        <5> QED
          BY <5>1, HeldSame
      <4>3. CASE Bare(db'.has) # Bare(db.has)
        <5>1. ~(IsAlone(m, proc[p].i) /\ IsAlone(m, proc[q].i))
          BY <2>2, <3>1, <4>3 DEF Underway
        <5>2. Held(m, proc[q].i, proc[q].seen, Bare(db.has), Bare(db.has), FALSE)
          BY <3>2, <4>1
        <5>3. Carries(m, proc[p].i, Bare(db.has), Bare(db'.has))
          BY <4>3
        <5>4. Held(m, proc[q].i, proc[q].seen, Bare(db'.has), Bare(db'.has), FALSE)
          BY <4>3, <5>1, <5>2, <5>3 DEF Carries
        <5>5. Held(m, proc'[q].i, proc'[q].seen, Bare(db'.has), Bare(View(q)'.has), proc'[q].open)
          BY <3>1, <4>1, <5>4
        <5> QED
          BY <5>5, HeldSame
      <4> QED
        BY <4>2, <4>3
    <3> QED
      BY <3>4, <3>5
  <2> QED
    BY <2>1, <2>2
<1>5. ASSUME NEW a \in Procs, NEW b \in Procs,
             IsAt(proc'[a], m), IsAlone(m, proc'[a].i), IsAt(proc'[b], m), IsAlone(m, proc'[b].i)
      PROVE  a = b
  <2>1. CASE a # p /\ b # p
    BY <1>2, <1>5, <2>1 DEF Underway
  <2>2. CASE a = p /\ b # p
    <3>1. IsAt(proc[b], m) /\ IsAlone(m, proc[b].i)
      BY <1>2, <1>5, <2>2
    <3>2. IsAt(proc[p], m) /\ IsAlone(m, proc[p].i)
      BY <1>5, <2>2, <3>1
    <3> QED
      BY <2>2, <3>1, <3>2 DEF Underway
  <2>3. CASE a # p /\ b = p
    <3>1. IsAt(proc[a], m) /\ IsAlone(m, proc[a].i)
      BY <1>2, <1>5, <2>3
    <3>2. IsAt(proc[p], m) /\ IsAlone(m, proc[p].i)
      BY <1>5, <2>3, <3>1
    <3> QED
      BY <2>3, <3>1, <3>2 DEF Underway
  <2> QED
    BY <2>1, <2>2, <2>3
<1>6. \A a, b \in Procs :
         /\ IsAt(proc'[a], m) /\ IsAlone(m, proc'[a].i)
         /\ IsAt(proc'[b], m) /\ IsAlone(m, proc'[b].i)
         => a = b
  BY <1>5
<1>7. \A a \in Procs : IsAlone(m, proc[a].i)' = IsAlone(m, proc'[a].i)
  BY DEF IsAlone
<1>8. \A q \in Procs : IsAt(proc[q], m)' =>
        Held(m, proc[q].i, proc[q].seen, Bare(db.has), Bare(View(q).has), proc[q].open)'
  BY <1>3, <1>4
<1>9. \A a, b \in Procs :
         /\ IsAt(proc[a], m)' /\ IsAlone(m, proc[a].i)'
         /\ IsAt(proc[b], m)' /\ IsAlone(m, proc[b].i)'
         => a = b
  BY <1>3, <1>6, <1>7
<1> QED
  BY <1>1, <1>2, <1>8, <1>9 DEF Underway

\* The scripts of the service are sound, and script m is the one to record next.
AllSound == svc \in Services /\ \A m \in 1..LastVersion : Soundly(m)
WholeAt(m) ==
  /\ ServiceInv /\ LedgerInPlace
  /\ m \in 1..(LastVersion + 1) /\ db.ver = 1..(m - 1) /\ Underway(m)

LEMMA ViewIs ==
  ASSUME AllSound, ServiceInv, LedgerInPlace, NEW p \in Procs, InScript(p)
  PROVE  /\ IsPlain(At(p)) /\ At(p) = Script(proc[p].m)[proc[p].i]
         /\ proc[p].m \in 1..LastVersion /\ proc[p].i \in 1..Len(Script(proc[p].m))
         /\ Len(Script(proc[p].m)) \in Nat
         /\ Ledger[svc] \in View(p).has /\ Ledger[svc] \in db.has
         /\ proc[p].open \in BOOLEAN /\ (proc[p].open \/ View(p).has = db.has)
<1>0. svc \in {"control", "diagnosis", "backend"}
  BY DEF AllSound, Services
<1>1. /\ proc[p].at = "run" /\ proc[p].m \in 1..LastVersion
      /\ Len(Script(proc[p].m)) \in Nat /\ proc[p].i \in 1..Len(Script(proc[p].m))
      /\ proc[p].open \in BOOLEAN
      /\ proc[p].open => View(p) = proc[p].work
      /\ ~proc[p].open => View(p).has = db.has
  BY <1>0, InScriptIs
<1>2. AllPlain(Script(proc[p].m))
  BY <1>1 DEF AllSound, Soundly
<1>3. IsPlain(At(p))
  BY <1>1, <1>2 DEF AllPlain, At
<1>4. Ledger[svc] \in db.has /\ (proc[p].open => Ledger[svc] \in proc[p].work.has)
  BY <1>1 DEF LedgerInPlace, Runs
<1> QED
  BY <1>1, <1>3, <1>4 DEF At

LEMMA DoesNow ==
  ASSUME AllSound, SchemaInv, NEW m, WholeAt(m), NEW p \in Procs, InScript(p), IsAt(proc[p], m)
  PROVE  Does(m, proc[p].i, proc[p].seen, Bare(db.has), Bare(View(p).has), proc[p].open)
<1>1. /\ m \in 1..LastVersion /\ proc[p].m = m /\ proc[p].i \in 1..Len(Script(m))
      /\ proc[p].open \in BOOLEAN /\ (proc[p].open \/ View(p).has = db.has)
  BY ViewIs DEF IsAt, WholeAt
<1>2. Soundly(m)
  BY <1>1 DEF AllSound
<1>3. /\ Stands(m, Bare(db.has))
      /\ Held(m, proc[p].i, proc[p].seen, Bare(db.has), Bare(View(p).has), proc[p].open)
  BY DEF WholeAt, Underway
<1>4. svc = "diagnosis" /\ m = 6 => (proc[p].open <=> proc[p].i = 8)
  BY <1>1 DEF SchemaInv, DiagnosisInv, DiagnosisPlace, IsAt
<1>5. proc[p].open \/ Bare(View(p).has) = Bare(db.has)
  BY <1>1
<1>6. ASSUME NEW i \in 1..Len(Script(m)), NEW seen, NEW h, NEW v, NEW open \in BOOLEAN,
             Stands(m, h), Held(m, i, seen, h, v, open), open \/ v = h,
             svc = "diagnosis" /\ m = 6 => (open <=> i = 8)
      PROVE  Does(m, i, seen, h, v, open)
  BY <1>2, <1>6 DEF Soundly
<1> QED
  BY <1>1, <1>3, <1>4, <1>5, <1>6

\* A process in a script that is recorded already.
LEMMA StaleIs ==
  ASSUME NEW m, WholeAt(m), NEW p \in Procs, Runs(proc[p]), AllSound
  PROVE  proc[p].m \notin db.ver <=> IsAt(proc[p], m)
<1>1. proc[p].m \in DOMAIN Scripts[svc] /\ 1..(proc[p].m - 1) \subseteq db.ver
  BY DEF WholeAt, ServiceInv, ProcFits
<1>2. DOMAIN Scripts[svc] = 1..LastVersion /\ LastVersion \in Nat
  BY ScriptsAre DEF AllSound, Services
<1>3. proc[p].m \in Nat /\ m \in Nat /\ proc[p].m >= 1
  BY <1>1, <1>2 DEF WholeAt
<1>4. ASSUME proc[p].m > m PROVE FALSE
  <2>1. m \in 1..(proc[p].m - 1)
    BY <1>2, <1>3, <1>4 DEF WholeAt
  <2> QED
    BY <1>1, <1>3, <2>1 DEF WholeAt
<1> QED
  BY <1>3, <1>4 DEF WholeAt, IsAt

\* The table of the versions stays.
LEMMA LedgerNext ==
  ASSUME LedgerInPlace, svc' = svc, NEW p \in Procs, OthersStay(p),
         db'.ver # {} \/ (\E q \in Procs : Runs(proc'[q])) => Ledger[svc] \in db'.has,
         proc'[p].open => Ledger[svc] \in proc'[p].work.has
  PROVE  LedgerInPlace'
  BY DEF LedgerInPlace, OthersStay, Runs

\* A statement that leaves the database as it is.
LEMMA GoesOn ==
  ASSUME AllSound, NEW m, WholeAt(m), NEW p \in Procs, InScript(p),
         svc' = svc, fts5' = fts5, db' = db,
         NEW i, NEW seen, NEW open, NEW work, Proceeds(p, i, seen, open, work),
         NEW w, Ledger[svc] \in w, open => work.has = w, ~open => w = db.has,
         open \in BOOLEAN,
         IsAt(proc[p], m) => Goes(m, proc[p].i, Bare(db.has), i, seen, Bare(w), open)
  PROVE  Underway(m)' /\ LedgerInPlace'
<1>1. /\ OthersStay(p) /\ proc'[p].at = "run" /\ proc'[p].m = proc[p].m /\ proc'[p].i = i
      /\ proc'[p].seen = seen /\ proc'[p].open = open /\ proc'[p].work = work
  BY DEF Proceeds
<1>2. ServiceInv /\ LedgerInPlace /\ Underway(m) /\ Stands(m, Bare(db.has))
  BY DEF WholeAt, Underway
<1>3. View(p)'.has = w
  BY <1>1 DEF View
<1>4. IsAt(proc'[p], m) <=> IsAt(proc[p], m)
  BY <1>1 DEF IsAt, Runs, InScript
<1>5. Bare(db'.has) = Bare(db.has) /\ Stands(m, Bare(db'.has))
  BY <1>2
<1>6. IsAt(proc'[p], m) =>
         /\ Held(m, proc'[p].i, proc'[p].seen, Bare(db'.has), Bare(View(p)'.has), proc'[p].open)
         /\ IsAlone(m, proc'[p].i) => IsAt(proc[p], m) /\ IsAlone(m, proc[p].i)
  BY <1>1, <1>3, <1>4, <1>5 DEF Goes
<1>7. Underway(m)'
  BY <1>1, <1>2, <1>5, <1>6, UnderwayNext
<1>8. Ledger[svc] \in db.has
  BY <1>2, ViewIs
<1>9. LedgerInPlace'
  BY <1>1, <1>2, <1>8, LedgerNext
<1> QED
  BY <1>7, <1>9

\* One that changes it.
LEMMA GoesAbout ==
  ASSUME AllSound, NEW m, WholeAt(m), NEW p \in Procs, InScript(p), Unlocked(p) \/ db'.has = db.has,
         svc' = svc, fts5' = fts5, Ledger[svc] \in db'.has,
         NEW i, NEW seen, NEW work, Proceeds(p, i, seen, FALSE, work),
         IsAt(proc[p], m) => Changes(m, proc[p].i, Bare(db.has), i, seen, Bare(db'.has)),
         ~IsAt(proc[p], m) => Bare(db'.has) = Bare(db.has)
  PROVE  Underway(m)' /\ LedgerInPlace'
<1>1. /\ OthersStay(p) /\ proc'[p].at = "run" /\ proc'[p].m = proc[p].m /\ proc'[p].i = i
      /\ proc'[p].seen = seen /\ proc'[p].open = FALSE /\ proc'[p].work = work
  BY DEF Proceeds
<1>2. ServiceInv /\ LedgerInPlace /\ Underway(m) /\ Stands(m, Bare(db.has))
  BY DEF WholeAt, Underway
<1>3. View(p)'.has = db'.has
  BY <1>1 DEF View
<1>4. IsAt(proc'[p], m) <=> IsAt(proc[p], m)
  BY <1>1 DEF IsAt, Runs, InScript
<1>5. Stands(m, Bare(db'.has))
  BY <1>2 DEF Changes
<1>6. ASSUME IsAt(proc'[p], m)
      PROVE  /\ Held(m, proc'[p].i, proc'[p].seen, Bare(db'.has), Bare(View(p)'.has), proc'[p].open)
             /\ IsAlone(m, proc'[p].i) =>
                   \/ IsAt(proc[p], m) /\ IsAlone(m, proc[p].i)
                   \/ \A q \in Procs \ {p} : IsAt(proc[q], m) => ~IsAlone(m, proc[q].i)
  <2>1. Changes(m, proc[p].i, Bare(db.has), i, seen, Bare(db'.has))
    BY <1>4, <1>6
  <2>2. Held(m, proc'[p].i, proc'[p].seen, Bare(db'.has), Bare(View(p)'.has), proc'[p].open)
    BY <1>1, <1>3, <2>1 DEF Changes
  <2>3. ASSUME IsAlone(m, i), ~IsAlone(m, proc[p].i), NEW q \in Procs, IsAt(proc[q], m)
        PROVE  ~IsAlone(m, proc[q].i)
    <3>1. Held(m, proc[q].i, proc[q].seen, Bare(db.has), Bare(View(q).has), proc[q].open)
      BY <1>2, <2>3 DEF Underway
    <3>2. ArrivesAlone(m, proc[p].i, Bare(db.has), i)
      BY <2>1 DEF Changes
    <3> QED
      BY <2>3, <3>1, <3>2 DEF ArrivesAlone
  <2> QED
    BY <1>1, <1>4, <1>6, <2>2, <2>3
<1>7. \/ Bare(db'.has) = Bare(db.has)
      \/ /\ IsAt(proc[p], m) /\ Unlocked(p)
         /\ Carries(m, proc[p].i, Bare(db.has), Bare(db'.has))
  BY DEF Changes
<1>8. Underway(m)'
  BY <1>1, <1>2, <1>5, <1>6, <1>7, UnderwayNext
<1>9. LedgerInPlace'
  BY <1>1, <1>2, LedgerNext
<1> QED
  BY <1>8, <1>9

LEMMA WholeLook ==
  ASSUME AllSound, SchemaInv, NEW m, WholeAt(m), NEW p \in Procs, Look(p)
  PROVE  db'.ver = db.ver /\ Underway(m)' /\ LedgerInPlace' /\ ServiceInv' /\ svc' = svc /\ fts5' = fts5
<1>1. /\ ServiceInv /\ LedgerInPlace /\ svc \in {"control", "diagnosis", "backend"}
      /\ svc \in Services /\ InScript(p) /\ At(p).op = "read"
  BY DEF WholeAt, AllSound, Services, Look
<1>2. /\ Proceeds(p, proc[p].i + 1, Of(At(p).table, View(p).has), proc[p].open, proc[p].work)
      /\ UNCHANGED <<db, svc, fts5, unqueued, oddly>> /\ ServiceInv'
  BY <1>1, LookIs
<1>3. /\ Ledger[svc] \in View(p).has /\ proc[p].open \in BOOLEAN /\ IsPlain(At(p))
      /\ proc[p].open => proc[p].work.has = View(p).has
      /\ ~proc[p].open => View(p).has = db.has
      /\ At(p) = Script(proc[p].m)[proc[p].i]
  BY <1>1, ViewIs DEF View
<1>4. Of(At(p).table, View(p).has) = Of(At(p).table, Bare(View(p).has))
  BY <1>1, <1>3, OnBare
<1>5. IsAt(proc[p], m) => Goes(m, proc[p].i, Bare(db.has), proc[p].i + 1, Of(At(p).table, View(p).has),
                               Bare(View(p).has), proc[p].open)
  BY <1>1, <1>3, <1>4, DoesNow DEF Does, IsAt
<1>6. Underway(m)' /\ LedgerInPlace'
  BY <1>1, <1>2, <1>3, <1>5, GoesOn
<1> QED
  BY <1>2, <1>6

LEMMA WholePass ==
  ASSUME AllSound, SchemaInv, NEW m, WholeAt(m), NEW p \in Procs, Pass(p)
  PROVE  db'.ver = db.ver /\ Underway(m)' /\ LedgerInPlace' /\ ServiceInv' /\ svc' = svc /\ fts5' = fts5
<1>1. /\ ServiceInv /\ LedgerInPlace /\ svc \in {"control", "diagnosis", "backend"}
      /\ svc \in Services /\ InScript(p)
  BY DEF WholeAt, AllSound, Services, Pass
<1> DEFINE end == Len(Script(proc[p].m)) + 1
<1>2. /\ \/ /\ IsIdle(At(p), View(p).has, proc[p].seen)
            /\ Proceeds(p, proc[p].i + 1, proc[p].seen, proc[p].open, proc[p].work)
         \/ /\ At(p).op \in {"only", "fts5"}
            /\ Proceeds(p, IF IsOn(At(p), proc[p].seen) THEN proc[p].i + 1 ELSE end,
                        proc[p].seen, proc[p].open, proc[p].work)
      /\ UNCHANGED <<db, svc, fts5, unqueued, oddly>> /\ ServiceInv'
  BY <1>1, PassIs DEF IsOn
<1>3. /\ Ledger[svc] \in View(p).has /\ proc[p].open \in BOOLEAN /\ IsPlain(At(p))
      /\ proc[p].open => proc[p].work.has = View(p).has
      /\ ~proc[p].open => View(p).has = db.has
      /\ At(p) = Script(proc[p].m)[proc[p].i]
  BY <1>1, ViewIs DEF View
<1>4. IsIdle(At(p), View(p).has, proc[p].seen) <=> IsIdle(At(p), Bare(View(p).has), proc[p].seen)
  BY <1>1, <1>3, OnBare
<1>5. IsAt(proc[p], m) => Does(m, proc[p].i, proc[p].seen, Bare(db.has), Bare(View(p).has), proc[p].open)
                          /\ proc[p].m = m
  BY <1>1, DoesNow DEF IsAt
<1>6. CASE /\ IsIdle(At(p), View(p).has, proc[p].seen)
           /\ Proceeds(p, proc[p].i + 1, proc[p].seen, proc[p].open, proc[p].work)
  <2>1. IsAt(proc[p], m) => Goes(m, proc[p].i, Bare(db.has), proc[p].i + 1, proc[p].seen,
                                 Bare(View(p).has), proc[p].open)
    BY <1>3, <1>4, <1>5, <1>6 DEF Does
  <2>2. Underway(m)' /\ LedgerInPlace'
    BY <1>1, <1>2, <1>3, <1>6, <2>1, GoesOn
  <2> QED
    BY <1>2, <2>2
<1>7. CASE /\ At(p).op \in {"only", "fts5"}
           /\ Proceeds(p, IF IsOn(At(p), proc[p].seen) THEN proc[p].i + 1 ELSE end,
                       proc[p].seen, proc[p].open, proc[p].work)
  <2>1. IsAt(proc[p], m) => Goes(m, proc[p].i, Bare(db.has),
                                 IF IsOn(At(p), proc[p].seen) THEN proc[p].i + 1 ELSE end, proc[p].seen,
                                 Bare(View(p).has), proc[p].open)
    BY <1>3, <1>5, <1>7 DEF Does
  <2>2. Underway(m)' /\ LedgerInPlace'
    BY <1>1, <1>2, <1>3, <1>7, <2>1, GoesOn
  <2> QED
    BY <1>2, <2>2
<1> QED
  BY <1>2, <1>6, <1>7

LEMMA WholeWrite ==
  ASSUME AllSound, SchemaInv, NEW m, WholeAt(m), NEW p \in Procs, Write(p)
  PROVE  db'.ver = db.ver /\ Underway(m)' /\ LedgerInPlace' /\ ServiceInv' /\ svc' = svc /\ fts5' = fts5
<1>1. /\ ServiceInv /\ LedgerInPlace /\ svc \in {"control", "diagnosis", "backend"}
      /\ svc \in Services
  BY DEF WholeAt, AllSound, Services
<1>2. /\ InScript(p) /\ IsRows(At(p)) /\ ~IsError(At(p), View(p).has)
      /\ \/ /\ At(p).op = "newest"
            /\ Proceeds(p, proc[p].i + 1, proc[p].seen, proc[p].open, proc[p].work)
         \/ Proceeds(p, proc[p].i + 1, proc[p].seen, TRUE,
                     [has |-> View(p).has, data |-> RowsAfter(p)])
      /\ UNCHANGED <<db, svc, fts5, unqueued, oddly>> /\ ServiceInv'
  BY <1>1, WriteIs
<1>3. /\ Ledger[svc] \in View(p).has /\ proc[p].open \in BOOLEAN /\ IsPlain(At(p))
      /\ proc[p].open => proc[p].work.has = View(p).has
      /\ ~proc[p].open => View(p).has = db.has
      /\ At(p) = Script(proc[p].m)[proc[p].i]
  BY <1>1, <1>2, ViewIs DEF View
<1>4. ~IsError(At(p), Bare(View(p).has))
  BY <1>1, <1>2, <1>3, OnBare
<1>5. IsAt(proc[p], m) => Does(m, proc[p].i, proc[p].seen, Bare(db.has), Bare(View(p).has), proc[p].open)
                          /\ proc[p].m = m
  BY <1>2, DoesNow DEF IsAt
<1>6. IsAt(proc[p], m) =>
        /\ Goes(m, proc[p].i, Bare(db.has), proc[p].i + 1, proc[p].seen, Bare(View(p).has), TRUE)
        /\ At(p).op = "newest" =>
             Goes(m, proc[p].i, Bare(db.has), proc[p].i + 1, proc[p].seen, Bare(View(p).has), proc[p].open)
  BY <1>2, <1>3, <1>4, <1>5 DEF Does
<1>7. CASE /\ At(p).op = "newest"
           /\ Proceeds(p, proc[p].i + 1, proc[p].seen, proc[p].open, proc[p].work)
  <2>1. Underway(m)' /\ LedgerInPlace'
    BY <1>1, <1>2, <1>3, <1>6, <1>7, GoesOn
  <2> QED
    BY <1>2, <2>1
<1>8. CASE Proceeds(p, proc[p].i + 1, proc[p].seen, TRUE,
                    [has |-> View(p).has, data |-> RowsAfter(p)])
  <2> DEFINE work == [has |-> View(p).has, data |-> RowsAfter(p)]
  <2>1. work.has = View(p).has
    OBVIOUS
  <2> HIDE DEF work
  <2>2. Proceeds(p, proc[p].i + 1, proc[p].seen, TRUE, work)
    BY <1>8 DEF work
  <2>3. Underway(m)' /\ LedgerInPlace'
    BY <1>1, <1>2, <1>3, <1>6, <2>1, <2>2, GoesOn
  <2> QED
    BY <1>2, <2>3
<1> QED
  BY <1>2, <1>7, <1>8

\* A process that is not late has seen what is there.
LEMMA SeenIs ==
  ASSUME AllSound, NEW m, WholeAt(m), NEW p \in Procs, InScript(p), ~IsLate(p)
  PROVE  IsAt(proc[p], m) /\ Bare(proc[p].seen) \subseteq Bare(db.has)
<1>1. proc[p].m \notin db.ver /\ proc[p].seen \subseteq db.has
  BY DEF IsLate
<1>2. Runs(proc[p])
  BY DEF InScript, Runs
<1> QED
  BY <1>1, <1>2, StaleIs DEF Bare

LEMMA WholeAlter ==
  ASSUME AllSound, SchemaInv, NEW m, WholeAt(m), NEW p \in Procs, Alter(p), oddly' = {}
  PROVE  db'.ver = db.ver /\ Underway(m)' /\ LedgerInPlace' /\ ServiceInv' /\ svc' = svc /\ fts5' = fts5
<1>1. /\ ServiceInv /\ LedgerInPlace /\ svc \in {"control", "diagnosis", "backend"}
      /\ svc \in Services
  BY DEF WholeAt, AllSound, Services
<1>2. /\ InScript(p) /\ IsSchema(At(p)) /\ Unlocked(p)
      /\ ~IsIdle(At(p), View(p).has, proc[p].seen) /\ ~IsError(At(p), View(p).has)
      /\ proc[p].open =>
           /\ Proceeds(p, proc[p].i + 1, proc[p].seen, TRUE,
                       [has |-> HasAfter(p), data |-> RowsAfter(p)])
           /\ UNCHANGED <<db, oddly>>
      /\ ~proc[p].open =>
           /\ Proceeds(p, proc[p].i + 1, proc[p].seen, FALSE, proc[p].work)
           /\ db' = [has |-> HasAfter(p), data |-> RowsAfter(p), ver |-> db.ver]
           /\ oddly' = IF IsLate(p) THEN oddly \cup {"late"} ELSE oddly
      /\ UNCHANGED <<svc, fts5, unqueued>>
      /\ ServiceInv'
  BY <1>1, AlterIs
<1>3. /\ Ledger[svc] \in View(p).has /\ proc[p].open \in BOOLEAN /\ IsPlain(At(p))
      /\ ~proc[p].open => View(p).has = db.has
      /\ At(p) = Script(proc[p].m)[proc[p].i]
  BY <1>1, <1>2, ViewIs DEF View
<1>4. /\ Applies(At(p), Bare(View(p).has), proc[p].seen)
      /\ Bare(HasAfter(p)) = SchemaAfter(At(p), Bare(View(p).has)) /\ Ledger[svc] \in HasAfter(p)
  BY <1>1, <1>2, <1>3, OnBare DEF Applies, HasAfter
<1>5. IsAt(proc[p], m) => Does(m, proc[p].i, proc[p].seen, Bare(db.has), Bare(View(p).has), proc[p].open)
                          /\ proc[p].m = m
  BY <1>2, DoesNow DEF IsAt
<1>6. CASE proc[p].open
  <2> DEFINE work == [has |-> HasAfter(p), data |-> RowsAfter(p)]
  <2>1. work.has = HasAfter(p)
    OBVIOUS
  <2> HIDE DEF work
  <2>2. Proceeds(p, proc[p].i + 1, proc[p].seen, TRUE, work) /\ db' = db
    BY <1>2, <1>6 DEF work
  <2>3. IsAt(proc[p], m) =>
          Goes(m, proc[p].i, Bare(db.has), proc[p].i + 1, proc[p].seen, Bare(HasAfter(p)), TRUE)
    BY <1>3, <1>4, <1>5, <1>6 DEF Does
  <2>4. Underway(m)' /\ LedgerInPlace'
    BY <1>1, <1>2, <1>4, <2>1, <2>2, <2>3, GoesOn
  <2> QED
    BY <1>2, <2>2, <2>4
<1>7. CASE ~proc[p].open
  <2>1. /\ Proceeds(p, proc[p].i + 1, proc[p].seen, FALSE, proc[p].work)
        /\ db'.has = HasAfter(p) /\ db'.ver = db.ver
    <3>1. Proceeds(p, proc[p].i + 1, proc[p].seen, FALSE, proc[p].work)
      BY <1>2, <1>7
    <3>2. db' = [has |-> HasAfter(p), data |-> RowsAfter(p), ver |-> db.ver]
      BY <1>2, <1>7
    <3> QED
      BY <3>1, <3>2
  <2>2. ~IsLate(p)
    BY <1>2, <1>7
  <2>3. IsAt(proc[p], m) /\ Bare(proc[p].seen) \subseteq Bare(db.has)
    BY <1>2, <2>2, SeenIs
  <2>4. Changes(m, proc[p].i, Bare(db.has), proc[p].i + 1, proc[p].seen, Bare(db'.has))
    BY <1>3, <1>4, <1>5, <1>7, <2>1, <2>3 DEF Does
  <2>5. Underway(m)' /\ LedgerInPlace'
    BY <1>2, <1>4, <2>1, <2>3, <2>4, GoesAbout
  <2> QED
    BY <1>2, <2>1, <2>5
<1> QED
  BY <1>3, <1>6, <1>7

LEMMA WholeCommit ==
  ASSUME AllSound, SchemaInv, NEW m, WholeAt(m), NEW p \in Procs, CommitRows(p), oddly' = {}
  PROVE  db'.ver = db.ver /\ Underway(m)' /\ LedgerInPlace' /\ ServiceInv' /\ svc' = svc /\ fts5' = fts5
<1>1. /\ ServiceInv /\ LedgerInPlace /\ svc \in {"control", "diagnosis", "backend"}
      /\ svc \in Services
  BY DEF WholeAt, AllSound, Services
<1>2. /\ InScript(p) /\ At(p).op = "commit"
      /\ Proceeds(p, proc[p].i + 1, proc[p].seen, FALSE, <<>>)
      /\ db' = [has |-> View(p).has, data |-> View(p).data, ver |-> db.ver]
      /\ oddly' = IF proc[p].open /\ IsLate(p) /\ View(p).has # db.has
                  THEN oddly \cup {"late"} ELSE oddly
      /\ UNCHANGED <<svc, fts5, unqueued>>
      /\ ServiceInv'
  BY <1>1, CommitIs
<1>3. /\ Ledger[svc] \in View(p).has /\ proc[p].open \in BOOLEAN /\ IsPlain(At(p))
      /\ proc[p].open => Unlocked(p)
      /\ ~proc[p].open => View(p).has = db.has
      /\ At(p) = Script(proc[p].m)[proc[p].i]
  BY <1>1, <1>2, ViewIs, InScriptIs DEF View
<1>4. db'.has = View(p).has /\ db'.ver = db.ver
  BY <1>2
<1>5. db'.has # db.has => IsAt(proc[p], m) /\ Bare(proc[p].seen) \subseteq Bare(db.has)
  BY <1>2, <1>3, <1>4, SeenIs
<1>6. IsAt(proc[p], m) => Does(m, proc[p].i, proc[p].seen, Bare(db.has), Bare(View(p).has), proc[p].open)
                          /\ proc[p].m = m
  BY <1>2, DoesNow DEF IsAt
<1>7. IsAt(proc[p], m) =>
        Changes(m, proc[p].i, Bare(db.has), proc[p].i + 1, proc[p].seen, Bare(db'.has))
  BY <1>2, <1>3, <1>4, <1>5, <1>6 DEF Does
<1>8. Unlocked(p) \/ db'.has = db.has
  BY <1>3, <1>4
<1>9. Underway(m)' /\ LedgerInPlace'
  BY <1>2, <1>3, <1>4, <1>5, <1>7, <1>8, GoesAbout
<1> QED
  BY <1>2, <1>4, <1>9

\* The first version that is not recorded.
LEMMA NextVersion ==
  ASSUME svc \in Services, VersionsInv
  PROVE  \E m \in 1..(LastVersion + 1) : db.ver = 1..(m - 1)
<1>1. LastVersion \in {5, 6, 10} /\ DOMAIN Scripts[svc] = 1..LastVersion
  BY ScriptsAre DEF Services
<1> DEFINE S == (1..LastVersion) \ db.ver
<1>2. db.ver \subseteq 1..LastVersion /\ \A n \in db.ver : 1..n \subseteq db.ver
  BY <1>1 DEF VersionsInv
<1>3. CASE S = {}
  <2>1. db.ver = 1..LastVersion
    BY <1>2, <1>3
  <2> QED
    BY <1>1, <2>1
<1>4. CASE S # {}
  <2>1. S \subseteq 1..10
    BY <1>1
  <2>2. PICK m \in S : \A n \in S : m <= n
    BY <1>4, <2>1, SmallestOf
  <2>3. m \in 1..LastVersion /\ m \notin db.ver
    OBVIOUS
  <2>4. ASSUME NEW n \in db.ver PROVE n \in 1..(m - 1)
    <3>1. n \in Nat /\ n >= 1 /\ m \in Nat
      BY <1>1, <1>2, <2>3
    <3>2. ~(m <= n)
      BY <1>2, <2>3, <3>1
    <3> QED
      BY <3>1, <3>2
  <2>5. ASSUME NEW n \in 1..(m - 1) PROVE n \in db.ver
    <3>1. n \in 1..LastVersion /\ ~(m <= n)
      BY <1>1, <2>3
    <3> QED
      BY <2>2, <3>1
  <2>6. db.ver = 1..(m - 1)
    BY <2>4, <2>5
  <2>7. m \in 1..(LastVersion + 1)
    BY <1>1, <2>3
  <2> QED
    BY <2>6, <2>7
<1> QED
  BY <1>3, <1>4

LEMMA SameInterval ==
  ASSUME NEW m \in Nat \ {0}, NEW n \in Nat \ {0}, 1..(m - 1) = 1..(n - 1)
  PROVE  m = n
<1>1. CASE m < n
  BY <1>1
<1>2. CASE n < m
  BY <1>2
<1> QED
  BY <1>1, <1>2

LEMMA WholeIs ==
  ASSUME WholeInv, oddly = {}
  PROVE  \E m : WholeAt(m)
<1>1. svc \in Services /\ ServiceInv /\ VersionsInv
  BY DEF WholeInv, ServiceInv
<1>2. PICK m \in 1..(LastVersion + 1) : db.ver = 1..(m - 1)
  BY <1>1, NextVersion
<1> QED
  BY <1>2 DEF WholeInv, WholeAt

LEMMA WholeNext ==
  ASSUME svc \in Services, svc' = svc, fts5' = fts5, svc # "diagnosis" => fts5,
         ServiceInv', LedgerInPlace', NEW m \in 1..(LastVersion + 1), db'.ver = 1..(m - 1), Underway(m)'
  PROVE  WholeInv'
<1>1. LastVersion \in Nat /\ LastVersion' = LastVersion
  BY ScriptsAre DEF Services, LastVersion
<1>2. ASSUME NEW n \in 1..(LastVersion + 1), db'.ver = 1..(n - 1) PROVE n = m
  <2>1. m \in Nat \ {0} /\ n \in Nat \ {0}
    BY <1>1
  <2> QED
    BY <1>2, <2>1, SameInterval
<1>3. \A n \in 1..(LastVersion + 1) : db'.ver = 1..(n - 1) => Underway(n)'
  <2> SUFFICES ASSUME NEW n \in 1..(LastVersion + 1), db'.ver = 1..(n - 1) PROVE Underway(n)'
    OBVIOUS
  <2>1. n = m
    BY <1>2
  <2> QED
    BY <2>1
<1> QED
  BY <1>1, <1>3 DEF WholeInv

LEMMA QuietLedger ==
  ASSUME ServiceInv, svc \in Services, LedgerInPlace, NEW p \in Procs,
         \/ Start(p) \/ Initialize(p) \/ Verify(p) \/ Deploy(p) \/ Connect(p) \/ Fail(p)
         \/ Crash(p)
  PROVE  LedgerInPlace'
<1>0. Shapes /\ svc \in {"control", "diagnosis", "backend"}
  BY DEF ServiceInv, Services
<1>1. Quiet(p)
  BY <1>0, QuietSteps
<1>2. /\ OthersStay(p) /\ proc'[p].open = FALSE /\ svc' = svc /\ db'.ver = db.ver
      /\ (db'.has = db.has \/ db'.has = db.has \cup {Ledger[svc]})
  BY <1>1 DEF Quiet, Rests
<1>3. Ledger[svc] \in db.has => Ledger[svc] \in db'.has
  BY <1>2
<1>4. Ledger[svc] \in db'.has \/ ~Runs(proc'[p])
  <2>1. CASE Initialize(p) \/ Connect(p)
    BY <1>0, <2>1 DEF Initialize, Connect, Shapes
  <2>2. ASSUME NEW w, Go(p, w), w # "run" PROVE ~Runs(proc'[p])
    <3>1. Out(p, w)
      BY <1>0, <2>2, GoIs
    <3> QED
      BY <2>2, <3>1 DEF Out, Runs
  <2>3. CASE Start(p)
    BY <2>2, <2>3 DEF Start
  <2>4. CASE Verify(p)
    BY <2>2, <2>4 DEF Verify, Serve
  <2>5. CASE Deploy(p)
    BY <2>2, <2>5 DEF Deploy
  <2>6. CASE Fail(p)
    BY <2>2, <2>6 DEF Fail
  <2>7. CASE Crash(p)
    <3>1. proc'[p] = Idle(p)
      BY <1>0, <2>7, Moved DEF Crash
    <3> QED
      BY <3>1 DEF Idle, Runs
  <2> QED
    BY <2>1, <2>3, <2>4, <2>5, <2>6, <2>7
<1>5. \A q \in Procs \ {p} : proc'[q] = proc[q]
  BY <1>2 DEF OthersStay
<1>6. ASSUME db'.ver # {} \/ (\E q \in Procs : Runs(proc'[q])) PROVE Ledger[svc] \in db'.has
  <2>1. CASE db'.ver # {}
    BY <1>2, <1>3, <2>1 DEF LedgerInPlace
  <2>2. CASE \E q \in Procs : Runs(proc'[q])
    <3>1. PICK q \in Procs : Runs(proc'[q])
      BY <2>2
    <3>2. CASE q = p
      BY <1>4, <3>1, <3>2
    <3>3. CASE q # p
      BY <1>3, <1>5, <3>1, <3>3 DEF LedgerInPlace
    <3> QED
      BY <3>2, <3>3
  <2> QED
    BY <1>6, <2>1, <2>2
<1> QED
  BY <1>2, <1>6, LedgerNext

\* A process that is in no script, or at the start of one.
LEMMA RestsGoes ==
  ASSUME AllSound, NEW m, WholeAt(m), NEW p \in Procs, OthersStay(p), Rests(proc'[p]),
         svc' = svc, fts5' = fts5, Bare(db'.has) = Bare(db.has)
  PROVE  Underway(m)'
<1>1. ServiceInv /\ Underway(m) /\ Stands(m, Bare(db.has))
  BY DEF WholeAt, Underway
<1>2. Stands(m, Bare(db'.has))
  BY <1>1
<1>3. ASSUME IsAt(proc'[p], m)
      PROVE  /\ Held(m, proc'[p].i, proc'[p].seen, Bare(db'.has), Bare(View(p)'.has), proc'[p].open)
             /\ ~IsAlone(m, proc'[p].i)
  <2>1. /\ proc'[p].open = FALSE /\ proc'[p].i = 1 /\ proc'[p].seen = {}
        /\ proc'[p].m = m /\ m \in DOMAIN Scripts[svc]
    BY <1>3 DEF Rests, IsAt
  <2>2. m \in 1..LastVersion
    BY <2>1, ScriptsAre DEF AllSound, Services
  <2>3. View(p)'.has = db'.has
    BY <2>1 DEF View
  <2>4. Held(m, 1, {}, Bare(db'.has), Bare(db'.has), FALSE) /\ ~IsAlone(m, 1)
    BY <1>2, <2>2 DEF AllSound, Soundly
  <2> QED
    BY <2>1, <2>3, <2>4
<1> QED
  BY <1>1, <1>2, <1>3, UnderwayNext

\* The last statement of a script is done, and its version is recorded.
LEMMA WholeRecord ==
  ASSUME AllSound, NEW m, WholeAt(m), NEW p \in Procs, Record(p)
  PROVE  /\ m + 1 \in 1..(LastVersion + 1) /\ db'.ver = 1..((m + 1) - 1)
         /\ Underway(m + 1)' /\ LedgerInPlace' /\ ServiceInv' /\ svc' = svc /\ fts5' = fts5
<1>1. /\ ServiceInv /\ LedgerInPlace /\ svc \in {"control", "diagnosis", "backend"}
      /\ svc \in Services /\ Underway(m) /\ db.ver = 1..(m - 1)
  BY DEF WholeAt, AllSound, Services
<1>2. /\ OthersStay(p) /\ Rests(proc'[p])
      /\ Runs(proc[p]) /\ proc[p].i = Len(Script(proc[p].m)) + 1
      /\ proc[p].m \notin db.ver /\ Unlocked(p)
      /\ db' = [has |-> View(p).has, data |-> View(p).data, ver |-> db.ver \cup {proc[p].m}]
      /\ UNCHANGED <<svc, fts5, unqueued, oddly>>
      /\ ServiceInv'
  BY <1>1, RecordIs
<1>3. IsAt(proc[p], m) /\ proc[p].m = m
  BY <1>2, StaleIs DEF IsAt
<1>4. /\ DOMAIN Scripts[svc] = 1..LastVersion /\ LastVersion \in Nat
      /\ proc[p].open \in BOOLEAN /\ m \in 1..LastVersion
  BY <1>1, <1>2, <1>3, ScriptsAre DEF ServiceInv, ProcFits
<1>5. m + 1 \in 1..(LastVersion + 1) /\ db'.ver = 1..((m + 1) - 1)
  <2>1. db'.ver = db.ver \cup {m}
    BY <1>2, <1>3
  <2>2. m \in Nat /\ m >= 1
    BY <1>4
  <2>3. (1..(m - 1)) \cup {m} = 1..((m + 1) - 1)
    BY <2>2
  <2> QED
    BY <1>1, <1>4, <2>1, <2>2, <2>3
<1>6. db'.has = View(p).has
  BY <1>2
<1>7. Stands(m + 1, Bare(db'.has))
  <2>1. Stands(m, Bare(db.has)) /\ Held(m, Len(Script(m)) + 1, proc[p].seen, Bare(db.has),
                                       Bare(View(p).has), proc[p].open)
    BY <1>1, <1>2, <1>3 DEF Underway
  <2>2. proc[p].open \/ Bare(View(p).has) = Bare(db.has)
    BY <1>4 DEF View
  <2>3. Soundly(m)
    BY <1>4 DEF AllSound
  <2> QED
    BY <1>4, <1>6, <2>1, <2>2, <2>3 DEF Soundly
<1>8. ASSUME NEW q \in Procs, IsAt(proc'[q], m + 1)
      PROVE  /\ q = p
             /\ Held(m + 1, proc[q].i, proc[q].seen, Bare(db.has), Bare(View(q).has), proc[q].open)'
             /\ ~IsAlone(m + 1, proc'[q].i)
  <2>1. q = p
    <3>1. SUFFICES ASSUME q # p PROVE FALSE
      OBVIOUS
    <3>2. proc'[q] = proc[q]
      BY <1>2, <3>1 DEF OthersStay
    <3>3. 1..(proc[q].m - 1) \subseteq db.ver /\ proc[q].m = m + 1
      BY <1>1, <1>8, <3>2 DEF ServiceInv, ProcFits, IsAt
    <3>4. m \in 1..(proc[q].m - 1) /\ m \notin db.ver
      BY <1>2, <1>3, <1>4, <3>3
    <3> QED
      BY <3>3, <3>4
  <2>2. /\ proc'[p].open = FALSE /\ proc'[p].i = 1 /\ proc'[p].seen = {}
        /\ proc'[p].m = m + 1 /\ m + 1 \in DOMAIN Scripts[svc]
    BY <1>2, <1>8, <2>1 DEF Rests, IsAt
  <2>3. Soundly(m + 1)
    BY <1>4, <2>2 DEF AllSound
  <2>4. Held(m + 1, 1, {}, Bare(db'.has), Bare(db'.has), FALSE) /\ ~IsAlone(m + 1, 1)
    BY <1>7, <2>3 DEF Soundly
  <2>5. View(p)'.has = db'.has
    BY <2>2 DEF View
  <2>6. Held(m + 1, proc'[p].i, proc'[p].seen, Bare(db'.has), Bare(View(p)'.has), proc'[p].open)
    BY <2>2, <2>4, <2>5
  <2>7. Held(m + 1, proc[p].i, proc[p].seen, Bare(db.has), Bare(View(p).has), proc[p].open)'
    BY <1>2, <2>6, HeldSame
  <2> QED
    BY <2>1, <2>2, <2>4, <2>7
<1>9. Stands(m + 1, Bare(db.has))'
  BY <1>2, <1>7, StandsSame
<1>10. Underway(m + 1)'
  <2>1. Procs' = Procs
    BY <1>2 DEF OthersStay
  <2>2. \A q \in Procs : IsAt(proc[q], m + 1)' = IsAt(proc'[q], m + 1)
    BY DEF IsAt, Runs
  <2>3. \A q \in Procs : IsAt(proc[q], m + 1)' =>
          Held(m + 1, proc[q].i, proc[q].seen, Bare(db.has), Bare(View(q).has), proc[q].open)'
    BY <1>8, <2>2
  <2>4. \A a, b \in Procs : IsAt(proc[a], m + 1)' /\ IsAt(proc[b], m + 1)' => a = b
    BY <1>8, <2>2
  <2> QED
    BY <1>9, <2>1, <2>3, <2>4 DEF Underway
<1>11. Ledger[svc] \in View(p).has
  BY <1>1, <1>2 DEF LedgerInPlace, View
<1>12. LedgerInPlace'
  BY <1>1, <1>2, <1>6, <1>11, LedgerNext DEF Rests
<1> QED
  BY <1>2, <1>5, <1>10, <1>12

\* The databases that an upgrade begins with, and the one that is stamped.
Based ==
  /\ Stands(1, {}) /\ Stands(1, Baseline[svc]) /\ Stands(1, Baseline[svc] \ Compat(svc))
  /\ Ledger[svc] \notin Baseline[svc]
  /\ svc = "backend" => Stands(2, Baseline[svc]) /\ QueuedAt \notin Baseline[svc]

LEMMA WholeStamp ==
  ASSUME AllSound, Based, NEW m, WholeAt(m), NEW p \in Procs, Stamp(p), oddly' = {}
  PROVE  /\ 2 \in 1..(LastVersion + 1) /\ db'.ver = 1..(2 - 1)
         /\ Underway(2)' /\ LedgerInPlace' /\ ServiceInv' /\ svc' = svc /\ fts5' = fts5
<1>1. /\ ServiceInv /\ LedgerInPlace /\ svc \in {"control", "diagnosis", "backend"}
      /\ svc \in Services /\ Underway(m) /\ db.ver = 1..(m - 1) /\ Shapes
      /\ Stands(m, Bare(db.has)) /\ m \in 1..(LastVersion + 1)
  BY DEF WholeAt, AllSound, Services, ServiceInv, Underway
<1>2. svc = "backend"
  BY <1>1, NotDeployed
<1>3. LastVersion = 10 /\ DOMAIN Scripts[svc] = 1..10
  BY <1>2, BackendScripts DEF LastVersion
<1>4. db.has \ {Ledger[svc]} = Baseline[svc]
  BY DEF Stamp
<1>5. Bare(db.has) = Baseline[svc]
  BY <1>4 DEF Bare
<1>6. m \in {1, 2}
  <2>1. m > 2 => QueuedAt \in Bare(db.has)
    BY <1>1, <1>2 DEF Stands
  <2>2. ~(m > 2)
    BY <1>2, <1>5, <2>1 DEF Based
  <2> QED
    BY <1>1, <1>3, <2>2
<1>7. db' = [has |-> db.has \cup {Ledger[svc]}, ver |-> {1}, data |-> db.data]
  BY <1>1 DEF Stamp, Shapes
<1>8. /\ db'.has = db.has \cup {Ledger[svc]} /\ db'.ver = {1} /\ db'.data = db.data
      /\ svc' = svc /\ fts5' = fts5
  BY <1>7 DEF Stamp
<1>9. OthersStay(p) /\ Out(p, "connect")
  BY <1>1, GoIs DEF Stamp
<1>10. Rests(proc'[p]) /\ ~Runs(proc'[p])
  BY <1>9 DEF Rests, Runs, Out
<1>11. db.ver \subseteq {1} /\ {1} = 1..(2 - 1)
  BY <1>1, <1>6
<1>12. ServiceInv'
  <2>1. ProcFits(proc[p])'
    BY <1>2, <1>8, <1>9 DEF ProcFits, IsProc, Runs, Out
  <2>2. VersionsInv'
    BY <1>3, <1>8 DEF VersionsInv
  <2>3. IsData(db'.data) /\ db' = [has |-> db'.has, ver |-> db'.ver, data |-> db'.data]
    BY <1>1, <1>7, <1>8 DEF Shapes
  <2>4. proc'[p].open = FALSE
    BY <1>9 DEF Out
  <2>5. db.ver \subseteq db'.ver
    BY <1>8, <1>11
  <2> QED
    BY <1>1, <1>8, <1>9, <2>1, <2>2, <2>3, <2>4, <2>5, ServiceKept
<1>13. Bare(db'.has) = Bare(db.has)
  BY <1>8 DEF Bare
<1>14. LedgerInPlace'
  BY <1>1, <1>8, <1>9, <1>10, LedgerNext DEF Rests
<1>15. Underway(2)'
  <2>1. CASE m = 2
    BY <1>8, <1>9, <1>10, <1>13, <2>1, RestsGoes
  <2>2. CASE m = 1
    <3>1. Stands(2, Bare(db'.has))
      BY <1>2, <1>5, <1>13 DEF Based
    <3>2. Stands(2, Bare(db.has))'
      BY <1>8, <3>1, StandsSame
    <3>3. ASSUME NEW q \in Procs, IsAt(proc[q], 2)' PROVE FALSE
      <4>1. IsAt(proc'[q], 2)
        BY <3>3 DEF IsAt, Runs
      <4>2. q # p /\ proc'[q] = proc[q]
        BY <1>9, <1>10, <4>1 DEF OthersStay, IsAt
      <4>3. 1..(proc[q].m - 1) \subseteq db.ver /\ proc[q].m = 2
        BY <1>1, <4>1, <4>2 DEF ServiceInv, ProcFits, IsAt
      <4> QED
        BY <1>1, <2>2, <4>3
    <3>4. Procs' = Procs
      BY <1>9 DEF OthersStay
    <3> QED
      BY <3>2, <3>3, <3>4 DEF Underway
  <2> QED
    BY <1>6, <2>1, <2>2
<1>16. 2 \in 1..(LastVersion + 1)
  BY <1>3
<1> QED
  BY <1>8, <1>11, <1>12, <1>14, <1>15, <1>16

\* Only the rows are written.
LEMMA WholeSeed ==
  ASSUME AllSound, NEW m, WholeAt(m), NEW p \in Procs, Seed(p)
  PROVE  /\ db'.ver = db.ver /\ Underway(m)' /\ LedgerInPlace' /\ ServiceInv'
         /\ svc' = svc /\ fts5' = fts5
<1>1. ServiceInv /\ LedgerInPlace /\ svc \in {"control", "diagnosis", "backend"}
  BY DEF WholeAt, AllSound, Services
<1>2. /\ OthersStay(p) /\ Rests(proc'[p]) /\ svc' = svc /\ fts5' = fts5 /\ ServiceInv'
      /\ db' = [has |-> db.has, ver |-> db.ver, data |-> db'.data]
  BY <1>1, SeedIs
<1>3. db'.has = db.has /\ db'.ver = db.ver
  BY <1>2
<1>4. Underway(m)'
  BY <1>2, <1>3, RestsGoes
<1>5. ~Runs(proc'[p])
  <2>1. Out(p, "serving")
    BY <1>1, GoIs DEF Seed, ServiceInv
  <2> QED
    BY <2>1 DEF Out, Runs
<1>6. \A q \in Procs \ {p} : proc'[q] = proc[q]
  BY <1>2 DEF OthersStay
<1>7. LedgerInPlace'
  <2>1. (\E q \in Procs : Runs(proc'[q])) => \E q \in Procs : Runs(proc[q])
    BY <1>5, <1>6
  <2>2. db'.ver # {} \/ (\E q \in Procs : Runs(proc'[q])) => Ledger[svc] \in db'.has
    BY <1>1, <1>3, <2>1 DEF LedgerInPlace
  <2> QED
    BY <1>1, <1>2, <2>2, LedgerNext DEF Rests
<1> QED
  BY <1>2, <1>3, <1>4, <1>7

LEMMA UnderwaySame ==
  ASSUME NEW m, Underway(m), svc' = svc, fts5' = fts5, proc' = proc, db'.has = db.has
  PROVE  Underway(m)'
<1>1. Stands(m, Bare(db.has))'
  <2>1. Stands(m, Bare(db'.has))
    BY DEF Underway
  <2> QED
    BY <2>1, StandsSame
<1>2. ASSUME NEW q \in Procs, IsAt(proc[q], m)'
      PROVE  Held(m, proc[q].i, proc[q].seen, Bare(db.has), Bare(View(q).has), proc[q].open)'
  <2>1. Held(m, proc[q].i, proc[q].seen, Bare(db.has), Bare(View(q).has), proc[q].open)
    BY <1>2 DEF Underway, IsAt, Runs
  <2>2. View(q)'.has = View(q).has
    BY DEF View
  <2>3. Held(m, proc'[q].i, proc'[q].seen, Bare(db'.has), Bare(View(q)'.has), proc'[q].open)
    BY <2>1, <2>2
  <2> QED
    BY <2>3, HeldSame
<1>3. /\ Procs' = Procs
      /\ \A q \in Procs : /\ IsAt(proc[q], m)' = IsAt(proc[q], m)
                          /\ IsAlone(m, proc[q].i)' = IsAlone(m, proc[q].i)
  BY DEF Procs, IsAt, Runs, IsAlone
<1>4. \A p, q \in Procs :
         /\ IsAt(proc[p], m)' /\ IsAlone(m, proc[p].i)'
         /\ IsAt(proc[q], m)' /\ IsAlone(m, proc[q].i)'
         => p = q
  BY <1>3 DEF Underway
<1>5. \A q \in Procs : IsAt(proc[q], m)' =>
        Held(m, proc[q].i, proc[q].seen, Bare(db.has), Bare(View(q).has), proc[q].open)'
  BY <1>2
<1> QED
  BY <1>1, <1>3, <1>4, <1>5 DEF Underway

LEMMA LedgerSame ==
  ASSUME LedgerInPlace, svc' = svc, proc' = proc, db'.has = db.has, db'.ver = db.ver
  PROVE  LedgerInPlace'
  BY DEF LedgerInPlace, Procs, Runs

LEMMA WholeSteps ==
  ASSUME SchemaInv, WholeInv, AllSound, Based, [Next]_vars
  PROVE  WholeInv'
<1>1. /\ svc \in Services /\ (svc # "diagnosis" => fts5)
      /\ svc \in {"control", "diagnosis", "backend"} /\ LastVersion \in Nat
  BY ScriptsAre DEF WholeInv, Services
<1>2. svc' = svc /\ fts5' = fts5
  BY DEF Next, Running, Start, Initialize, Verify, Deploy, Stamp, Connect, Look, Pass, Alter,
         Write, CommitRows, Fail, Record, Seed, Crash, Insert, NoStep, vars
<1>3. CASE oddly' # {}
  BY <1>1, <1>2, <1>3 DEF WholeInv
<1>4. ASSUME oddly' = {} PROVE WholeInv'
  <2>1. oddly = {}
    BY <1>4 DEF Next, Running, Start, Initialize, Verify, Deploy, Stamp, Connect, Look, Pass, Alter,
         Write, CommitRows, Fail, Record, Seed, Crash, Insert, NoStep, vars
  <2>2. PICK m : WholeAt(m)
    BY <2>1, WholeIs
  <2>3. /\ ServiceInv /\ LedgerInPlace /\ Underway(m)
        /\ m \in 1..(LastVersion + 1) /\ db.ver = 1..(m - 1)
    BY <2>2 DEF WholeAt
  <2>4. ASSUME ServiceInv', LedgerInPlace', db'.ver = db.ver, Underway(m)' PROVE WholeInv'
    <3>1. db'.ver = 1..(m - 1)
      BY <2>3, <2>4
    <3> QED
      BY <1>1, <1>2, <2>3, <2>4, <3>1, WholeNext
  <2>5. CASE UNCHANGED vars
    <3>1. /\ proc' = proc /\ db' = db /\ db'.has = db.has /\ db'.ver = db.ver
      BY <2>5 DEF vars
    <3>2. ServiceInv'
      BY <1>2, <2>3, <2>5
        DEF vars, ServiceInv, Shapes, IsData, VersionsInv, ProcFits, IsProc, IsWork, Runs,
            OneTransaction, LastVersion, Script, Procs
    <3>3. Underway(m)' /\ LedgerInPlace'
      BY <1>2, <2>3, <3>1, UnderwaySame, LedgerSame
    <3> QED
      BY <2>4, <3>1, <3>2, <3>3
  <2>6. ASSUME NEW p \in Procs, Running(p) \/ Crash(p) PROVE WholeInv'
    <3>1. CASE \/ Start(p) \/ Initialize(p) \/ Verify(p) \/ Deploy(p) \/ Connect(p) \/ Fail(p)
               \/ Crash(p)
      <4>1. Quiet(p) /\ ServiceInv'
        BY <1>1, <2>3, <3>1, QuietSteps
      <4>2. Bare(db'.has) = Bare(db.has) /\ db'.ver = db.ver /\ OthersStay(p) /\ Rests(proc'[p])
        BY <4>1 DEF Quiet, Bare
      <4>3. Underway(m)'
        BY <1>2, <2>2, <4>2, RestsGoes
      <4>4. LedgerInPlace'
        BY <1>1, <2>3, <3>1, QuietLedger
      <4> QED
        BY <2>4, <4>1, <4>2, <4>3, <4>4
    <3>2. CASE Look(p)
      BY <2>2, <2>4, <3>2, WholeLook
    <3>3. CASE Pass(p)
      BY <2>2, <2>4, <3>3, WholePass
    <3>4. CASE Alter(p)
      BY <1>4, <2>2, <2>4, <3>4, WholeAlter
    <3>5. CASE Write(p)
      BY <2>2, <2>4, <3>5, WholeWrite
    <3>6. CASE CommitRows(p)
      BY <1>4, <2>2, <2>4, <3>6, WholeCommit
    <3>7. CASE Record(p)
      BY <1>1, <1>2, <2>2, <3>7, WholeRecord, WholeNext
    <3>8. CASE Seed(p)
      BY <2>2, <2>4, <3>8, WholeSeed
    <3>9. CASE Stamp(p)
      BY <1>1, <1>2, <1>4, <2>2, <3>9, WholeStamp, WholeNext
    <3> QED
      BY <2>6, <3>1, <3>2, <3>3, <3>4, <3>5, <3>6, <3>7, <3>8, <3>9 DEF Running
  <2>7. ASSUME NEW c, Insert(c) PROVE WholeInv'
    <3>1. /\ proc' = proc /\ ServiceInv'
          /\ db' = [has |-> db.has, ver |-> db.ver, data |-> db'.data]
      BY <1>1, <2>3, <2>7, InsertIs
    <3>2. db'.has = db.has /\ db'.ver = db.ver
      BY <3>1
    <3>3. Underway(m)' /\ LedgerInPlace'
      BY <1>2, <2>3, <3>1, <3>2, UnderwaySame, LedgerSame
    <3> QED
      BY <2>4, <3>1, <3>2, <3>3
  <2> QED
    BY <2>5, <2>6, <2>7 DEF Next
<1> QED
  BY <1>3, <1>4

LEMMA WholeInit ==
  ASSUME Init, svc \in Services => Based
  PROVE  WholeInv
<1>1. svc \in Services /\ (svc # "diagnosis" => fts5)
  BY SchemaAssumption DEF Init
<1>2. svc \in {"control", "diagnosis", "backend"} /\ LastVersion \in Nat
  BY <1>1, ScriptsAre DEF Services
<1>3. /\ ServiceInv /\ \A p \in Procs : proc[p].open = FALSE /\ ~Runs(proc[p])
      /\ db.ver = {} /\ oddly = {}
      /\ \/ db.has = {} \/ db.has = Baseline[svc] \/ db.has = Baseline[svc] \ Compat(svc)
  BY <1>2, ServiceInit
<1>4. Stands(1, Bare(db.has))
  <2>1. Bare({}) = {} /\ Bare(Baseline[svc]) = Baseline[svc]
        /\ Bare(Baseline[svc] \ Compat(svc)) = Baseline[svc] \ Compat(svc)
    BY <1>1 DEF Based, Bare
  <2> QED
    BY <1>1, <1>3, <2>1 DEF Based
<1>5. Underway(1)
  BY <1>3, <1>4 DEF Underway, IsAt
<1>6. LedgerInPlace
  BY <1>3 DEF LedgerInPlace
<1>7. \A m \in 1..(LastVersion + 1) : db.ver = 1..(m - 1) => m = 1
  <2> SUFFICES ASSUME NEW m \in 1..(LastVersion + 1), db.ver = 1..(m - 1), m # 1 PROVE FALSE
    OBVIOUS
  <2>1. 1 \in 1..(m - 1)
    BY <1>2
  <2> QED
    BY <1>3, <2>1
<1> QED
  BY <1>1, <1>3, <1>5, <1>6, <1>7 DEF WholeInv

-----------------------------------------------------------------------------
(* The scripts that only add.                                               *)

\* What GrowingSound asks of script m.
ReachedFts(m, i) == svc = "diagnosis" /\ m = 4 /\ i \in 6..9
GrowingScript(m) ==
  /\ IsGrowing(m) /\ m \in 1..LastVersion
  /\ Len(Script(m)) \in Nat /\ AllPlain(Script(m))
  /\ Low(m) \subseteq High(m) /\ High(m) \subseteq Low(m) \cup GotThrough(m, Len(Script(m)) + 1)
  /\ \A j \in 1..Len(Script(m)) :
        /\ fts5 \/ ~ReachedFts(m, j) => Grows(Script(m)[j], High(m))
        /\ Script(m)[j].op # "only"
        /\ Script(m)[j].op = "fts5" => svc = "diagnosis" /\ m = 4 /\ j = 5 /\ Len(Script(m)) = 9
  /\ svc = "diagnosis" /\ m = 4 /\ ~fts5 => GotThrough(m, 10) \subseteq GotThrough(m, 5)
  /\ svc = "diagnosis" /\ m = 4 => Script(m)[5].op = "fts5"
  /\ Stands(m + 1, High(m))

LEMMA GrowingIs ==
  ASSUME svc \in Services, NEW m, IsGrowing(m), m \in 1..LastVersion
  PROVE  /\ \A h : Stands(m, h) <=> Low(m) \subseteq h /\ h \subseteq High(m)
         /\ \A i, e, h, v, o :
               Held(m, i, e, h, v, o) <=>
                  /\ h \subseteq v /\ v \subseteq High(m) /\ e \subseteq v
                  /\ GotThrough(m, i) \subseteq v
                  /\ ReachedFts(m, i) => fts5
         /\ \A i : ~IsAlone(m, i)
<1>1. m # LastVersion + 1
  BY ScriptsAre DEF Services
<1>2. /\ ~(svc = "control" /\ m = 4) /\ ~(svc = "diagnosis" /\ m = 2)
      /\ ~(svc = "diagnosis" /\ m = 6) /\ svc # "backend"
  BY DEF IsGrowing
<1>3. \A h : Stands(m, h) <=> Low(m) \subseteq h /\ h \subseteq High(m)
  BY <1>1, <1>2 DEF Stands
<1>4. \A i, e, h, v, o :
         Held(m, i, e, h, v, o) <=>
            /\ h \subseteq v /\ v \subseteq High(m) /\ e \subseteq v
            /\ GotThrough(m, i) \subseteq v
            /\ ReachedFts(m, i) => fts5
  BY <1>2 DEF Held, ReachedFts
<1>5. \A i : ~IsAlone(m, i)
  BY <1>2 DEF IsAlone
<1> QED
  BY <1>3, <1>4, <1>5

LEMMA GotThroughNext ==
  ASSUME NEW m, NEW i \in Nat \ {0}
  PROVE  /\ ~IsAdding(Script(m)[i]) => GotThrough(m, i + 1) \subseteq GotThrough(m, i)
         /\ GotThrough(m, i + 1) \subseteq GotThrough(m, i) \cup {Asked(Script(m)[i])}
         /\ GotThrough(m, 1) = {}
<1>1. 1..(i + 1 - 1) = 1..(i - 1) \cup {i} /\ 1..(1 - 1) = {}
  OBVIOUS
<1>2. \A k : GotThrough(m, k) = {Asked(s) : s \in {x \in {Script(m)[j] : j \in 1..(k - 1)} :
                           IsAdding(x) /\ (fts5 \/ x.table # Fts)}}
  BY DEF GotThrough
<1> DEFINE In(k, o) == \E j \in 1..(k - 1) : /\ IsAdding(Script(m)[j]) /\ o = Asked(Script(m)[j])
                                             /\ (fts5 \/ Script(m)[j].table # Fts)
<1>3. \A k, o : o \in GotThrough(m, k) <=> In(k, o)
  BY <1>2
<1>4. \A o : In(i + 1, o) => In(i, o) \/ (IsAdding(Script(m)[i]) /\ o = Asked(Script(m)[i]))
  BY <1>1
<1>5. \A o : ~In(1, o)
  BY <1>1
<1> QED
  BY <1>3, <1>4, <1>5

LEMMA GrowingSound ==
  ASSUME svc \in Services, NEW m, GrowingScript(m)
  PROVE  Soundly(m)
<1>1. /\ IsGrowing(m) /\ m \in 1..LastVersion /\ Len(Script(m)) \in Nat /\ AllPlain(Script(m))
      /\ Low(m) \subseteq High(m) /\ High(m) \subseteq Low(m) \cup GotThrough(m, Len(Script(m)) + 1)
      /\ Stands(m + 1, High(m))
  BY DEF GrowingScript
<1> DEFINE top == High(m)
           Is(i, e, h, v) == /\ h \subseteq v /\ v \subseteq High(m) /\ e \subseteq v
                             /\ GotThrough(m, i) \subseteq v
                             /\ ReachedFts(m, i) => fts5
<1>2. /\ \A h : Stands(m, h) <=> Low(m) \subseteq h /\ h \subseteq High(m)
      /\ \A i, e, h, v, o : Held(m, i, e, h, v, o) <=> Is(i, e, h, v)
      /\ \A i : ~IsAlone(m, i)
  BY <1>1, GrowingIs
<1>3. \A h : Stands(m, h) => Held(m, 1, {}, h, h, FALSE) /\ ~IsAlone(m, 1)
  <2>1. GotThrough(m, 1) = {} /\ ~ReachedFts(m, 1)
    BY GotThroughNext DEF ReachedFts
  <2> QED
    BY <1>2, <2>1
<1>4. ASSUME NEW open \in BOOLEAN, NEW seen, NEW h, NEW v,
             Stands(m, h), Held(m, Len(Script(m)) + 1, seen, h, v, open), open \/ v = h
      PROVE  Stands(m + 1, v)
  <2>1. v = High(m)
    <3>1. Is(Len(Script(m)) + 1, seen, h, v) /\ Low(m) \subseteq h
      BY <1>2, <1>4
    <3>2. Low(m) \subseteq v /\ GotThrough(m, Len(Script(m)) + 1) \subseteq v /\ v \subseteq High(m)
      BY <3>1
    <3> QED
      BY <1>1, <3>2
  <2> QED
    BY <1>1, <2>1
<1>5. ASSUME NEW i \in 1..Len(Script(m)), NEW open \in BOOLEAN, NEW seen, NEW h, NEW v,
             Stands(m, h), Held(m, i, seen, h, v, open), open \/ v = h
      PROVE  Does(m, i, seen, h, v, open)
  <2> DEFINE s == Script(m)[i]
  <2>1. /\ Low(m) \subseteq h /\ h \subseteq top /\ Is(i, seen, h, v)
    BY <1>2, <1>5
  <2>2. /\ Grows(s, top) /\ s.op # "only"
        /\ s.op = "fts5" => svc = "diagnosis" /\ m = 4 /\ i = 5 /\ Len(Script(m)) = 9
    BY <2>1 DEF GrowingScript
  <2>3. /\ IsIdle(s, v, seen) => IsAdding(s) /\ Asked(s) \in v
        /\ IsAdding(s) => /\ SchemaAfter(s, v) = v \cup Gained(s)
                          /\ Asked(s) \in Gained(s) /\ Gained(s) \subseteq top
        /\ ~IsAdding(s) => ~IsIdle(s, v, seen) /\ SchemaAfter(s, v) = v
    BY <2>1, <2>2, GrowingStep
  <2>4. /\ ~IsAdding(s) => GotThrough(m, i + 1) \subseteq GotThrough(m, i)
        /\ GotThrough(m, i + 1) \subseteq GotThrough(m, i) \cup {Asked(s)}
    BY GotThroughNext
  <2>5. s.op # "fts5" => (ReachedFts(m, i + 1) => ReachedFts(m, i))
    <3>1. svc = "diagnosis" /\ m = 4 => Script(m)[5].op = "fts5"
      BY DEF GrowingScript
    <3>2. SUFFICES ASSUME s.op # "fts5", ReachedFts(m, i + 1), ~ReachedFts(m, i) PROVE FALSE
      OBVIOUS
    <3>3. svc = "diagnosis" /\ m = 4 /\ i = 5
      BY <3>2 DEF ReachedFts
    <3> QED
      BY <3>1, <3>2, <3>3
  <2> HIDE DEF s, Is
  <2>6. IsAdding(s) <=> s.op \in {"create", "part", "column"}
    BY DEF IsAdding
  <2>7. ASSUME NEW e, e \subseteq v, ~IsAdding(s), s.op # "fts5", NEW o
        PROVE  Goes(m, i, h, i + 1, e, v, o)
    <3>1. Is(i + 1, e, h, v)
      BY <2>1, <2>4, <2>5, <2>7 DEF Is
    <3> QED
      BY <1>2, <3>1 DEF Goes
  <2>8. s.op = "read" => Goes(m, i, h, i + 1, Of(s.table, v), v, open)
    <3>1. Of(s.table, v) \subseteq v
      BY DEF Of
    <3> QED
      BY <2>6, <2>7, <3>1
  <2>9. ASSUME NEW w, v \subseteq w, h \subseteq w, w \subseteq top, Asked(s) \in w, IsAdding(s), NEW k, k \subseteq w
        PROVE  Is(i + 1, seen, k, w)
    <3>1. s.op # "fts5"
      BY <2>6, <2>9
    <3> QED
      BY <2>1, <2>4, <2>5, <2>9, <3>1 DEF Is
  <2>10. IsIdle(s, v, seen) => Goes(m, i, h, i + 1, seen, v, open)
    <3>1. SUFFICES ASSUME IsIdle(s, v, seen) PROVE Goes(m, i, h, i + 1, seen, v, open)
      OBVIOUS
    <3>2. Is(i + 1, seen, h, v)
      BY <2>1, <2>3, <2>9, <3>1 DEF Is
    <3> QED
      BY <1>2, <3>2 DEF Goes
  <2>11. s.op \in {"only", "fts5"} =>
            Goes(m, i, h, IF IsOn(s, seen) THEN i + 1 ELSE Len(Script(m)) + 1, seen, v, open)
    <3>1. SUFFICES ASSUME s.op = "fts5"
                   PROVE  Goes(m, i, h, IF IsOn(s, seen) THEN i + 1 ELSE Len(Script(m)) + 1, seen, v, open)
      BY <2>2 DEF s
    <3>2. svc = "diagnosis" /\ m = 4 /\ i = 5 /\ Len(Script(m)) = 9 /\ (IsOn(s, seen) <=> fts5)
      BY <2>2, <3>1 DEF IsOn, s
    <3>3. CASE fts5
      <4>1. Is(i + 1, seen, h, v)
        BY <2>1, <2>4, <2>6, <3>1, <3>3 DEF Is
      <4> QED
        BY <1>2, <3>2, <3>3, <4>1 DEF Goes
    <3>4. CASE ~fts5
      <4>1. GotThrough(m, 10) \subseteq GotThrough(m, 5)
        BY <3>2, <3>4 DEF GrowingScript
      <4>2. ~ReachedFts(m, 10)
        BY DEF ReachedFts
      <4>3. Is(10, seen, h, v)
        BY <2>1, <3>2, <4>1, <4>2 DEF Is
      <4> QED
        <5>1. (IF IsOn(s, seen) THEN i + 1 ELSE Len(Script(m)) + 1) = 10
          <6>1. ~IsOn(s, seen)
            BY <3>2, <3>4, Zenon
          <6>2. (IF IsOn(s, seen) THEN i + 1 ELSE Len(Script(m)) + 1) = Len(Script(m)) + 1
            BY <6>1, Zenon
          <6>3. Len(Script(m)) + 1 = 10
            <7>1. \A n : n = 9 => n + 1 = 10
              OBVIOUS
            <7>2. Len(Script(m)) = 9
              BY <3>2, Zenon
            <7> QED
              BY <7>1, <7>2, Zenon
          <6> QED
            BY <6>2, <6>3, Zenon
        <5>2. Goes(m, i, h, 10, seen, v, open)
          BY <1>2, <4>3 DEF Goes
        <5> QED
          BY <5>1, <5>2
    <3> QED
      BY <3>3, <3>4
  <2>12. IsRows(s) => /\ Goes(m, i, h, i + 1, seen, v, TRUE) /\ Goes(m, i, h, i + 1, seen, v, open)
    <3>1. IsRows(s) => ~IsAdding(s) /\ s.op # "fts5"
      BY <2>6 DEF IsRows
    <3> QED
      BY <2>1, <2>7, <3>1 DEF Is
  <2>13. Applies(s, v, seen) =>
           /\ IsAdding(s) /\ Is(i + 1, seen, h, SchemaAfter(s, v))
           /\ Is(i + 1, seen, SchemaAfter(s, v), SchemaAfter(s, v))
           /\ v \subseteq SchemaAfter(s, v) /\ SchemaAfter(s, v) \subseteq top
    <3>1. SUFFICES ASSUME Applies(s, v, seen)
                   PROVE  /\ IsAdding(s) /\ Is(i + 1, seen, h, SchemaAfter(s, v))
                          /\ Is(i + 1, seen, SchemaAfter(s, v), SchemaAfter(s, v))
                          /\ v \subseteq SchemaAfter(s, v) /\ SchemaAfter(s, v) \subseteq top
      OBVIOUS
    <3>2. IsAdding(s)
      BY <2>2, <3>1 DEF Applies, IsSchema, Grows, s
    <3>3. /\ v \subseteq SchemaAfter(s, v) /\ SchemaAfter(s, v) \subseteq top
          /\ Asked(s) \in SchemaAfter(s, v) /\ h \subseteq SchemaAfter(s, v)
      BY <2>1, <2>3, <3>2 DEF Is, s
    <3> QED
      BY <2>9, <3>2, <3>3
  <2>14. open /\ Applies(s, v, seen) => Goes(m, i, h, i + 1, seen, SchemaAfter(s, v), TRUE)
    BY <1>2, <2>13 DEF Goes
  <2>15. ASSUME NEW h2, h \subseteq h2, h2 \subseteq top, Is(i + 1, seen, h2, h2)
         PROVE  Changes(m, i, h, i + 1, seen, h2)
    <3>1. Stands(m, h2) /\ Held(m, i + 1, seen, h2, h2, FALSE)
      BY <1>2, <2>1, <2>15
    <3>2. ASSUME NEW k, NEW d, Held(m, k, d, h, h, FALSE) PROVE Held(m, k, d, h2, h2, FALSE)
      <4>1. Is(k, d, h, h)
        BY <1>2, <3>2
      <4>2. Is(k, d, h2, h2)
        BY <2>15, <4>1 DEF Is
      <4> QED
        BY <1>2, <4>2
    <3>3. ArrivesAlone(m, i, h, i + 1)
      BY <1>2 DEF ArrivesAlone
    <3> QED
      BY <3>1, <3>2, <3>3 DEF Changes, Carries
  <2>16. ~open /\ Applies(s, v, seen) => Changes(m, i, h, i + 1, seen, SchemaAfter(s, v))
    <3>1. h \subseteq v
      BY <2>1 DEF Is
    <3> QED
      BY <2>13, <2>15, <3>1
  <2>17. s.op = "commit" => Changes(m, i, h, i + 1, seen, v)
    <3>1. SUFFICES ASSUME s.op = "commit" PROVE Changes(m, i, h, i + 1, seen, v)
      OBVIOUS
    <3>2. Is(i + 1, seen, v, v)
      BY <2>1, <2>4, <2>5, <2>6, <3>1 DEF Is
    <3>3. h \subseteq v /\ v \subseteq top
      BY <2>1 DEF Is
    <3> QED
      BY <2>15, <3>2, <3>3
  <2> QED
    BY <2>8, <2>10, <2>11, <2>12, <2>14, <2>16, <2>17 DEF Does, s
<1> QED
  BY <1>1, <1>3, <1>4, <1>5 DEF Soundly

-----------------------------------------------------------------------------
(* The rebuild of device_command.                                           *)

LEMMA Control4Statements ==
  LET C == Control4
  IN  /\ C[1].op = "read" /\ C[1].table = "device_command"
      /\ C[2].op = "only" /\ C[2].table = "device_command" /\ C[2].names = CaseColumns
      /\ C[3].op = "create" /\ C[3].strict = TRUE /\ C[3].table = "device_command_new" /\ C[3].names = {}
      /\ C[4].op = "copy"
      /\ \A i \in 5..10 : C[i].op \in {"drop", "rename", "part"}
      /\ C[11].op = "commit" /\ Len(C) = 11
<1> DEFINE C == Control4
<1>1. /\ C[1] = Read("device_command") /\ C[2] = OnlyIfSeen("device_command", CaseColumns)
      /\ C[3] = CreateNew("device_command_new", {}) /\ C[4] = Rows("copy", "device_command_new")
      /\ C[5] = DropStrict("device_command", Blank)
      /\ C[6] = Rename("device_command_new", "device_command")
      /\ C[11] = Commit /\ Len(C) = 11
  BY Control4Is DEF Blank
<1>2. /\ C[7] = Adds("device_command", "idx_command_device")
      /\ C[8] = Adds("device_command", "idx_command_diagnosis")
      /\ C[9] = AddsNew("device_command", CommandTriggers[1])
      /\ C[10] = AddsNew("device_command", CommandTriggers[2])
  BY DEF Control4
<1> HIDE DEF C
<1>3. /\ C[1].op = "read" /\ C[1].table = "device_command"
      /\ C[2].op = "only" /\ C[2].table = "device_command" /\ C[2].names = CaseColumns
      /\ C[4].op = "copy" /\ C[11].op = "commit"
  BY <1>1, OtherFields
<1>4. C[3].op = "create" /\ C[3].strict = TRUE /\ C[3].table = "device_command_new" /\ C[3].names = {}
  BY <1>1, AddFields
<1>5. C[5].op = "drop" /\ C[6].op = "rename"
  BY <1>1, DropFields
<1>6. C[7].op = "part" /\ C[8].op = "part" /\ C[9].op = "part" /\ C[10].op = "part"
  BY <1>2, AddFields
<1>7. \A i \in 5..10 : i \in {5, 6, 7, 8, 9, 10}
  OBVIOUS
<1>8. \A i \in 5..10 : C[i].op \in {"drop", "rename", "part"}
  BY <1>5, <1>6, <1>7
<1> QED
  BY <1>1, <1>3, <1>4, <1>8 DEF C

LEMMA HereAll ==
  ASSUME fts5, NEW has
  PROVE  Here(has) = has
  BY DEF Here

LEMMA Control4Schemas ==
  ASSUME svc = "control", fts5
  PROVE  /\ High(4) = Made(4, 11) /\ Made(4, 10) = Made(4, 11)
         /\ Made(4, 3) = Low(4) \cup {NewTable} /\ Made(4, 4) = Made(4, 3)
         /\ \A i \in 1..11 : Made(4, i) = Through(Control4[i], Made(4, i - 1))
         /\ NewTable \notin Low(4) /\ NewTable \notin High(4)
         /\ <<"device_command", "case_id">> \in Low(4) /\ High(4) \cap CaseParts = {}
         /\ Script(4) = Control4
<1> DEFINE U == Upgraded["control"]
<1>1. /\ U[4] = Passed(Control4, U[3])[11] /\ U[3] = Adds1 \cup Adds2 \cup Adds3
      /\ \A o \in U[3] : o[1] # "device_command_new"
      /\ U[4] \subseteq U[3] /\ U[4] \cap CaseParts = {}
  BY ControlSchemas
<1>2. Script(4) = Control4
  BY ControlScripts DEF Script
<1>3. 4 - 1 = 3
  OBVIOUS
<1>4. Low(4) = U[3] /\ High(4) = U[4]
  BY <1>3, HereAll DEF Low, High
<1>5. \A i : Made(4, i) = Passed(Control4, U[3])[i]
  BY <1>2, <1>4 DEF Made
<1> HIDE DEF U
<1>6. Adds1 \subseteq U[3] /\ Adds2 \subseteq U[3]
  BY <1>1
<1>7. LET P == Passed(Control4, U[3])
      IN  P[3] = U[3] \cup {NewTable} /\ P[4] = P[3] /\ P[11] = P[10]
  BY <1>1, <1>6, Control4Passed
<1>8. \A i \in 1..11 : Passed(Control4, U[3])[i] = Through(Control4[i], Passed(Control4, U[3])[i - 1])
  <2>1. Len(Control4) = 11
    BY Control4Is
  <2>2. Len(Control4) \in Nat
    BY <2>1
  <2>3. \A i \in 1..Len(Control4) :
            Passed(Control4, U[3])[i] = Through(Control4[i], Passed(Control4, U[3])[i - 1])
    BY <2>2, PassedIs
  <2> QED
    BY <2>1, <2>3
<1>9. NewTable[1] = "device_command_new"
  BY TableIs DEF NewTable
<1>10. <<"device_command", "case_id">> \in Adds1
  BY TriggersAre DEF Adds1, Commands, Parts
<1>11. \A i \in 1..11 : Made(4, i) = Through(Control4[i], Made(4, i - 1))
  BY <1>5, <1>8
<1>12. High(4) = Made(4, 11)
  BY <1>1, <1>4, <1>5
<1>13. Made(4, 10) = Made(4, 11) /\ Made(4, 3) = Low(4) \cup {NewTable} /\ Made(4, 4) = Made(4, 3)
  BY <1>4, <1>5, <1>7
<1>14. NewTable \notin Low(4) /\ NewTable \notin High(4)
  BY <1>1, <1>4, <1>9
<1>15. <<"device_command", "case_id">> \in Low(4) /\ High(4) \cap CaseParts = {}
  BY <1>1, <1>4, <1>6, <1>10
<1> QED
  BY <1>2, <1>11, <1>12, <1>13, <1>14, <1>15

LEMMA Control4Sound ==
  ASSUME svc = "control", fts5, Stands(5, High(4))
  PROVE  Soundly(4)
<1> DEFINE lo == Low(4)
           hi == High(4)
           m3 == Made(4, 3)
           dc == "device_command"
           Is(i, e, h, v, o) ==
             /\ i = 2 => e = Of(dc, lo) \/ (e = Of(dc, hi) /\ h = hi)
             /\ i \in 3..11 => e = Of(dc, lo)
             /\ i \in 4..11 => h = m3 /\ v = Made(4, i - 1)
             /\ i = 12 => h = hi
             /\ o <=> i \in 5..11
<1>1. LastVersion = 5
  BY ControlScripts DEF LastVersion
<1>2. /\ \A h : Stands(4, h) <=> h \in {lo, m3, hi}
      /\ \A i, e, h, v, o : Held(4, i, e, h, v, o) <=> Is(i, e, h, v, o)
      /\ \A i : IsAlone(4, i) <=> i \in 4..11
  <2>1. ~IsGrowing(4)
    BY DEF IsGrowing
  <2>2. \A h : Stands(4, h) <=> h \in {lo, m3, hi}
    BY <1>1, <2>1 DEF Stands
  <2>3. \A i, e, h, v, o : Held(4, i, e, h, v, o) <=> Is(i, e, h, v, o)
    BY <2>1 DEF Held
  <2>4. \A i : IsAlone(4, i) <=> i \in 4..11
    BY DEF IsAlone
  <2> QED
    BY <2>2, <2>3, <2>4
<1>3. /\ hi = Made(4, 11) /\ Made(4, 10) = Made(4, 11)
      /\ m3 = lo \cup {NewTable} /\ Made(4, 4) = m3
      /\ \A i \in 1..11 : Made(4, i) = Through(Control4[i], Made(4, i - 1))
      /\ NewTable \notin lo /\ NewTable \notin hi
      /\ <<dc, "case_id">> \in lo /\ hi \cap CaseParts = {}
      /\ Script(4) = Control4
  BY Control4Schemas
<1> HIDE DEF lo, hi, m3
<1>4. lo # m3 /\ m3 # hi /\ lo # hi
  <2>1. <<dc, "case_id">> \in CaseParts
    BY DEF CaseParts, Parts, CaseColumns
  <2> QED
    BY <1>3, <2>1
<1>5. Of(dc, m3) = Of(dc, lo)
  <2>1. NewTable[1] # dc
    BY TableIs DEF NewTable
  <2> QED
    BY <1>3, <2>1 DEF Of
<1>6. AllPlain(Control4) /\ Len(Control4) = 11
  BY ControlPlain, ControlScripts, Control4Statements
<1>7. \A h : Stands(4, h) => Held(4, 1, {}, h, h, FALSE) /\ ~IsAlone(4, 1)
  <2> SUFFICES ASSUME NEW h, Stands(4, h)
               PROVE  Held(4, 1, {}, h, h, FALSE) /\ ~IsAlone(4, 1)
    OBVIOUS
  <2>1. Is(1, {}, h, h, FALSE)
    OBVIOUS
  <2>2. Held(4, 1, {}, h, h, FALSE)
    BY <1>2, <2>1
  <2>3. ~IsAlone(4, 1)
    BY <1>2
  <2> QED
    BY <2>2, <2>3
<1>8. ASSUME NEW open \in BOOLEAN, NEW seen, NEW h, NEW v,
             Stands(4, h), Held(4, 12, seen, h, v, open), open \/ v = h
      PROVE  Stands(5, v)
  <2>1. h = hi /\ open = FALSE
    BY <1>2, <1>8
  <2> QED
    BY <1>8, <2>1 DEF hi
<1>9. ASSUME NEW i \in 1..11, NEW open \in BOOLEAN, NEW seen, NEW h, NEW v,
             Stands(4, h), Held(4, i, seen, h, v, open), open \/ v = h
      PROVE  Does(4, i, seen, h, v, open)
  <2> DEFINE s == Control4[i]
  <2>0. h \in {lo, m3, hi} /\ Is(i, seen, h, v, open)
    BY <1>2, <1>9
  <2>1. CASE i = 1
    <3>1. s.op = "read" /\ s.table = dc
      BY <2>1, Control4Statements
    <3>2. open = FALSE /\ v = h
      BY <1>9, <2>0, <2>1
    <3>3. Is(2, Of(dc, v), h, v, open)
      BY <1>5, <2>0, <3>2
    <3>4. Goes(4, i, h, i + 1, Of(s.table, v), v, open)
      BY <1>2, <2>1, <3>1, <3>3 DEF Goes
    <3> HIDE DEF s, Is
    <3>5. ~IsIdle(s, v, seen) /\ ~IsRows(s) /\ ~Applies(s, v, seen)
      BY <3>1 DEF IsIdle, IsRows, Applies, IsSchema
    <3> QED
      BY <1>3, <3>1, <3>4, <3>5 DEF Does, s
  <2>2. CASE i = 2
    <3>1. s.op = "only" /\ s.table = dc /\ s.names = CaseColumns
      BY <2>2, Control4Statements
    <3>2. open = FALSE /\ v = h /\ (seen = Of(dc, lo) \/ (seen = Of(dc, hi) /\ h = hi))
      BY <1>9, <2>0, <2>2
    <3>3. IsOn(s, seen) <=> CaseParts \cap seen # {}
      BY <3>1 DEF IsOn, CaseParts
    <3>4. CASE seen = Of(dc, lo)
      <4>1. IsOn(s, seen)
        <5>1. <<dc, "case_id">> \in CaseParts /\ <<dc, "case_id">>[1] = dc
          BY DEF CaseParts, Parts, CaseColumns
        <5>2. <<dc, "case_id">> \in Of(dc, lo)
          BY <1>3, <5>1 DEF Of
        <5> QED
          BY <3>3, <3>4, <5>1, <5>2
      <4>2. Is(3, seen, h, v, open)
        BY <3>2, <3>4
      <4>3. Goes(4, i, h, 3, seen, v, open) /\ i + 1 = 3
        BY <1>2, <2>2, <4>2 DEF Goes
      <4> QED
        <5> HIDE DEF s, Is
        <5>1. ~IsIdle(s, v, seen) /\ ~IsRows(s) /\ ~Applies(s, v, seen)
          BY <3>1 DEF IsIdle, IsRows, Applies, IsSchema
        <5>2. Goes(4, i, h, IF IsOn(s, seen) THEN i + 1 ELSE Len(Script(4)) + 1, seen, v, open)
          BY <4>1, <4>3
        <5> QED
          BY <1>3, <3>1, <5>1, <5>2 DEF Does, s
    <3>5. CASE seen = Of(dc, hi) /\ h = hi
      <4>1. ~IsOn(s, seen)
        BY <1>3, <3>3, <3>5 DEF Of
      <4>2. Is(12, seen, h, v, open)
        BY <3>2, <3>5
      <4>3. Goes(4, i, h, 12, seen, v, open) /\ 11 + 1 = 12
        BY <1>2, <2>2, <4>2 DEF Goes
      <4> QED
        <5> HIDE DEF s, Is
        <5>1. ~IsIdle(s, v, seen) /\ ~IsRows(s) /\ ~Applies(s, v, seen)
          BY <3>1 DEF IsIdle, IsRows, Applies, IsSchema
        <5>2. Goes(4, i, h, IF IsOn(s, seen) THEN i + 1 ELSE Len(Script(4)) + 1, seen, v, open)
          <6>0. \A n : n = 11 => n + 1 = 12
            OBVIOUS
          <6>1. Len(Script(4)) + 1 = 12
            BY <1>3, <1>6, <6>0, Zenon
          <6>2. (IF IsOn(s, seen) THEN i + 1 ELSE Len(Script(4)) + 1) = Len(Script(4)) + 1
            BY <4>1, Zenon
          <6> QED
            BY <4>3, <6>1, <6>2, Zenon
        <5> QED
          BY <1>3, <3>1, <5>1, <5>2 DEF Does, s
    <3> QED
      BY <3>2, <3>4, <3>5
  <2>3. CASE i = 3
    <3>1. s.op = "create" /\ s.strict = TRUE /\ s.table = "device_command_new" /\ s.names = {}
      BY <2>3, Control4Statements
    <3>2. open = FALSE /\ v = h /\ seen = Of(dc, lo)
      BY <1>9, <2>0, <2>3
    <3>3. ~IsIdle(s, v, seen) /\ ~IsRows(s) /\ (~IsError(s, v) => NewTable \notin v)
          /\ SchemaAfter(s, v) = v \cup {NewTable}
      BY <3>1 DEF IsIdle, IsRows, IsError, SchemaAfter, NewTable, Parts
    <3>4. ASSUME Applies(s, v, seen), Bare(seen) \subseteq h
          PROVE  Changes(4, i, h, i + 1, seen, SchemaAfter(s, v))
      <4>1. h # m3
        BY <1>3, <3>2, <3>3, <3>4 DEF Applies
      <4>2. h # hi
        <5>1. <<dc, "case_id">> \in Of(dc, lo)
          BY <1>3 DEF Of
        <5>2. <<dc, "case_id">> \in Bare(seen)
          BY <3>2, <5>1, LedgerIs DEF Bare, Services
        <5>3. <<dc, "case_id">> \in CaseParts
          BY DEF CaseParts, Parts, CaseColumns
        <5> QED
          BY <1>3, <3>4, <5>2, <5>3
      <4>3. h = lo /\ SchemaAfter(s, v) = m3 /\ i + 1 = 4
        BY <1>3, <2>0, <2>3, <3>2, <3>3, <4>1, <4>2
      <4>4. Stands(4, m3) /\ Held(4, 4, seen, m3, m3, FALSE)
        <5>1. Is(4, seen, m3, m3, FALSE)
          BY <3>2 DEF m3
        <5> QED
          BY <1>2, <5>1
      <4>5. ASSUME NEW k, NEW d, Held(4, k, d, lo, lo, FALSE) PROVE Held(4, k, d, m3, m3, FALSE)
        <5>1. Is(k, d, lo, lo, FALSE)
          BY <1>2, <4>5
        <5>2. Is(k, d, m3, m3, FALSE)
          BY <1>4, <5>1
        <5> QED
          BY <1>2, <5>2
      <4>6. ASSUME NEW k, NEW d, NEW w, NEW o, Held(4, k, d, lo, w, o) PROVE ~IsAlone(4, k)
        <5>1. Is(k, d, lo, w, o)
          BY <1>2, <4>6
        <5> QED
          BY <1>2, <1>4, <5>1
      <4> QED
        BY <4>3, <4>4, <4>5, <4>6 DEF Changes, Carries, ArrivesAlone
    <3> HIDE DEF s, Is
    <3> QED
      BY <1>3, <3>1, <3>2, <3>3, <3>4 DEF Does, s
  <2>4. CASE i = 4
    <3>1. s.op = "copy"
      BY <2>4, Control4Statements
    <3>2. seen = Of(dc, lo) /\ h = m3 /\ v = m3
      BY <2>0, <2>4 DEF m3
    <3>3. Is(5, seen, h, v, TRUE)
      <4>1. 5 - 1 = 4
        OBVIOUS
      <4> QED
        BY <1>3, <3>2, <4>1
    <3>4. Goes(4, i, h, i + 1, seen, v, TRUE)
      <4>1. IsAlone(4, i) /\ i + 1 = 5
        BY <1>2, <2>4
      <4> HIDE DEF Is
      <4>2. Held(4, 5, seen, h, v, TRUE)
        BY <1>2, <3>3
      <4> QED
        BY <4>1, <4>2 DEF Goes
    <3> HIDE DEF s, Is
    <3>5. ~IsIdle(s, v, seen) /\ ~Applies(s, v, seen)
      BY <3>1 DEF IsIdle, Applies, IsSchema
    <3> QED
      BY <1>3, <3>1, <3>4, <3>5 DEF Does, s
  <2>5. CASE i \in 5..10
    <3>1. s.op \in {"drop", "rename", "part"}
      BY <2>5, Control4Statements
    <3>2. seen = Of(dc, lo) /\ h = m3 /\ v = Made(4, i - 1) /\ open = TRUE
      BY <2>0, <2>5
    <3>3. IsIdle(s, v, seen) <=> IsIdle(s, v, v)
      BY <3>1 DEF IsIdle
    <3>4. Made(4, i) = IF IsIdle(s, v, seen) THEN v ELSE SchemaAfter(s, v)
      BY <1>3, <3>2, <3>3 DEF Through
    <3>5. Is(i + 1, seen, h, Made(4, i), TRUE)
      BY <2>5, <3>2
    <3>6. Goes(4, i, h, i + 1, seen, Made(4, i), TRUE)
      <4>1. IsAlone(4, i)
        BY <1>2, <2>5
      <4> HIDE DEF Is
      <4>2. Held(4, i + 1, seen, h, Made(4, i), TRUE)
        BY <1>2, <3>5
      <4> QED
        BY <4>1, <4>2 DEF Goes
    <3> HIDE DEF s, Is
    <3>7. ~IsRows(s) /\ (Applies(s, v, seen) => ~IsIdle(s, v, seen))
      BY <3>1 DEF IsRows, Applies
    <3>8. /\ IsIdle(s, v, seen) => Goes(4, i, h, i + 1, seen, v, open)
          /\ Applies(s, v, seen) => Goes(4, i, h, i + 1, seen, SchemaAfter(s, v), TRUE)
      BY <3>2, <3>4, <3>6, <3>7
    <3> QED
      BY <1>3, <3>1, <3>2, <3>7, <3>8 DEF Does, s
  <2>6. CASE i = 11
    <3>1. s.op = "commit"
      BY <2>6, Control4Statements
    <3>2. h = m3 /\ v = hi /\ open = TRUE
      <4>1. 11 - 1 = 10
        OBVIOUS
      <4> QED
        BY <1>3, <2>0, <2>6, <4>1
    <3>3. Is(12, seen, hi, hi, FALSE)
      OBVIOUS
    <3>4. Stands(4, hi) /\ Held(4, i + 1, seen, hi, hi, FALSE)
      <4>1. i + 1 = 12 /\ Stands(4, hi)
        BY <1>2, <2>6
      <4> HIDE DEF Is
      <4> QED
        BY <1>2, <3>3, <4>1
    <3>5. ASSUME NEW k, NEW d, Held(4, k, d, m3, m3, FALSE), ~(IsAlone(4, i) /\ IsAlone(4, k))
          PROVE  Held(4, k, d, hi, hi, FALSE)
      <4>1. Is(k, d, m3, m3, FALSE) /\ k \notin 4..11
        <5>1. IsAlone(4, i) /\ ~IsAlone(4, k)
          BY <1>2, <2>6, <3>5
        <5>2. k \notin 4..11
          BY <1>2, <5>1
        <5>3. Is(k, d, m3, m3, FALSE)
          <6> HIDE DEF Is
          <6> QED
            BY <1>2, <3>5
        <5> QED
          BY <5>2, <5>3
      <4>2. Is(k, d, hi, hi, FALSE)
        BY <1>4, <4>1
      <4> QED
        BY <1>2, <4>2
    <3>6. ~IsAlone(4, i + 1)
      BY <1>2, <2>6
    <3>7. Changes(4, i, h, i + 1, seen, v)
      BY <3>2, <3>4, <3>5, <3>6 DEF Changes, Carries, ArrivesAlone
    <3> HIDE DEF s, Is
    <3>8. ~IsIdle(s, v, seen) /\ ~Applies(s, v, seen) /\ ~IsRows(s)
      BY <3>1 DEF IsIdle, Applies, IsSchema, IsRows
    <3> QED
      BY <1>3, <3>1, <3>7, <3>8 DEF Does, s
  <2>7. i \in {1, 2, 3, 4, 11} \/ i \in 5..10
    OBVIOUS
  <2> QED
    BY <2>1, <2>2, <2>3, <2>4, <2>5, <2>6, <2>7
<1>10. 4 + 1 = 5 /\ 11 + 1 = 12 /\ Len(Script(4)) = 11
  BY <1>3, <1>6
<1>11. Len(Script(4)) \in Nat /\ AllPlain(Script(4))
  BY <1>3, <1>6
<1> QED
  BY <1>7, <1>8, <1>9, <1>10, <1>11 DEF Soundly

-----------------------------------------------------------------------------
(* The next version begins with what this one leaves.                       *)

LEMMA NextStands ==
  ASSUME svc \in {"control", "diagnosis"}, NEW m \in 1..LastVersion,
         IsGrowing(m + 1) => Low(m + 1) \subseteq High(m + 1),
         svc = "diagnosis" /\ m = 1 => Low(2) \subseteq Made(2, 9),
         svc = "diagnosis" /\ m = 5 =>
            High(6) \subseteq Low(6) /\ \A t \in CaseTables : TheTable(t) \in Low(6)
  PROVE  Stands(m + 1, High(m))
<1>0. m \in Nat
  OBVIOUS
<1>1. (m + 1) - 1 = m
  BY <1>0
<1>2. Low(m + 1) = High(m)
  BY <1>1 DEF Low, High
<1> DEFINE h == High(m)
           k == m + 1
<1>3. k = 4 => h = Low(4)
  BY <1>2
<1>4. k = 2 => h = Low(2) /\ m = 1
  BY <1>0, <1>2
<1>5. k = 6 => h = Low(6) /\ m = 5
  BY <1>0, <1>2
<1>6. k = LastVersion + 1 => h = Low(k)
  BY <1>2
<1>7. IsGrowing(k) => Low(k) \subseteq h /\ h \subseteq High(k)
  BY <1>2
<1> HIDE DEF h, k
<1>8. svc # "backend"
  OBVIOUS
<1>9. svc = "control" /\ k = 4 => h \in {Low(4), Made(4, 3), High(4)}
  BY <1>3
<1>10. svc = "diagnosis" /\ k = 2 =>
           \/ Low(2) \subseteq h /\ h \subseteq Made(2, 9)
           \/ h = High(2)
  BY <1>4
<1>11. svc = "diagnosis" /\ k = 6 =>
           /\ High(6) \subseteq h /\ h \subseteq Low(6)
           /\ \A t \in CaseTables : TheTable(t) \notin h => Of(t, h) = {}
  BY <1>5
<1>12. Stands(k, h)
  BY <1>6, <1>7, <1>8, <1>9, <1>10, <1>11 DEF Stands
<1> QED
  BY <1>12 DEF h, k

-----------------------------------------------------------------------------
(* A script that grows from the schema of the version before.               *)

LEMMA GotThroughAsked ==
  ASSUME NEW m, Len(Script(m)) \in Nat, NEW n \in 0..Len(Script(m)),
         fts5 \/ \A o \in AskedBy(Script(m), n) : o[1] # Fts
  PROVE  GotThrough(m, n + 1) = AskedBy(Script(m), n)
<1>1. 1..(n + 1 - 1) = 1..n
  OBVIOUS
<1>2. GotThrough(m, n + 1) = {Asked(s) : s \in {x \in {Script(m)[j] : j \in 1..(n + 1 - 1)} :
                           IsAdding(x) /\ (fts5 \/ x.table # Fts)}}
  BY DEF GotThrough
<1>3. AskedBy(Script(m), n) = {Asked(Script(m)[j]) : j \in {k \in 1..n : IsAdding(Script(m)[k])}}
  BY DEF AskedBy
<1>4. \A j \in 1..n : IsAdding(Script(m)[j]) => Asked(Script(m)[j])[1] = Script(m)[j].table
  BY TableIs DEF Asked
<1>5. \A j \in 1..n : IsAdding(Script(m)[j]) => fts5 \/ Script(m)[j].table # Fts
  BY <1>3, <1>4
<1> QED
  BY <1>1, <1>2, <1>3, <1>5

LEMMA GrowsFromSound ==
  ASSUME svc \in Services, NEW m \in 1..LastVersion, IsGrowing(m), ~(svc = "diagnosis" /\ m = 4),
         GrowsFrom(Script(m), Low(m)), AllPlain(Script(m)),
         High(m) = Low(m) \cup AskedBy(Script(m), Len(Script(m))),
         \A j \in 1..Len(Script(m)) : Script(m)[j].op \notin {"only", "fts5"},
         fts5 \/ \A o \in AskedBy(Script(m), Len(Script(m))) : o[1] # Fts,
         Stands(m + 1, High(m))
  PROVE  Soundly(m)
<1> DEFINE n == Len(Script(m))
<1>1. n \in Nat /\ \A j \in 1..n : Grows(Script(m)[j], High(m))
  BY DEF GrowsFrom
<1>2. n \in 0..n
  BY <1>1
<1>3. GotThrough(m, n + 1) = AskedBy(Script(m), n)
  BY <1>1, <1>2, GotThroughAsked
<1>4. GrowingScript(m)
  <2> HIDE DEF n
  <2>1. n = Len(Script(m))
    BY DEF n
  <2>2. \A j \in 1..n : Grows(Script(m)[j], High(m)) /\ Script(m)[j].op # "only" /\ Script(m)[j].op # "fts5"
    BY <1>1, <2>1
  <2> QED
    BY <1>1, <1>3, <2>1, <2>2 DEF GrowingScript
<1> QED
  BY <1>4, GrowingSound

-----------------------------------------------------------------------------
(* The scripts of the control service.                                      *)

LEMMA BuildsOps ==
  ASSUME NEW script, NEW adds, NEW homes, Builds(script, adds, homes)
  PROVE  \A j \in 1..Len(script) : script[j].op \notin {"only", "fts5"}
<1>1. ASSUME NEW s, Suits(s, adds, homes) PROVE s.op \notin {"only", "fts5"}
  BY <1>1 DEF Suits, IsAdding
<1>2. \A j \in 1..Len(script) : Suits(script[j], adds, homes)
  BY DEF Builds
<1> QED
  BY <1>1, <1>2

NoOnly(script) == \A j \in 1..Len(script) : script[j].op \notin {"only", "fts5"}

LEMMA ControlNoOnly ==
  ASSUME NEW m \in {1, 2, 3, 5}
  PROVE  NoOnly(Control[m])
<1> DEFINE c == Control[m]
<1>1. c = Control1 \/ c = Control2 \/ c = Control3 \/ c = Control5
  BY ControlScripts
<1> HIDE DEF c
<1>2. Builds(c, Adds1, ControlHomes) \/ Builds(c, Adds2, ControlHomes)
      \/ Builds(c, Adds3, ControlHomes) \/ Builds(c, Adds5, ControlHomes)
  BY <1>1, Control1Builds, Control2Builds, Control3Builds, Control5Builds
<1>3. NoOnly(c)
  BY <1>2, BuildsOps DEF NoOnly
<1> QED
  BY <1>3 DEF c

LEMMA ControlSound ==
  ASSUME svc = "control", fts5
  PROVE  AllSound
<1>1. LastVersion = 5 /\ \A m : Script(m) = Control[m]
  BY ControlScripts DEF LastVersion, Script
<1> DEFINE U == Upgraded["control"]
<1>2. \A m \in {1, 2, 3, 5} : /\ GrowsFrom(Control[m], U[m - 1])
                              /\ U[m] = U[m - 1] \cup AskedBy(Control[m], Len(Control[m]))
  BY ControlSchemas
<1>3. \A m : Low(m) = U[m - 1] /\ High(m) = U[m]
  BY HereAll DEF Low, High
<1> HIDE DEF U
<1>4. \A m : IsGrowing(m) <=> m \in {1, 2, 3, 5}
  BY DEF IsGrowing
<1>5. \A m \in {1, 2, 3, 5} : /\ GrowsFrom(Script(m), Low(m)) /\ Low(m) \subseteq High(m)
                              /\ High(m) = Low(m) \cup AskedBy(Script(m), Len(Script(m)))
  BY <1>1, <1>2, <1>3
<1>6. ASSUME NEW m \in 1..5 PROVE Stands(m + 1, High(m))
  <2>1. m \in 1..LastVersion /\ (IsGrowing(m + 1) => Low(m + 1) \subseteq High(m + 1))
    BY <1>1, <1>4, <1>5
  <2> QED
    BY <2>1, NextStands
<1>7. Soundly(4)
  <2>1. 4 + 1 = 5 /\ 4 \in 1..5
    OBVIOUS
  <2>2. Stands(4 + 1, High(4))
    BY <1>6, <2>1
  <2>3. Stands(5, High(4))
    BY <2>1, <2>2, Zenon
  <2> QED
    BY <2>3, Control4Sound
<1>8. ASSUME NEW m \in {1, 2, 3, 5} PROVE Soundly(m)
  <2>1. m \in 1..LastVersion /\ m \in 1..5 /\ IsGrowing(m) /\ svc \in Services
    BY <1>1, <1>4 DEF Services
  <2>2. GrowsFrom(Script(m), Low(m)) /\ High(m) = Low(m) \cup AskedBy(Script(m), Len(Script(m)))
    BY <1>5
  <2>3. AllPlain(Script(m)) /\ NoOnly(Script(m))
    <3>1. AllPlain(Control[m])
      BY <2>1, ControlPlain
    <3>2. NoOnly(Control[m])
      BY ControlNoOnly
    <3> QED
      BY <1>1, <3>1, <3>2
  <2> QED
    BY <1>6, <2>1, <2>2, <2>3, GrowsFromSound DEF NoOnly
<1>9. \A m \in 1..LastVersion : m = 4 \/ m \in {1, 2, 3, 5}
  BY <1>1
<1> QED
  BY <1>7, <1>8, <1>9 DEF AllSound, Services

-----------------------------------------------------------------------------
(* The databases that an upgrade begins with.                               *)

LEMMA BaselineBuilt ==
  ASSUME NEW v \in Services, NEW adds, NEW homes, Builds(Scripts[v][1], adds, homes)
  PROVE  Baseline[v] \subseteq adds /\ Ledger[v] \notin Baseline[v]
<1> DEFINE c == Scripts[v][1]
<1>1. IsScript(c) /\ \A j \in 1..Len(c) : Suits(c[j], adds, homes)
  BY DEF Builds
<1>2. DOMAIN c = 1..Len(c)
  BY <1>1 DEF IsScript
<1>3. Baseline[v] = UNION {SchemaAfter(s, {}) : s \in ToSet(c)}
  BY DEF Baseline
<1> HIDE DEF c
<1>4. \A s \in ToSet(c) : Suits(s, adds, homes)
  BY <1>1, <1>2 DEF ToSet
<1>5. ASSUME NEW s, Suits(s, adds, homes)
      PROVE  SchemaAfter(s, {}) \subseteq {o \in adds : o[1] \notin {"schema_migrations", "alembic_version"}}
  <2>0. s.table \notin {"schema_migrations", "alembic_version"}
    BY <1>5 DEF Suits, IsPlain
  <2>1. CASE IsAdding(s)
    <3>1. Gained(s) \subseteq adds
      BY <1>5, <2>1 DEF Suits, IsAdding
    <3>2. SchemaAfter(s, {}) = Gained(s)
      BY <2>1, AddsGained
    <3>3. \A o \in Gained(s) : o[1] = s.table
      BY TableIs DEF Gained, Parts
    <3> QED
      BY <2>0, <3>1, <3>2, <3>3
  <2>2. CASE ~IsAdding(s)
    <3>1. s.op \notin {"create", "part", "column", "drop", "rename"}
      BY <1>5, <2>2 DEF Suits
    <3> QED
      BY <3>1 DEF SchemaAfter
  <2> QED
    BY <2>1, <2>2
<1>6. Baseline[v] \subseteq {o \in adds : o[1] \notin {"schema_migrations", "alembic_version"}}
  BY <1>3, <1>4, <1>5
<1>7. Ledger[v][1] \in {"schema_migrations", "alembic_version"}
  <2>1. Ledger[v] = TheTable(IF v = "backend" THEN "alembic_version" ELSE "schema_migrations")
    BY DEF Ledger
  <2> QED
    BY <2>1, TableIs
<1> QED
  BY <1>6, <1>7

LEMMA GrowingBased ==
  ASSUME svc \in {"control", "diagnosis"}, NEW homes,
         Builds(Script(1), High(1), homes), Low(1) = {}
  PROVE  Based
<1>1. svc \in Services /\ svc # "backend"
  BY DEF Services
<1>2. Baseline[svc] \subseteq High(1) /\ Ledger[svc] \notin Baseline[svc]
  BY <1>1, BaselineBuilt DEF Script
<1>3. IsGrowing(1) /\ 1 \in 1..LastVersion
  BY <1>1, ScriptsAre DEF IsGrowing
<1>4. \A h : Stands(1, h) <=> Low(1) \subseteq h /\ h \subseteq High(1)
  BY <1>1, <1>3, GrowingIs
<1> QED
  BY <1>1, <1>2, <1>4 DEF Based

LEMMA ControlBased ==
  ASSUME svc = "control", fts5
  PROVE  Based
<1>1. Script(1) = Control1
  BY ControlScripts DEF Script
<1>2. 1 - 1 = 0
  OBVIOUS
<1>3. Low(1) = {} /\ High(1) = Adds1
  <2>1. Upgraded["control"][0] = {} /\ Upgraded["control"][1] = Adds1
    BY ControlSchemas
  <2> QED
    BY <1>2, <2>1, HereAll DEF Low, High
<1> QED
  BY <1>1, <1>3, Control1Builds, GrowingBased

-----------------------------------------------------------------------------
(* At the end.                                                              *)

LEMMA WholeGives ==
  ASSUME WholeInv
  PROVE  SchemaIsWhole
<1> SUFFICES ASSUME LastVersion \in db.ver, oddly = {}
             PROVE  db.has = Complete[svc] \ IF fts5 THEN {} ELSE Of(Fts, Complete[svc])
  BY DEF SchemaIsWhole
<1> DEFINE n == LastVersion
           U == Upgraded[svc][n]
           L == Ledger[svc]
<1>1. /\ svc \in Services /\ ServiceInv /\ LedgerInPlace
      /\ \A m \in 1..(n + 1) : db.ver = 1..(m - 1) => Underway(m)
  BY DEF WholeInv
<1>2. n \in Nat /\ DOMAIN Scripts[svc] = 1..n
  BY <1>1, ScriptsAre DEF Services
<1>3. n + 1 \in 1..(n + 1) /\ (n + 1) - 1 = n
  BY <1>2
<1>4. db.ver = 1..n
  BY <1>1, <1>2 DEF ServiceInv, VersionsInv
<1>5. Underway(n + 1)
  BY <1>1, <1>3, <1>4
<1>6. Bare(db.has) = Low(n + 1)
  BY <1>5 DEF Underway, Stands
<1>7. Low(n + 1) = Here(U)
  BY <1>3 DEF Low
<1>8. L \in db.has
  BY <1>1 DEF LedgerInPlace
<1>9. Complete[svc] = {L} \cup U
  BY <1>1 DEF Complete, LastVersion
<1>10. L[1] # Fts
  <2>1. L = TheTable(IF svc = "backend" THEN "alembic_version" ELSE "schema_migrations")
    BY <1>1 DEF Ledger
  <2> QED
    BY <2>1, TableIs DEF Fts
<1> HIDE DEF n, U, L
<1>11. db.has = {L} \cup Here(U)
  BY <1>6, <1>7, <1>8 DEF Bare, L
<1>12. Here(U) = {o \in U : fts5 \/ o[1] # Fts}
  BY DEF Here
<1>13. CASE fts5
  BY <1>9, <1>11, <1>12, <1>13
<1>14. CASE ~fts5
  <2>1. Of(Fts, Complete[svc]) = {o \in Complete[svc] : o[1] = Fts}
    BY DEF Of
  <2>2. db.has = Complete[svc] \ Of(Fts, Complete[svc])
    BY <1>9, <1>10, <1>11, <1>12, <1>14, <2>1
  <2> QED
    BY <1>14, <2>2
<1> QED
  BY <1>13, <1>14

-----------------------------------------------------------------------------
(* The scripts of the diagnosis service.                                    *)

DAdds1 ==
  {TheTable("device"), TheTable("device_status"), TheTable("device_log"),
   TheTable("knowledge_document"), TheTable("fault_case"), TheTable("diagnosis_record"),
   TheTable("external_sync_outbox")}
  \cup {<<"device_status", "ix_device_status_latest">>, <<"device_log", "ix_device_log_latest">>,
        <<"external_sync_outbox", "ix_external_sync_pending">>,
        <<"knowledge_document", "document_id">>, <<"knowledge_document", "chunk_index">>,
        <<"external_sync_outbox", "claimed_at">>}
  \cup Parts("diagnosis_record", ToSet(RecordCompat))
DAdds2 ==
  {<<"device", "updated_at">>, TheTable("device_current_state"), TheTable("device_telemetry"),
   <<"device_telemetry", "uq_device_telemetry_sample">>,
   <<"device_telemetry", "ix_device_telemetry_device">>}
DAdds3 == {TheTable("rebuild_job")}
DAdds4 == {<<"knowledge_document", "heading">>, <<"knowledge_document", "metadata_json">>,
           <<"knowledge_document", "token_count">>}
DAdds5 ==
  {TheTable("fault_case_feedback"), <<"fault_case_feedback", "ix_fault_case_feedback_fault">>}
  \cup Parts("fault_case", ToSet(CaseGovernance)) \cup Parts("fault_case", ToSet(CaseIndexes))

\* The first script's indexes; one of them goes with its table when that is
\* renamed.
FirstHomes ==
  {<<"device_status", "ix_device_status_latest">>, <<"device_log", "ix_device_log_latest">>,
   <<"external_sync_outbox", "ix_external_sync_pending">>}
LaterHomes ==
  {<<"device_telemetry", "uq_device_telemetry_sample">>,
   <<"device_telemetry", "ix_device_telemetry_device">>,
   <<"fault_case_feedback", "ix_fault_case_feedback_fault">>}
  \cup Parts("fault_case", ToSet(CaseIndexes))

LEMMA Diagnosis1Builds == Builds(Diagnosis1, DAdds1, FirstHomes)
<1> DEFINE a == <<Create("device", {}),
      Create("device_status", {}), Adds("device_status", "ix_device_status_latest"),
      Create("device_log", {}), Adds("device_log", "ix_device_log_latest"),
      Create("knowledge_document", {"document_id", "chunk_index"}),
      Create("fault_case", {}),
      Create("diagnosis_record", ToSet(RecordCompat)),
      Create("external_sync_outbox", {"claimed_at"}),
      Adds("external_sync_outbox", "ix_external_sync_pending"),
      Read("diagnosis_record")>>
    b == ColumnsUnseen("diagnosis_record", RecordCompat)
    c == <<Read("knowledge_document"),
         ColumnUnseen("knowledge_document", "document_id"),
         ColumnUnseen("knowledge_document", "chunk_index"),
         Read("external_sync_outbox"),
         ColumnUnseen("external_sync_outbox", "claimed_at"),
         Rows("name", "knowledge_document"), Commit>>
    A == {a[1], a[2], a[3], a[4], a[5], a[6], a[7], a[8], a[9], a[10], a[11]}
    B == {ColumnUnseen("diagnosis_record", n) : n \in ToSet(RecordCompat)}
    C == {c[1], c[2], c[3], c[4], c[5], c[6], c[7]}
    top == DAdds1
    homes == FirstHomes
<1>1. IsScript(a) /\ ToSet(a) = A /\ IsScript(c) /\ ToSet(c) = C
  BY DEF IsScript, ToSet
<1>2. IsScript(b) /\ ToSet(b) = B
  <2>1. IsScript(RecordCompat)
    BY DEF IsScript, ToSet, RecordCompat
  <2> QED
    BY <2>1, EachSet
<1>3. Diagnosis1 = a \o b \o c
  BY DEF Diagnosis1
<1>4. IsScript(Diagnosis1) /\ ToSet(Diagnosis1) = A \cup B \cup C
  <2> HIDE DEF a, b, c, A, B, C
  <2> QED
    BY <1>1, <1>2, <1>3, CatSet, Zenon
<1>5. /\ \A t \in {"device", "device_status", "device_log", "knowledge_document", "fault_case",
                   "diagnosis_record", "external_sync_outbox"} :
            t \notin {"schema_migrations", "alembic_version"} /\ TheTable(t) \in top
      /\ \A t : Parts(t, {}) \subseteq top
      /\ Parts("knowledge_document", {"document_id", "chunk_index"}) \subseteq top
      /\ Parts("diagnosis_record", ToSet(RecordCompat)) \subseteq top
      /\ Parts("external_sync_outbox", {"claimed_at"}) \subseteq top
      /\ <<"device_status", "ix_device_status_latest">> \in top \cap homes
      /\ <<"device_log", "ix_device_log_latest">> \in top \cap homes
      /\ <<"external_sync_outbox", "ix_external_sync_pending">> \in top \cap homes
      /\ <<"knowledge_document", "document_id">> \in top /\ <<"knowledge_document", "chunk_index">> \in top
      /\ <<"external_sync_outbox", "claimed_at">> \in top
  BY DEF DAdds1, FirstHomes, Parts
<1>6. "ix_device_status_latest" # "" /\ "ix_device_log_latest" # "" /\ "ix_external_sync_pending" # ""
  OBVIOUS
<1> DEFINE Fit(s) == Suits(s, top, homes)
<1>7. /\ Fit(a[1]) /\ Fit(a[2]) /\ Fit(a[4]) /\ Fit(a[6]) /\ Fit(a[7]) /\ Fit(a[8]) /\ Fit(a[9])
      /\ IsAdding(a[1]) /\ Asked(a[1]) = TheTable("device")
      /\ IsAdding(a[2]) /\ Asked(a[2]) = TheTable("device_status")
      /\ IsAdding(a[4]) /\ Asked(a[4]) = TheTable("device_log")
      /\ IsAdding(a[6]) /\ Asked(a[6]) = TheTable("knowledge_document")
      /\ IsAdding(a[7]) /\ Asked(a[7]) = TheTable("fault_case")
      /\ IsAdding(a[8]) /\ Asked(a[8]) = TheTable("diagnosis_record")
      /\ IsAdding(a[9]) /\ Asked(a[9]) = TheTable("external_sync_outbox")
  <2> HIDE DEF top, homes
  <2>1. \A t \in {"device", "device_status", "device_log", "knowledge_document", "fault_case",
                   "diagnosis_record", "external_sync_outbox"} : \A x :
           /\ Parts(t, x) \subseteq top => Fit(Create(t, x))
           /\ IsAdding(Create(t, x)) /\ Asked(Create(t, x)) = TheTable(t)
    BY <1>5, StatementsSuit
  <2> QED
    BY <1>5, <2>1
<1>8. /\ Fit(a[3]) /\ IsAdding(a[3]) /\ Asked(a[3]) = <<"device_status", "ix_device_status_latest">>
      /\ Fit(a[5]) /\ IsAdding(a[5]) /\ Asked(a[5]) = <<"device_log", "ix_device_log_latest">>
      /\ Fit(a[10]) /\ IsAdding(a[10])
      /\ Asked(a[10]) = <<"external_sync_outbox", "ix_external_sync_pending">>
      /\ Fit(a[11]) /\ ~IsAdding(a[11])
  <2> HIDE DEF top, homes
  <2> QED
    BY <1>5, <1>6, StatementsSuit
<1>9. /\ \A s \in B : Fit(s)
      /\ AskedIn(B) = Parts("diagnosis_record", ToSet(RecordCompat))
  <2> HIDE DEF top, homes
  <2>1. "diagnosis_record" \notin {"schema_migrations", "alembic_version"}
    OBVIOUS
  <2> QED
    BY <1>5, <2>1, EachSuits
<1>10. /\ Fit(c[1]) /\ ~IsAdding(c[1])
       /\ Fit(c[2]) /\ IsAdding(c[2]) /\ Asked(c[2]) = <<"knowledge_document", "document_id">>
       /\ Fit(c[3]) /\ IsAdding(c[3]) /\ Asked(c[3]) = <<"knowledge_document", "chunk_index">>
       /\ Fit(c[4]) /\ ~IsAdding(c[4])
       /\ Fit(c[5]) /\ IsAdding(c[5]) /\ Asked(c[5]) = <<"external_sync_outbox", "claimed_at">>
       /\ Fit(c[6]) /\ ~IsAdding(c[6]) /\ Fit(c[7]) /\ ~IsAdding(c[7])
  <2> HIDE DEF top, homes
  <2>1. Fit(c[7]) /\ ~IsAdding(c[7])
    BY EndsSuit
  <2>2. Fit(c[6]) /\ ~IsAdding(c[6]) /\ Fit(c[1]) /\ ~IsAdding(c[1]) /\ Fit(c[4]) /\ ~IsAdding(c[4])
    BY <1>5, StatementsSuit
  <2>3. /\ Fit(c[2]) /\ IsAdding(c[2]) /\ Asked(c[2]) = <<"knowledge_document", "document_id">>
        /\ Fit(c[3]) /\ IsAdding(c[3]) /\ Asked(c[3]) = <<"knowledge_document", "chunk_index">>
        /\ Fit(c[5]) /\ IsAdding(c[5]) /\ Asked(c[5]) = <<"external_sync_outbox", "claimed_at">>
    BY <1>5, StatementsSuit
  <2> QED
    BY <2>1, <2>2, <2>3
<1> HIDE DEF a, b, c, top, homes, Fit
<1>11. /\ AskedIn(A) = {TheTable("device"), TheTable("device_status"), TheTable("device_log"),
                TheTable("knowledge_document"), TheTable("fault_case"), TheTable("diagnosis_record"),
                TheTable("external_sync_outbox"),
                <<"device_status", "ix_device_status_latest">>, <<"device_log", "ix_device_log_latest">>,
                <<"external_sync_outbox", "ix_external_sync_pending">>}
       /\ \A s \in A : Fit(s)
  BY <1>7, <1>8 DEF AskedIn
<1>12. /\ AskedIn(C) = {<<"knowledge_document", "document_id">>, <<"knowledge_document", "chunk_index">>,
                <<"external_sync_outbox", "claimed_at">>}
       /\ \A s \in C : Fit(s)
  BY <1>10 DEF AskedIn
<1> HIDE DEF A, B, C
<1>13. AskedIn((A \cup B) \cup C) = (AskedIn(A) \cup AskedIn(B)) \cup AskedIn(C)
  <2>1. AskedIn(A \cup B) = AskedIn(A) \cup AskedIn(B)
    BY AskedParts
  <2>2. AskedIn((A \cup B) \cup C) = AskedIn(A \cup B) \cup AskedIn(C)
    BY AskedParts
  <2> QED
    BY <2>1, <2>2
<1>14. AskedIn(ToSet(Diagnosis1)) = top
  BY <1>4, <1>9, <1>11, <1>12, <1>13 DEF top, DAdds1
<1>15. \A s \in ToSet(Diagnosis1) : Fit(s)
  BY <1>4, <1>9, <1>11, <1>12
<1> QED
  BY <1>4, <1>14, <1>15, BuildsSet DEF Fit, top, homes

LEMMA Diagnosis3Builds == Builds(Diagnosis3, DAdds3, LaterHomes)
<1> DEFINE a == Create("rebuild_job", {})
<1>1. IsScript(Diagnosis3) /\ ToSet(Diagnosis3) = {a, Commit}
  BY DEF Diagnosis3, IsScript, ToSet
<1>2. TheTable("rebuild_job") \in DAdds3 /\ Parts("rebuild_job", {}) \subseteq DAdds3
  BY DEF DAdds3, Parts
<1>3. Suits(a, DAdds3, LaterHomes) /\ IsAdding(a) /\ Asked(a) = TheTable("rebuild_job")
  <2>1. "rebuild_job" \notin {"schema_migrations", "alembic_version"}
    OBVIOUS
  <2> QED
    BY <1>2, <2>1, StatementsSuit
<1>4. Suits(Commit, DAdds3, LaterHomes) /\ ~IsAdding(Commit)
  BY EndsSuit
<1> HIDE DEF a
<1>5. AskedIn(ToSet(Diagnosis3)) = DAdds3
  BY <1>1, <1>3, <1>4 DEF AskedIn, DAdds3
<1> QED
  BY <1>1, <1>3, <1>4, <1>5, BuildsSet

LEMMA Diagnosis5Builds == Builds(Diagnosis5, DAdds5, LaterHomes)
<1> DEFINE a == <<Read("fault_case")>>
           b == ColumnsUnseen("fault_case", CaseGovernance)
           c == <<Rows("govern", "fault_case")>>
           d == EachAdds("fault_case", CaseIndexes)
           e == <<Create("fault_case_feedback", {}),
                  Adds("fault_case_feedback", "ix_fault_case_feedback_fault"), Commit>>
           A == {Read("fault_case")}
           B == {ColumnUnseen("fault_case", n) : n \in ToSet(CaseGovernance)}
           C == {Rows("govern", "fault_case")}
           D == {Adds("fault_case", n) : n \in ToSet(CaseIndexes)}
           E == {e[1], e[2], e[3]}
           top == DAdds5
           homes == LaterHomes
           Fit(s) == Suits(s, top, homes)
<1>1. /\ IsScript(a) /\ ToSet(a) = A /\ IsScript(c) /\ ToSet(c) = C
      /\ IsScript(e) /\ ToSet(e) = E
  BY DEF IsScript, ToSet
<1>2. IsScript(b) /\ ToSet(b) = B /\ IsScript(d) /\ ToSet(d) = D
  <2>1. IsScript(CaseGovernance) /\ IsScript(CaseIndexes)
    BY DEF IsScript, ToSet, CaseGovernance, CaseIndexes
  <2> QED
    BY <2>1, EachSet
<1>3. Diagnosis5 = (((a \o b) \o c) \o d) \o e
  BY DEF Diagnosis5
<1>4. IsScript(Diagnosis5) /\ ToSet(Diagnosis5) = (((A \cup B) \cup C) \cup D) \cup E
  <2> HIDE DEF a, b, c, d, e, A, B, C, D, E
  <2>1. IsScript(a \o b) /\ ToSet(a \o b) = A \cup B
    BY <1>1, <1>2, CatSet, Zenon
  <2>2. IsScript((a \o b) \o c) /\ ToSet((a \o b) \o c) = (A \cup B) \cup C
    BY <1>1, <2>1, CatSet, Zenon
  <2>3. IsScript(((a \o b) \o c) \o d) /\ ToSet(((a \o b) \o c) \o d) = ((A \cup B) \cup C) \cup D
    BY <1>2, <2>2, CatSet, Zenon
  <2>4. /\ IsScript((((a \o b) \o c) \o d) \o e)
        /\ ToSet((((a \o b) \o c) \o d) \o e) = (((A \cup B) \cup C) \cup D) \cup E
    BY <1>1, <2>3, CatSet, Zenon
  <2> QED
    BY <1>3, <2>4, Zenon
<1>5. /\ \A t : Parts(t, {}) \subseteq top
      /\ TheTable("fault_case_feedback") \in top
      /\ <<"fault_case_feedback", "ix_fault_case_feedback_fault">> \in top \cap homes
      /\ Parts("fault_case", ToSet(CaseGovernance)) \subseteq top
      /\ Parts("fault_case", ToSet(CaseIndexes)) \subseteq top
      /\ Parts("fault_case", ToSet(CaseIndexes)) \subseteq homes
  <2>1. \A t : Parts(t, {}) \subseteq top
    BY DEF Parts
  <2> HIDE DEF Parts
  <2> QED
    BY <2>1 DEF DAdds5, LaterHomes
<1>6. /\ "fault_case" \notin {"schema_migrations", "alembic_version"}
      /\ "fault_case_feedback" \notin {"schema_migrations", "alembic_version"}
  OBVIOUS
<1>7. "" \notin ToSet(CaseIndexes) /\ "ix_fault_case_feedback_fault" # ""
  <2>1. ToSet(CaseIndexes) = {"ix_fault_case_lifecycle", "ix_fault_case_signature",
                 "ix_fault_case_cluster", "uq_fault_case_source_command"}
    BY DEF ToSet, CaseIndexes
  <2> QED
    BY <2>1
<1> HIDE DEF top, homes
<1>8. /\ \A s \in A : Fit(s) /\ ~IsAdding(s)
      /\ \A s \in C : Fit(s) /\ ~IsAdding(s)
  BY <1>6, StatementsSuit
<1>9. /\ \A s \in B : Fit(s)
      /\ AskedIn(B) = Parts("fault_case", ToSet(CaseGovernance))
  BY <1>5, <1>6, EachSuits
<1>10. /\ \A s \in D : Fit(s)
       /\ AskedIn(D) = Parts("fault_case", ToSet(CaseIndexes))
  BY <1>5, <1>6, <1>7, EachSuits
<1>11. /\ Fit(e[1]) /\ IsAdding(e[1]) /\ Asked(e[1]) = TheTable("fault_case_feedback")
       /\ Fit(e[2]) /\ IsAdding(e[2])
       /\ Asked(e[2]) = <<"fault_case_feedback", "ix_fault_case_feedback_fault">>
       /\ Fit(e[3]) /\ ~IsAdding(e[3])
  <2>1. Fit(e[3]) /\ ~IsAdding(e[3])
    BY EndsSuit
  <2> QED
    BY <1>5, <1>6, <1>7, <2>1, StatementsSuit
<1> HIDE DEF e, Fit
<1>12. AskedIn(E) = {TheTable("fault_case_feedback"),
                     <<"fault_case_feedback", "ix_fault_case_feedback_fault">>}
       /\ \A s \in E : Fit(s)
  BY <1>11 DEF AskedIn
<1>13. AskedIn(A) = {} /\ AskedIn(C) = {}
  BY <1>8 DEF AskedIn
<1> HIDE DEF A, B, C, D, E
<1>14. AskedIn((((A \cup B) \cup C) \cup D) \cup E)
         = (((AskedIn(A) \cup AskedIn(B)) \cup AskedIn(C)) \cup AskedIn(D)) \cup AskedIn(E)
  <2>1. AskedIn(A \cup B) = AskedIn(A) \cup AskedIn(B)
    BY AskedParts
  <2>2. AskedIn((A \cup B) \cup C) = AskedIn(A \cup B) \cup AskedIn(C)
    BY AskedParts
  <2>3. AskedIn(((A \cup B) \cup C) \cup D) = AskedIn((A \cup B) \cup C) \cup AskedIn(D)
    BY AskedParts
  <2>4. AskedIn((((A \cup B) \cup C) \cup D) \cup E)
          = AskedIn(((A \cup B) \cup C) \cup D) \cup AskedIn(E)
    BY AskedParts
  <2> QED
    BY <2>1, <2>2, <2>3, <2>4, Zenon
<1>15. AskedIn(ToSet(Diagnosis5)) = top
  BY <1>4, <1>9, <1>10, <1>12, <1>13, <1>14 DEF top, DAdds5
<1>16. \A s \in ToSet(Diagnosis5) : Fit(s)
  BY <1>4, <1>8, <1>9, <1>10, <1>12
<1> QED
  BY <1>4, <1>15, <1>16, BuildsSet DEF Fit, top, homes

-----------------------------------------------------------------------------
(* Where the names of the diagnosis database are.                           *)

LEMMA RecordsAre ==
  /\ ToSet(RecordCompat) = {"retrieval_latency_ms", "llm_latency_ms", "input_tokens",
                            "output_tokens", "error", "result_json"}
  /\ ToSet(CaseIndexes) = {"ix_fault_case_lifecycle", "ix_fault_case_signature",
                           "ix_fault_case_cluster", "uq_fault_case_source_command"}
  /\ ToSet(CaseGovernance) =
       {"lifecycle_status", "fault_signature", "cluster_id", "applicability_json",
        "source_diagnosis_id", "source_command_id", "reuse_count", "success_count",
        "failure_count", "reliability_score", "last_used_at", "last_success_at",
        "last_failure_at", "deprecated_reason"}
<1>1. ToSet(RecordCompat) = {"retrieval_latency_ms", "llm_latency_ms", "input_tokens",
                            "output_tokens", "error", "result_json"}
  BY DEF ToSet, RecordCompat
<1>2. ToSet(CaseIndexes) = {"ix_fault_case_lifecycle", "ix_fault_case_signature",
                           "ix_fault_case_cluster", "uq_fault_case_source_command"}
  BY DEF ToSet, CaseIndexes
<1>3. ToSet(CaseGovernance) =
       {"lifecycle_status", "fault_signature", "cluster_id", "applicability_json",
        "source_diagnosis_id", "source_command_id", "reuse_count", "success_count",
        "failure_count", "reliability_score", "last_used_at", "last_success_at",
        "last_failure_at", "deprecated_reason"}
  BY DEF ToSet, CaseGovernance
<1> QED
  BY <1>1, <1>2, <1>3

LaterNames ==
  {"uq_device_telemetry_sample", "ix_device_telemetry_device", "ix_fault_case_feedback_fault"}
  \cup ToSet(CaseIndexes)

LEMMA LaterHomesAre ==
  /\ \A h \in LaterHomes : h = <<h[1], h[2]>> /\ h[2] \in LaterNames /\ h[1] # "device_status"
  /\ \A g, h \in LaterHomes : g[2] = h[2] => g = h
  /\ Blank \notin LaterNames /\ \A t : TheTable(t)[2] \notin LaterNames
<1>1. \A h \in LaterHomes :
        h \in {<<"device_telemetry", "uq_device_telemetry_sample">>,
               <<"device_telemetry", "ix_device_telemetry_device">>,
               <<"fault_case_feedback", "ix_fault_case_feedback_fault">>,
               <<"fault_case", "ix_fault_case_lifecycle">>,
               <<"fault_case", "ix_fault_case_signature">>,
               <<"fault_case", "ix_fault_case_cluster">>,
               <<"fault_case", "uq_fault_case_source_command">>}
  BY RecordsAre DEF LaterHomes, Parts
<1>2. Blank \notin LaterNames
  BY RecordsAre DEF LaterNames, Blank
<1>3. \A h \in LaterHomes : h = <<h[1], h[2]>> /\ h[2] \in LaterNames /\ h[1] # "device_status"
  BY <1>1, RecordsAre DEF LaterNames
<1>4. \A g, h \in LaterHomes : g[2] = h[2] => g = h
  BY <1>1
<1> QED
  BY <1>2, <1>3, <1>4, TableIs

LEMMA AtLaterHome ==
  ASSUME NEW has, \A o \in has : o \in LaterHomes \/ o[2] \notin LaterNames
  PROVE  AtHome(has, LaterHomes)
  BY LaterHomesAre DEF AtHome

LEMMA DiagnosisAtHome ==
  /\ AtHome(DAdds1, FirstHomes)
  /\ AtHome(DAdds1, LaterHomes) /\ AtHome(DAdds2, LaterHomes) /\ AtHome(DAdds3, LaterHomes)
  /\ AtHome(DAdds4, LaterHomes) /\ AtHome(DAdds5, LaterHomes)
  /\ AtHome({TheTable(Fts)}, LaterHomes)
<1> DEFINE Fit(o) == o \in LaterHomes \/ o[2] \notin LaterNames
<1>1. \A t : Fit(TheTable(t))
  BY LaterHomesAre
<1>2. \A o \in DAdds1 : Fit(o)
  <2>1. \A o \in Parts("diagnosis_record", ToSet(RecordCompat)) : o[2] \notin LaterNames
    BY RecordsAre DEF Parts, LaterNames
  <2>2. \A o \in {<<"device_status", "ix_device_status_latest">>, <<"device_log", "ix_device_log_latest">>,
        <<"external_sync_outbox", "ix_external_sync_pending">>,
        <<"knowledge_document", "document_id">>, <<"knowledge_document", "chunk_index">>,
        <<"external_sync_outbox", "claimed_at">>} : o[2] \notin LaterNames
    BY RecordsAre DEF LaterNames
  <2> HIDE DEF Fit
  <2>3. \A o : o[2] \notin LaterNames => Fit(o)
    BY DEF Fit
  <2> QED
    BY <1>1, <2>1, <2>2, <2>3 DEF DAdds1
<1>3. \A o \in DAdds2 : Fit(o)
  <2>1. <<"device", "updated_at">>[2] \notin LaterNames
    BY RecordsAre DEF LaterNames
  <2>2. /\ <<"device_telemetry", "uq_device_telemetry_sample">> \in LaterHomes
        /\ <<"device_telemetry", "ix_device_telemetry_device">> \in LaterHomes
    BY DEF LaterHomes
  <2> QED
    BY <1>1, <2>1, <2>2 DEF DAdds2
<1>4. \A o \in DAdds3 : Fit(o)
  BY <1>1 DEF DAdds3
<1>5. \A o \in DAdds4 : Fit(o)
  BY RecordsAre DEF LaterNames, DAdds4
<1>6. \A o \in DAdds5 : Fit(o)
  <2>1. \A o \in Parts("fault_case", ToSet(CaseGovernance)) : o[2] \notin LaterNames
    BY RecordsAre DEF LaterNames, Parts
  <2>2. <<"fault_case_feedback", "ix_fault_case_feedback_fault">> \in LaterHomes
        /\ Parts("fault_case", ToSet(CaseIndexes)) \subseteq LaterHomes
    <3> HIDE DEF Parts
    <3> QED
      BY DEF LaterHomes
  <2> QED
    BY <1>1, <2>1, <2>2 DEF DAdds5
<1>7. AtHome(DAdds1, FirstHomes)
  <2> DEFINE names == {"ix_device_status_latest", "ix_device_log_latest", "ix_external_sync_pending"}
  <2>1. \A h \in FirstHomes : h[2] \in names
    BY DEF FirstHomes
  <2>2. \A g, h \in FirstHomes : g[2] = h[2] => g = h
    BY DEF FirstHomes
  <2>3. \A t : TheTable(t)[2] \notin names
    <3>1. Blank \notin names
      BY DEF Blank
    <3> QED
      BY <3>1, TableIs
  <2>4. \A o \in Parts("diagnosis_record", ToSet(RecordCompat)) : o[2] \notin names
    BY RecordsAre DEF Parts
  <2>5. \A o \in {<<"knowledge_document", "document_id">>, <<"knowledge_document", "chunk_index">>,
        <<"external_sync_outbox", "claimed_at">>} : o[2] \notin names
    OBVIOUS
  <2>6. DAdds1 \subseteq
          {TheTable("device"), TheTable("device_status"), TheTable("device_log"),
           TheTable("knowledge_document"), TheTable("fault_case"), TheTable("diagnosis_record"),
           TheTable("external_sync_outbox")}
          \cup FirstHomes
          \cup {<<"knowledge_document", "document_id">>, <<"knowledge_document", "chunk_index">>,
                <<"external_sync_outbox", "claimed_at">>}
          \cup Parts("diagnosis_record", ToSet(RecordCompat))
    BY DEF DAdds1, FirstHomes
  <2> HIDE DEF names
  <2>7. \A o \in DAdds1 : o \in FirstHomes \/ o[2] \notin names
    BY <2>3, <2>4, <2>5, <2>6
  <2> QED
    BY <2>1, <2>2, <2>7 DEF AtHome
<1> QED
  BY <1>1, <1>2, <1>3, <1>4, <1>5, <1>6, <1>7, AtLaterHome

\* No object of it but the table of the search index has to do with FTS5.
LEMMA WithoutFts ==
  \A o \in DAdds1 \cup DAdds2 \cup DAdds3 \cup DAdds4 \cup DAdds5 : o[1] # Fts
<1>1. \A t : TheTable(t)[1] = t
  BY TableIs
<1>2. \A t, names : \A o \in Parts(t, names) : o[1] = t
  BY DEF Parts
<1>3. \A o \in DAdds1 : o[1] # Fts
  BY <1>1, <1>2 DEF DAdds1, Fts
<1>4. \A o \in DAdds2 : o[1] # Fts
  BY <1>1 DEF DAdds2, Fts
<1>5. \A o \in DAdds3 : o[1] # Fts
  BY <1>1 DEF DAdds3, Fts
<1>6. \A o \in DAdds4 : o[1] # Fts
  BY DEF DAdds4, Fts
<1>7. \A o \in DAdds5 : o[1] # Fts
  BY <1>1, <1>2 DEF DAdds5, Fts
<1> QED
  BY <1>3, <1>4, <1>5, <1>6, <1>7

-----------------------------------------------------------------------------
(* The split of device_status.                                              *)

\* The schema before the table is put aside, and after.
Unsplit == DAdds1 \cup DAdds2
Split == (Unsplit \ Of("device_status", Unsplit))
         \cup Parts("device_status_legacy", Named(Of("device_status", Unsplit)))

LEMMA Diagnosis2Statements ==
  LET C == Diagnosis2
  IN  /\ Len(C) = 11
      /\ C[1] = Read("device") /\ C[2] = ColumnUnseen("device", "updated_at")
      /\ C[3] = Create("device_current_state", {}) /\ C[4] = Create("device_telemetry", {})
      /\ C[5] = Adds("device_telemetry", "uq_device_telemetry_sample")
      /\ C[6] = Adds("device_telemetry", "ix_device_telemetry_device")
      /\ C[7] = Read("device_status") /\ C[8] = OnlyIfSeen("device_status", {Blank})
      /\ C[9] = Rows("newest", "device_current_state")
      /\ C[10] = Rename("device_status", "device_status_legacy") /\ C[11] = Commit
  BY DEF Diagnosis2, Blank

LEMMA Diagnosis2Suits ==
  LET C == Diagnosis2
      Fit(s) == Suits(s, DAdds2, LaterHomes)
  IN  /\ \A j \in {1, 2, 3, 4, 5, 6, 7, 9, 11} : Fit(C[j])
      /\ IsPlain(C[8]) /\ IsPlain(C[10]) /\ C[8].op = "only"
      /\ AskedBy(C, 9) = DAdds2
      /\ C[10].op = "rename" /\ C[10].table = "device_status"
      /\ C[10].names = {"device_status_legacy"}
      /\ C[11].op = "commit" /\ C[9].op = "newest" /\ C[7].op = "read" /\ C[7].table = "device_status"
      /\ C[8].table = "device_status" /\ C[8].names = {Blank}
<1> DEFINE C == Diagnosis2
           Fit(s) == Suits(s, DAdds2, LaterHomes)
<1>1. /\ C[1] = Read("device") /\ C[2] = ColumnUnseen("device", "updated_at")
      /\ C[3] = Create("device_current_state", {}) /\ C[4] = Create("device_telemetry", {})
      /\ C[5] = Adds("device_telemetry", "uq_device_telemetry_sample")
      /\ C[6] = Adds("device_telemetry", "ix_device_telemetry_device")
      /\ C[7] = Read("device_status") /\ C[8] = OnlyIfSeen("device_status", {Blank})
      /\ C[9] = Rows("newest", "device_current_state")
      /\ C[10] = Rename("device_status", "device_status_legacy") /\ C[11] = Commit
  BY Diagnosis2Statements
<1>2. /\ <<"device", "updated_at">> \in DAdds2
      /\ TheTable("device_current_state") \in DAdds2 /\ TheTable("device_telemetry") \in DAdds2
      /\ <<"device_telemetry", "uq_device_telemetry_sample">> \in DAdds2 \cap LaterHomes
      /\ <<"device_telemetry", "ix_device_telemetry_device">> \in DAdds2 \cap LaterHomes
      /\ \A t : Parts(t, {}) \subseteq DAdds2
  BY DEF DAdds2, LaterHomes, Parts
<1>3. /\ "device" \notin {"schema_migrations", "alembic_version"}
      /\ "device_status" \notin {"schema_migrations", "alembic_version"}
      /\ "device_current_state" \notin {"schema_migrations", "alembic_version"}
      /\ "device_telemetry" \notin {"schema_migrations", "alembic_version"}
      /\ "uq_device_telemetry_sample" # "" /\ "ix_device_telemetry_device" # ""
  OBVIOUS
<1> HIDE DEF C
<1>4. Fit(C[1]) /\ ~IsAdding(C[1]) /\ Fit(C[7]) /\ ~IsAdding(C[7]) /\ Fit(C[9]) /\ ~IsAdding(C[9])
  BY <1>1, <1>3, StatementsSuit
<1>5. Fit(C[2]) /\ IsAdding(C[2]) /\ Asked(C[2]) = <<"device", "updated_at">>
  BY <1>1, <1>2, <1>3, StatementsSuit
<1>6. /\ Fit(C[3]) /\ IsAdding(C[3]) /\ Asked(C[3]) = TheTable("device_current_state")
      /\ Fit(C[4]) /\ IsAdding(C[4]) /\ Asked(C[4]) = TheTable("device_telemetry")
  BY <1>1, <1>2, <1>3, StatementsSuit
<1>7. /\ Fit(C[5]) /\ IsAdding(C[5]) /\ Asked(C[5]) = <<"device_telemetry", "uq_device_telemetry_sample">>
      /\ Fit(C[6]) /\ IsAdding(C[6]) /\ Asked(C[6]) = <<"device_telemetry", "ix_device_telemetry_device">>
  BY <1>1, <1>2, <1>3, StatementsSuit
<1>8. Fit(C[11])
  BY <1>1, EndsSuit
<1>9. C[8].op = "only" /\ C[8].table = "device_status" /\ C[11].op = "commit"
      /\ C[8].names = {Blank} /\ C[9].op = "newest" /\ C[7].op = "read" /\ C[7].table = "device_status"
  BY <1>1, OtherFields
<1>10. /\ C[10].op = "rename" /\ C[10].table = "device_status"
       /\ C[10].names = {"device_status_legacy"}
  BY <1>1, DropFields
<1>11. IsPlain(C[8]) /\ ~IsAdding(C[8])
  BY <1>3, <1>9 DEF IsPlain, IsAdding
<1>12. IsPlain(C[10])
  <2>1. Only(C[10]) = "device_status_legacy"
    BY <1>10, OnlyName
  <2> QED
    BY <1>3, <1>10, <2>1 DEF IsPlain
<1>13. AskedBy(C, 9) = DAdds2
  <2>1. {k \in 1..9 : IsAdding(C[k])} = {2, 3, 4, 5, 6}
    <3>1. \A k \in 1..9 : k \in {1, 2, 3, 4, 5, 6, 7, 8, 9}
      OBVIOUS
    <3> QED
      BY <1>4, <1>5, <1>6, <1>7, <1>11, <3>1
  <2>2. AskedBy(C, 9) = {Asked(C[j]) : j \in {2, 3, 4, 5, 6}}
    BY <2>1 DEF AskedBy
  <2>3. AskedBy(C, 9) = {Asked(C[2]), Asked(C[3]), Asked(C[4]), Asked(C[5]), Asked(C[6])}
    BY <2>2
  <2> QED
    BY <1>5, <1>6, <1>7, <2>3 DEF DAdds2
<1> HIDE DEF Fit
<1>14. \A j \in {1, 2, 3, 4, 5, 6, 7, 9, 11} : Fit(C[j])
  BY <1>4, <1>5, <1>6, <1>7, <1>8
<1> QED
  BY <1>9, <1>10, <1>11, <1>12, <1>13, <1>14 DEF C, Fit

LEMMA Diagnosis2Passed ==
  LET C == Diagnosis2
      P == Passed(Diagnosis2, DAdds1)
  IN  /\ \A j \in 1..9 : Grows(C[j], Unsplit)
      /\ \A i \in 0..9 : DAdds1 \subseteq P[i] /\ P[i] \subseteq Unsplit
      /\ P[9] = Unsplit /\ P[10] = Split /\ P[11] = Split
      /\ \A i \in 1..11 : P[i] = Through(C[i], P[i - 1])
<1> DEFINE C == Diagnosis2
           P == Passed(Diagnosis2, DAdds1)
<1>1. Len(C) = 11 /\ Len(C) \in Nat
  <2>1. Len(C) = 11
    BY Diagnosis2Statements
  <2> QED
    BY <2>1
<1>2. \A i \in 1..11 : P[i] = Through(C[i], P[i - 1])
  <2>0. Len(Diagnosis2) \in Nat
    BY <1>1
  <2>1. \A i \in 1..Len(C) : P[i] = Through(C[i], P[i - 1])
    BY <2>0, PassedIs
  <2> QED
    BY <1>1, <2>1
<1>3. /\ \A j \in {1, 2, 3, 4, 5, 6, 7, 9, 11} : Suits(C[j], DAdds2, LaterHomes)
      /\ C[8].op = "only" /\ AskedBy(C, 9) = DAdds2
      /\ C[10].op = "rename" /\ C[10].table = "device_status"
      /\ C[10].names = {"device_status_legacy"} /\ C[11].op = "commit"
  BY Diagnosis2Suits
<1> HIDE DEF C
<1>4. AtHome(DAdds1 \cup DAdds2, LaterHomes)
  BY DiagnosisAtHome, AtHomeParts
<1>5. \A j \in {1, 2, 3, 4, 5, 6, 7, 9} : Grows(C[j], DAdds1 \cup DAdds2)
  BY <1>3, <1>4, SuitsGrow
<1>6. Grows(C[8], DAdds1 \cup DAdds2)
  BY <1>3 DEF Grows
<1>7. \A j \in 1..9 : Grows(C[j], DAdds1 \cup DAdds2)
  <2>1. \A j \in 1..9 : j = 8 \/ j \in {1, 2, 3, 4, 5, 6, 7, 9}
    OBVIOUS
  <2> QED
    BY <1>5, <1>6, <2>1
<1>8. /\ \A i \in 0..9 : DAdds1 \subseteq P[i] /\ P[i] \subseteq DAdds1 \cup DAdds2
      /\ P[9] = DAdds1 \cup DAdds2
  <2>1. 9 \in 0..Len(C)
    BY <1>1
  <2> QED
    BY <1>1, <1>3, <1>7, <2>1, Grown DEF C
<1> HIDE DEF P
<1>9. P[10] = Split
  <2>1. Only(C[10]) = "device_status_legacy"
    BY <1>3, OnlyName
  <2>2. ~IsIdle(C[10], P[9], P[9])
    BY <1>3 DEF IsIdle
  <2>3. P[10] = Through(C[10], P[9])
    <3>1. 10 - 1 = 9 /\ 10 \in 1..11
      OBVIOUS
    <3> QED
      BY <1>2, <3>1
  <2>4. P[9] = Unsplit
    BY <1>8 DEF Unsplit
  <2>5. P[10] = SchemaAfter(C[10], Unsplit)
    BY <2>2, <2>3, <2>4 DEF Through
  <2> QED
    BY <1>3, <2>1, <2>5 DEF SchemaAfter, Split
<1>10. P[11] = P[10]
  <2>1. 11 - 1 = 10 /\ 11 \in 1..11
    OBVIOUS
  <2> QED
    BY <1>2, <1>3, <2>1, ThroughSame
<1> QED
  BY <1>2, <1>7, <1>8, <1>9, <1>10 DEF C, P, Unsplit

LEMMA SplitIs ==
  /\ AtHome(Split, LaterHomes) /\ DAdds2 \subseteq Split
  /\ OldTable \in DAdds1 /\ OldTable \notin Split
  /\ TheTable("fault_case") \in Split
  /\ \A o \in Split : o[1] # Fts
<1> DEFINE S == "device_status"
           L == "device_status_legacy"
           Old == Of(S, Unsplit)
<1>1. AtHome(Unsplit, LaterHomes)
  BY DiagnosisAtHome, AtHomeParts DEF Unsplit
<1>2. \A o \in Parts(L, Named(Old)) : o[1] = L /\ \E x \in Unsplit : x[1] = S /\ x[2] = o[2]
  BY DEF Parts, Named, Of
<1>3. S # L /\ L # Fts
  BY DEF Fts
<1>4. AtHome(Parts(L, Named(Old)), LaterHomes)
  <2> SUFFICES ASSUME NEW o \in Parts(L, Named(Old)), NEW h \in LaterHomes, o[2] = h[2]
               PROVE  FALSE
    BY DEF AtHome
  <2>1. PICK x \in Unsplit : x[1] = S /\ x[2] = o[2]
    BY <1>2
  <2>2. x = h
    BY <1>1, <2>1 DEF AtHome
  <2> QED
    BY <2>1, <2>2, LaterHomesAre
<1>5. AtHome(Split, LaterHomes)
  BY <1>1, <1>4, AtHomeParts DEF Split
<1>6. \A o \in DAdds2 : o[1] # S
  <2>1. \A t : TheTable(t)[1] = t
    BY TableIs
  <2> QED
    BY <2>1 DEF DAdds2
<1>7. DAdds2 \subseteq Split
  BY <1>6 DEF Split, Unsplit, Of
<1>8. OldTable \in DAdds1 /\ OldTable[1] = S
  BY TableIs DEF OldTable, DAdds1
<1>9. OldTable \notin Split
  BY <1>2, <1>3, <1>8 DEF Split, Of
<1>10. TheTable("fault_case") \in Split
  <2>1. TheTable("fault_case") \in DAdds1 /\ TheTable("fault_case")[1] # S
    BY TableIs DEF DAdds1
  <2> QED
    BY <2>1 DEF Split, Unsplit, Of
<1>11. \A o \in Split : o[1] # Fts
  BY <1>2, <1>3, WithoutFts DEF Split, Unsplit
<1> QED
  BY <1>5, <1>7, <1>8, <1>9, <1>10, <1>11

-----------------------------------------------------------------------------
(* The search index.                                                        *)

FtsAdds == {TheTable(Fts)}

LEMMA SuitsMore ==
  ASSUME NEW s, NEW top, NEW more, NEW homes, Suits(s, top, homes), top \subseteq more
  PROVE  Suits(s, more, homes)
  BY DEF Suits

LEMMA Diagnosis4Suits ==
  LET C == Diagnosis4
      Fit(s, top) == Suits(s, top, LaterHomes)
  IN  /\ Len(C) = 9
      /\ \A j \in 1..4 : Fit(C[j], DAdds4) /\ C[j].table # Fts
      /\ C[5].op = "fts5" /\ IsPlain(C[5])
      /\ \A j \in 6..9 : Fit(C[j], FtsAdds)
      /\ ~IsAdding(C[1]) /\ ~IsAdding(C[5]) /\ ~IsAdding(C[7]) /\ ~IsAdding(C[8]) /\ ~IsAdding(C[9])
      /\ IsAdding(C[2]) /\ IsAdding(C[3]) /\ IsAdding(C[4]) /\ IsAdding(C[6])
      /\ Asked(C[2]) = <<"knowledge_document", "heading">>
      /\ Asked(C[3]) = <<"knowledge_document", "metadata_json">>
      /\ Asked(C[4]) = <<"knowledge_document", "token_count">>
      /\ Asked(C[6]) = TheTable(Fts) /\ C[6].table = Fts
      /\ \A j \in 6..9 : j # 9 => C[j].table = Fts
<1> DEFINE C == Diagnosis4
           Fit(s, top) == Suits(s, top, LaterHomes)
           k == "knowledge_document"
<1>1. /\ Len(C) = 9
      /\ C[1] = Read(k)
      /\ C[2] = ColumnUnseen(k, "heading") /\ C[3] = ColumnUnseen(k, "metadata_json")
      /\ C[4] = ColumnUnseen(k, "token_count")
      /\ C[5] = OnlyWithFts5 /\ C[6] = Create(Fts, {})
      /\ C[7] = Rows("unindex", Fts) /\ C[8] = Rows("index", Fts) /\ C[9] = Commit
  BY DEF Diagnosis4
<1>2. /\ k \notin {"schema_migrations", "alembic_version"} /\ k # Fts
      /\ Fts \notin {"schema_migrations", "alembic_version"}
  BY DEF Fts
<1>3. /\ <<k, "heading">> \in DAdds4 /\ <<k, "metadata_json">> \in DAdds4
      /\ <<k, "token_count">> \in DAdds4
      /\ TheTable(Fts) \in FtsAdds /\ Parts(Fts, {}) \subseteq FtsAdds
  BY DEF DAdds4, FtsAdds, Parts
<1> HIDE DEF C, k
<1>4. Fit(C[1], DAdds4) /\ ~IsAdding(C[1])
  BY <1>1, <1>2, StatementsSuit
<1>5. /\ Fit(C[2], DAdds4) /\ IsAdding(C[2]) /\ Asked(C[2]) = <<k, "heading">>
      /\ Fit(C[3], DAdds4) /\ IsAdding(C[3]) /\ Asked(C[3]) = <<k, "metadata_json">>
      /\ Fit(C[4], DAdds4) /\ IsAdding(C[4]) /\ Asked(C[4]) = <<k, "token_count">>
  BY <1>1, <1>2, <1>3, StatementsSuit
<1>6. Fit(C[6], FtsAdds) /\ IsAdding(C[6]) /\ Asked(C[6]) = TheTable(Fts)
  BY <1>1, <1>2, <1>3, StatementsSuit
<1>7. Fit(C[7], FtsAdds) /\ ~IsAdding(C[7]) /\ Fit(C[8], FtsAdds) /\ ~IsAdding(C[8])
  BY <1>1, <1>2, StatementsSuit
<1>8. Fit(C[9], FtsAdds) /\ ~IsAdding(C[9])
  BY <1>1, EndsSuit
<1>9. C[5].op = "fts5" /\ C[5].table = Blank /\ C[7].table = Fts /\ C[8].table = Fts /\ C[1].table = k
  BY <1>1, OtherFields
<1>10. IsPlain(C[5]) /\ ~IsAdding(C[5])
  <2>1. Blank \notin {"schema_migrations", "alembic_version"}
    BY DEF Blank
  <2> QED
    BY <1>9, <2>1 DEF IsPlain, IsAdding
<1>11. C[2].table = k /\ C[3].table = k /\ C[4].table = k /\ C[6].table = Fts
  BY <1>1, AddFields
<1>12. \A j \in 1..4 : Fit(C[j], DAdds4) /\ C[j].table # Fts
  <2>1. \A j \in 1..4 : j \in {1, 2, 3, 4}
    OBVIOUS
  <2> HIDE DEF Fit
  <2> QED
    BY <1>2, <1>4, <1>5, <1>9, <1>11, <2>1
<1>13. \A j \in 6..9 : Fit(C[j], FtsAdds) /\ (j # 9 => C[j].table = Fts)
  <2>1. \A j \in 6..9 : j \in {6, 7, 8, 9}
    OBVIOUS
  <2> HIDE DEF Fit
  <2> QED
    BY <1>6, <1>7, <1>8, <1>9, <1>11, <2>1
<1> QED
  BY <1>1, <1>4, <1>5, <1>6, <1>7, <1>8, <1>9, <1>10, <1>11, <1>12, <1>13 DEF C, Fit, k

LEMMA Diagnosis4Grows ==
  ASSUME NEW lo, AtHome(lo, LaterHomes)
  PROVE  /\ \A j \in 1..9 : Grows(Diagnosis4[j], lo \cup (DAdds4 \cup FtsAdds))
         /\ \A j \in 1..5 : Grows(Diagnosis4[j], lo \cup DAdds4)
         /\ AskedBy(Diagnosis4, 9) = DAdds4 \cup FtsAdds
         /\ Passed(Diagnosis4, lo)[9] = lo \cup (DAdds4 \cup FtsAdds)
<1> DEFINE C == Diagnosis4
           all == DAdds4 \cup FtsAdds
<1>1. /\ Len(C) = 9
      /\ \A j \in 1..4 : Suits(C[j], DAdds4, LaterHomes)
      /\ C[5].op = "fts5"
      /\ \A j \in 6..9 : Suits(C[j], FtsAdds, LaterHomes)
  BY Diagnosis4Suits
<1>2. /\ ~IsAdding(C[1]) /\ ~IsAdding(C[5]) /\ ~IsAdding(C[7]) /\ ~IsAdding(C[8]) /\ ~IsAdding(C[9])
      /\ IsAdding(C[2]) /\ IsAdding(C[3]) /\ IsAdding(C[4]) /\ IsAdding(C[6])
      /\ Asked(C[2]) = <<"knowledge_document", "heading">>
      /\ Asked(C[3]) = <<"knowledge_document", "metadata_json">>
      /\ Asked(C[4]) = <<"knowledge_document", "token_count">>
      /\ Asked(C[6]) = TheTable(Fts)
  BY Diagnosis4Suits
<1> HIDE DEF C
<1>3. AtHome(lo \cup DAdds4, LaterHomes) /\ AtHome(lo \cup all, LaterHomes)
  BY DiagnosisAtHome, AtHomeParts DEF FtsAdds
<1>4. Grows(C[5], lo \cup DAdds4) /\ Grows(C[5], lo \cup all)
  BY <1>1 DEF Grows
<1>5. \A j \in 1..4 : Grows(C[j], lo \cup DAdds4)
  BY <1>1, <1>3, SuitsGrow
<1>6. \A j \in 1..5 : Grows(C[j], lo \cup DAdds4)
  <2>1. \A j \in 1..5 : j = 5 \/ j \in 1..4
    OBVIOUS
  <2> QED
    BY <1>4, <1>5, <2>1
<1>7. \A j \in 1..4 \cup 6..9 : Suits(C[j], all, LaterHomes)
  BY <1>1, SuitsMore
<1>8. \A j \in 1..9 : Grows(C[j], lo \cup all)
  <2>1. \A j \in 1..9 : j = 5 \/ j \in 1..4 \cup 6..9
    OBVIOUS
  <2>2. \A j \in 1..4 \cup 6..9 : Grows(C[j], lo \cup all)
    <3> HIDE DEF all
    <3> QED
      BY <1>3, <1>7, SuitsGrow
  <2> QED
    BY <1>4, <2>1, <2>2
<1>9. AskedBy(C, 9) = all
  <2>1. {i \in 1..9 : IsAdding(C[i])} = {2, 3, 4, 6}
    <3>1. \A i \in 1..9 : i \in {1, 2, 3, 4, 5, 6, 7, 8, 9}
      OBVIOUS
    <3> QED
      BY <1>2, <3>1
  <2>2. AskedBy(C, 9) = {Asked(C[j]) : j \in {2, 3, 4, 6}}
    BY <2>1 DEF AskedBy
  <2>3. AskedBy(C, 9) = {Asked(C[2]), Asked(C[3]), Asked(C[4]), Asked(C[6])}
    BY <2>2
  <2> QED
    BY <1>2, <2>3 DEF DAdds4, FtsAdds
<1>10. Passed(C, lo)[9] = lo \cup all
  <2>1. Len(C) \in Nat /\ 9 \in 0..Len(C)
    BY <1>1
  <2>2. \A j \in 1..9 : Grows(C[j], lo \cup AskedBy(C, 9))
    BY <1>8, <1>9
  <2>3. Passed(C, lo)[9] = lo \cup AskedBy(C, 9)
    BY <2>1, <2>2, Grown
  <2> QED
    BY <1>9, <2>3
<1> QED
  BY <1>6, <1>8, <1>9, <1>10 DEF C

-----------------------------------------------------------------------------
(* The versions of the diagnosis database.                                  *)

LEMMA DiagnosisSchemas ==
  LET U == Upgraded["diagnosis"]
  IN  /\ U[0] = {} /\ U[1] = DAdds1 /\ U[2] = Split
      /\ U[3] = Split \cup DAdds3
      /\ U[4] = U[3] \cup (DAdds4 \cup FtsAdds)
      /\ U[5] = U[4] \cup DAdds5
      /\ U[6] = Passed(Diagnosis6, U[5])[7]
      /\ \A m \in {2, 3, 4, 5} : AtHome(U[m], LaterHomes)
<1> DEFINE U == Upgraded["diagnosis"]
<1>1. /\ U[0] = {}
      /\ \A m \in 1..6 : U[m] = Passed(Diagnosis[m], U[m - 1])[Len(Diagnosis[m])]
  <2>1. Scripts["diagnosis"] = Diagnosis /\ Len(Diagnosis) = 6
    BY DiagnosisScripts
  <2>2. "diagnosis" \in Services /\ Len(Scripts["diagnosis"]) \in Nat
    BY <2>1 DEF Services
  <2> QED
    BY <2>1, <2>2, UpgradedIs
<1> HIDE DEF U
<1>2. /\ Diagnosis[1] = Diagnosis1 /\ Diagnosis[2] = Diagnosis2 /\ Diagnosis[3] = Diagnosis3
      /\ Diagnosis[4] = Diagnosis4 /\ Diagnosis[5] = Diagnosis5 /\ Diagnosis[6] = Diagnosis6
  BY DiagnosisScripts
<1>3. Len(Diagnosis2) = 11 /\ Len(Diagnosis4) = 9 /\ Len(Diagnosis6) = 7
  BY Diagnosis2Is, Diagnosis4Is, Diagnosis6Is
<1>4. /\ U[1] = Passed(Diagnosis1, U[0])[Len(Diagnosis1)]
      /\ U[2] = Passed(Diagnosis2, U[1])[11]
      /\ U[3] = Passed(Diagnosis3, U[2])[Len(Diagnosis3)]
      /\ U[4] = Passed(Diagnosis4, U[3])[9]
      /\ U[5] = Passed(Diagnosis5, U[4])[Len(Diagnosis5)]
      /\ U[6] = Passed(Diagnosis6, U[5])[7]
  <2>0. 1 - 1 = 0 /\ 2 - 1 = 1 /\ 3 - 1 = 2 /\ 4 - 1 = 3 /\ 5 - 1 = 4 /\ 6 - 1 = 5
    OBVIOUS
  <2>1. U[1] = Passed(Diagnosis[1], U[1 - 1])[Len(Diagnosis[1])]
    BY <1>1
  <2>2. U[2] = Passed(Diagnosis[2], U[2 - 1])[Len(Diagnosis[2])]
    BY <1>1
  <2>3. U[3] = Passed(Diagnosis[3], U[3 - 1])[Len(Diagnosis[3])]
    BY <1>1
  <2>4. U[4] = Passed(Diagnosis[4], U[4 - 1])[Len(Diagnosis[4])]
    BY <1>1
  <2>5. U[5] = Passed(Diagnosis[5], U[5 - 1])[Len(Diagnosis[5])]
    BY <1>1
  <2>6. U[6] = Passed(Diagnosis[6], U[6 - 1])[Len(Diagnosis[6])]
    BY <1>1
  <2> QED
    BY <1>2, <1>3, <2>0, <2>1, <2>2, <2>3, <2>4, <2>5, <2>6, Zenon
<1>5. U[1] = DAdds1
  <2>1. AtHome({} \cup DAdds1, FirstHomes)
    BY DiagnosisAtHome, AtHomeParts
  <2>2. Passed(Diagnosis1, {})[Len(Diagnosis1)] = {} \cup DAdds1
    BY <2>1, Diagnosis1Builds, BuildsUp
  <2> QED
    BY <1>1, <1>4, <2>2
<1>6. U[2] = Split
  BY <1>4, <1>5, Diagnosis2Passed
<1>7. AtHome(U[2], LaterHomes)
  BY <1>6, SplitIs
<1>8. ASSUME NEW script, NEW adds, Builds(script, adds, LaterHomes), NEW lo,
             AtHome(lo, LaterHomes), AtHome(adds, LaterHomes)
      PROVE  Passed(script, lo)[Len(script)] = lo \cup adds /\ AtHome(lo \cup adds, LaterHomes)
  <2>1. AtHome(lo \cup adds, LaterHomes)
    BY <1>8, AtHomeParts
  <2> QED
    BY <1>8, <2>1, BuildsUp
<1>9. U[3] = U[2] \cup DAdds3 /\ AtHome(U[3], LaterHomes)
  <2>1. /\ Passed(Diagnosis3, U[2])[Len(Diagnosis3)] = U[2] \cup DAdds3
        /\ AtHome(U[2] \cup DAdds3, LaterHomes)
    BY <1>7, <1>8, Diagnosis3Builds, DiagnosisAtHome
  <2> QED
    BY <1>4, <2>1
<1>10. U[4] = U[3] \cup (DAdds4 \cup FtsAdds) /\ AtHome(U[4], LaterHomes)
  <2>1. Passed(Diagnosis4, U[3])[9] = U[3] \cup (DAdds4 \cup FtsAdds)
    BY <1>9, Diagnosis4Grows
  <2>2. AtHome(U[3] \cup (DAdds4 \cup FtsAdds), LaterHomes)
    BY <1>9, DiagnosisAtHome, AtHomeParts DEF FtsAdds
  <2> QED
    BY <1>4, <2>1, <2>2
<1>11. U[5] = U[4] \cup DAdds5 /\ AtHome(U[5], LaterHomes)
  <2>1. /\ Passed(Diagnosis5, U[4])[Len(Diagnosis5)] = U[4] \cup DAdds5
        /\ AtHome(U[4] \cup DAdds5, LaterHomes)
    BY <1>8, <1>10, Diagnosis5Builds, DiagnosisAtHome
  <2> QED
    BY <1>4, <2>1
<1> QED
  BY <1>1, <1>4, <1>5, <1>6, <1>7, <1>9, <1>10, <1>11 DEF U

-----------------------------------------------------------------------------
(* The versions in this SQLite.                                             *)

LEMMA HereParts ==
  ASSUME NEW a, NEW b
  PROVE  /\ Here(a \cup b) = Here(a) \cup Here(b)
         /\ (\A o \in a : o[1] # Fts) => Here(a) = a
         /\ Here(FtsAdds) = IF fts5 THEN FtsAdds ELSE {}
<1>1. \A o \in FtsAdds : o[1] = Fts
  BY TableIs DEF FtsAdds
<1> QED
  BY <1>1 DEF Here

FtsHere == IF fts5 THEN FtsAdds ELSE {}

LEMMA DiagnosisLevels ==
  ASSUME svc = "diagnosis"
  PROVE  /\ LastVersion = 6 /\ \A m : Script(m) = Diagnosis[m]
         /\ Low(1) = {} /\ High(1) = DAdds1
         /\ Low(2) = DAdds1 /\ High(2) = Split
         /\ Low(3) = Split /\ High(3) = Low(3) \cup DAdds3
         /\ Low(4) = High(3) /\ High(4) = Low(4) \cup (DAdds4 \cup FtsHere)
         /\ Low(5) = High(4) /\ High(5) = Low(5) \cup DAdds5
         /\ Low(6) = High(5) /\ High(6) = Here(Passed(Diagnosis6, Upgraded["diagnosis"][5])[7])
         /\ Low(6) = Here(Upgraded["diagnosis"][5])
         /\ AtHome(Low(3), LaterHomes) /\ AtHome(Low(4), LaterHomes) /\ AtHome(Low(5), LaterHomes)
         /\ \A o \in Low(4) : o[1] # Fts
<1> DEFINE U == Upgraded["diagnosis"]
<1>1. LastVersion = 6 /\ \A m : Script(m) = Diagnosis[m]
  BY DiagnosisScripts DEF LastVersion, Script
<1>2. /\ U[0] = {} /\ U[1] = DAdds1 /\ U[2] = Split
      /\ U[3] = Split \cup DAdds3
      /\ U[4] = U[3] \cup (DAdds4 \cup FtsAdds)
      /\ U[5] = U[4] \cup DAdds5
      /\ U[6] = Passed(Diagnosis6, U[5])[7]
      /\ \A m \in {2, 3, 4, 5} : AtHome(U[m], LaterHomes)
  BY DiagnosisSchemas
<1>3. \A m : Low(m) = Here(U[m - 1]) /\ High(m) = Here(U[m])
  BY DEF Low, High
<1> HIDE DEF U
<1>4. 1 - 1 = 0 /\ 2 - 1 = 1 /\ 3 - 1 = 2 /\ 4 - 1 = 3 /\ 5 - 1 = 4 /\ 6 - 1 = 5
  OBVIOUS
<1>5. /\ Low(1) = Here(U[0]) /\ Low(2) = Here(U[1]) /\ Low(3) = Here(U[2])
      /\ Low(4) = Here(U[3]) /\ Low(5) = Here(U[4]) /\ Low(6) = Here(U[5])
  <2>1. /\ Low(1) = Here(U[1 - 1]) /\ Low(2) = Here(U[2 - 1]) /\ Low(3) = Here(U[3 - 1])
        /\ Low(4) = Here(U[4 - 1]) /\ Low(5) = Here(U[5 - 1]) /\ Low(6) = Here(U[6 - 1])
    BY <1>3
  <2> QED
    BY <1>4, <2>1, Zenon
<1>6. /\ High(1) = Low(2) /\ High(2) = Low(3) /\ High(3) = Low(4) /\ High(4) = Low(5)
      /\ High(5) = Low(6) /\ High(6) = Here(U[6])
  BY <1>3, <1>5
<1>7. \A o \in Split \cup DAdds1 \cup DAdds3 \cup DAdds4 \cup DAdds5 : o[1] # Fts
  BY SplitIs, WithoutFts
<1>8. Low(1) = {}
  BY <1>2, <1>5 DEF Here
<1>9. Low(2) = DAdds1 /\ Low(3) = Split
  BY <1>2, <1>5, <1>7, HereParts
<1>10. Low(4) = Split \cup DAdds3
  <2>1. \A o \in Split \cup DAdds3 : o[1] # Fts
    BY <1>7
  <2> QED
    BY <1>2, <1>5, <2>1, HereParts
<1>11. Low(5) = Low(4) \cup (DAdds4 \cup FtsHere)
  <2>1. Here(U[4]) = Here(U[3]) \cup (Here(DAdds4) \cup Here(FtsAdds))
    <3>1. Here(U[4]) = Here(U[3]) \cup Here(DAdds4 \cup FtsAdds)
      BY <1>2, HereParts
    <3>2. Here(DAdds4 \cup FtsAdds) = Here(DAdds4) \cup Here(FtsAdds)
      BY HereParts
    <3> QED
      BY <3>1, <3>2
  <2>2. Here(DAdds4) = DAdds4 /\ Here(FtsAdds) = FtsHere
    BY <1>7, HereParts DEF FtsHere
  <2> QED
    BY <1>5, <2>1, <2>2
<1>12. Low(6) = Low(5) \cup DAdds5
  <2>1. Here(U[5]) = Here(U[4]) \cup Here(DAdds5)
    BY <1>2, HereParts
  <2>2. Here(DAdds5) = DAdds5
    BY <1>7, HereParts
  <2> QED
    BY <1>5, <2>1, <2>2
<1>13. AtHome(Low(3), LaterHomes) /\ AtHome(Low(4), LaterHomes) /\ AtHome(Low(5), LaterHomes)
  <2>1. \A a : Here(a) \subseteq a
    BY DEF Here
  <2>2. AtHome(U[2], LaterHomes) /\ AtHome(U[3], LaterHomes) /\ AtHome(U[4], LaterHomes)
    BY <1>2
  <2> QED
    BY <1>5, <2>1, <2>2, AtHomeParts
<1>14. \A o \in Low(4) : o[1] # Fts
  BY <1>7, <1>10
<1>15. High(6) = Here(Passed(Diagnosis6, U[5])[7])
  BY <1>2, <1>6
<1>16. High(3) = Low(3) \cup DAdds3
  BY <1>6, <1>9, <1>10
<1> QED
  BY <1>1, <1>5, <1>6, <1>8, <1>9, <1>11, <1>12, <1>13, <1>14, <1>15, <1>16 DEF U

\* The scripts of the diagnosis service that grow.
LEMMA DiagnosisGrows ==
  ASSUME svc = "diagnosis"
  PROVE  /\ \A m \in {1, 3, 5} :
              /\ GrowsFrom(Script(m), Low(m)) /\ AllPlain(Script(m)) /\ NoOnly(Script(m))
              /\ High(m) = Low(m) \cup AskedBy(Script(m), Len(Script(m)))
              /\ \A o \in AskedBy(Script(m), Len(Script(m))) : o[1] # Fts
         /\ Builds(Script(1), High(1), FirstHomes) /\ Low(1) = {}
<1>1. /\ \A m : Script(m) = Diagnosis[m]
      /\ Low(1) = {} /\ High(1) = DAdds1 /\ High(3) = Low(3) \cup DAdds3
      /\ High(5) = Low(5) \cup DAdds5
      /\ AtHome(Low(3), LaterHomes) /\ AtHome(Low(5), LaterHomes)
  BY DiagnosisLevels
<1>2. Script(1) = Diagnosis1 /\ Script(3) = Diagnosis3 /\ Script(5) = Diagnosis5
  BY <1>1, DiagnosisScripts
<1> DEFINE Fine(m) ==
             /\ GrowsFrom(Script(m), Low(m)) /\ AllPlain(Script(m)) /\ NoOnly(Script(m))
             /\ High(m) = Low(m) \cup AskedBy(Script(m), Len(Script(m)))
             /\ \A o \in AskedBy(Script(m), Len(Script(m))) : o[1] # Fts
<1>3. ASSUME NEW m, NEW adds, NEW homes, Builds(Script(m), adds, homes),
             AtHome(Low(m), homes), AtHome(adds, homes), High(m) = Low(m) \cup adds,
             \A o \in adds : o[1] # Fts
      PROVE  Fine(m)
  <2> DEFINE c == Script(m)
  <2>1. Builds(c, adds, homes)
    BY <1>3
  <2> HIDE DEF c
  <2>2. AtHome(Low(m) \cup adds, homes)
    BY <1>3, AtHomeParts
  <2>3. \A j \in 1..Len(c) : Grows(c[j], Low(m) \cup AskedBy(c, Len(c)))
    BY <2>1, <2>2, BuildsUp
  <2>4. Len(c) \in Nat /\ AskedBy(c, Len(c)) = adds /\ AllPlain(c)
    BY <2>1 DEF Builds, Suits, AllPlain
  <2>5. NoOnly(c)
    BY <2>1, BuildsOps DEF NoOnly
  <2>6. GrowsFrom(c, Low(m))
    BY <2>3, <2>4 DEF GrowsFrom
  <2> QED
    BY <1>3, <2>4, <2>5, <2>6 DEF c
<1>4. \A o \in DAdds1 \cup DAdds3 \cup DAdds5 : o[1] # Fts
  BY WithoutFts
<1> HIDE DEF Fine
<1>5. Fine(1)
  <2>1. AtHome(Low(1), FirstHomes)
    BY <1>1, AtHomeParts
  <2>2. \A o \in DAdds1 : o[1] # Fts
    BY <1>4
  <2>3. High(1) = Low(1) \cup DAdds1
    BY <1>1
  <2> QED
    BY <1>2, <1>3, <2>1, <2>2, <2>3, Diagnosis1Builds, DiagnosisAtHome
<1>6. Fine(3)
  <2>1. \A o \in DAdds3 : o[1] # Fts
    BY <1>4
  <2> QED
    BY <1>1, <1>2, <1>3, <2>1, Diagnosis3Builds, DiagnosisAtHome
<1>7. Fine(5)
  <2>1. \A o \in DAdds5 : o[1] # Fts
    BY <1>4
  <2> QED
    BY <1>1, <1>2, <1>3, <2>1, Diagnosis5Builds, DiagnosisAtHome
<1> QED
  BY <1>1, <1>2, <1>5, <1>6, <1>7, Diagnosis1Builds DEF Fine

-----------------------------------------------------------------------------
(* The end of the fault cases.                                              *)

LEMMA Diagnosis6Statements ==
  LET C == Diagnosis6
  IN  /\ Len(C) = 7
      /\ \A i \in 1..6 : C[i].op = "drop" /\ C[i].strict = FALSE
      /\ C[1].table = "fault_case_feedback" /\ C[1].names = {Blank}
      /\ \A i \in 2..5 : C[i].table = "fault_case" /\ \E x : x # Blank /\ C[i].names = {x}
      /\ C[6].table = "fault_case" /\ C[6].names = {Blank}
      /\ C[7].op = "cancel" /\ C[7].table = "external_sync_outbox"
      /\ AllPlain(C)
<1> DEFINE C == Diagnosis6
<1>1. /\ Len(C) = 7
      /\ C[1] = DropIfExists("fault_case_feedback", Blank)
      /\ C[2] = DropIfExists("fault_case", CaseIndexes[1])
      /\ C[3] = DropIfExists("fault_case", CaseIndexes[2])
      /\ C[4] = DropIfExists("fault_case", CaseIndexes[3])
      /\ C[5] = DropIfExists("fault_case", CaseIndexes[4])
      /\ C[6] = DropIfExists("fault_case", Blank)
      /\ C[7] = Rows("cancel", "external_sync_outbox")
  BY DEF Diagnosis6, Blank
<1>2. \A n \in 1..4 : CaseIndexes[n] # Blank
  <2>1. CaseIndexes[1] # Blank /\ CaseIndexes[2] # Blank /\ CaseIndexes[3] # Blank /\ CaseIndexes[4] # Blank
    BY DEF CaseIndexes, Blank
  <2>2. \A n \in 1..4 : n \in {1, 2, 3, 4}
    OBVIOUS
  <2> QED
    BY <2>1, <2>2
<1> HIDE DEF C
<1>3. \A i \in 1..6 : i \in {1, 2, 3, 4, 5, 6}
  OBVIOUS
<1>4. \A i \in 2..5 : i \in {2, 3, 4, 5}
  OBVIOUS
<1>5. \A i \in 1..6 : C[i].op = "drop" /\ C[i].strict = FALSE
  BY <1>1, <1>3, DropFields
<1>6. /\ C[1].table = "fault_case_feedback" /\ C[1].names = {Blank}
      /\ C[6].table = "fault_case" /\ C[6].names = {Blank}
  BY <1>1, DropFields
<1>7. \A i \in 2..5 : C[i].table = "fault_case" /\ \E x : x # Blank /\ C[i].names = {x}
  <2>1. C[2].table = "fault_case" /\ C[2].names = {CaseIndexes[1]} /\ CaseIndexes[1] # Blank
    BY <1>1, <1>2, DropFields
  <2>2. C[3].table = "fault_case" /\ C[3].names = {CaseIndexes[2]} /\ CaseIndexes[2] # Blank
    BY <1>1, <1>2, DropFields
  <2>3. C[4].table = "fault_case" /\ C[4].names = {CaseIndexes[3]} /\ CaseIndexes[3] # Blank
    BY <1>1, <1>2, DropFields
  <2>4. C[5].table = "fault_case" /\ C[5].names = {CaseIndexes[4]} /\ CaseIndexes[4] # Blank
    BY <1>1, <1>2, DropFields
  <2>5. ASSUME NEW i \in 2..5
        PROVE  \E n \in 1..4 : C[i].table = "fault_case" /\ C[i].names = {CaseIndexes[n]} /\ CaseIndexes[n] # Blank
    BY <1>4, <2>1, <2>2, <2>3, <2>4
  <2> QED
    BY <2>5
<1>8. C[7].op = "cancel" /\ C[7].table = "external_sync_outbox"
  BY <1>1, OtherFields
<1>9. \A i \in 1..7 : i \in 2..5 \/ i \in {1, 6, 7}
  OBVIOUS
<1>10. \A i \in 1..7 : /\ C[i].table \notin {"schema_migrations", "alembic_version"}
                       /\ C[i].op \notin {"rename", "part"}
  <2>1. \A i \in 1..7 : i \in 1..6 \/ i = 7
    OBVIOUS
  <2>2. \A i \in 1..7 : C[i].op \notin {"rename", "part"}
    BY <1>5, <1>8, <2>1
  <2>3. \A i \in 1..7 : C[i].table \notin {"schema_migrations", "alembic_version"}
    BY <1>6, <1>7, <1>8, <1>9
  <2> QED
    BY <2>2, <2>3
<1>11. AllPlain(C)
  BY <1>1, <1>10 DEF AllPlain, IsPlain
<1> QED
  BY <1>1, <1>5, <1>6, <1>7, <1>8, <1>11 DEF C

\* A drop, of a table or of an index.
LEMMA DropsIs ==
  ASSUME NEW s, s.op = "drop", NEW x, s.names = {x}, NEW has
  PROVE  /\ Only(s) = x
         /\ x = Blank => SchemaAfter(s, has) = has \ Of(s.table, has)
         /\ x # Blank => SchemaAfter(s, has) = has \ {<<s.table, x>>}
         /\ s.strict = FALSE =>
               \A seen : IsIdle(s, has, seen) <=> <<s.table, x>> \notin has
<1>1. Only(s) = x
  BY OnlyName
<1>2. Parts(s.table, s.names) = {<<s.table, x>>}
  BY DEF Parts
<1>3. x = Blank => SchemaAfter(s, has) = has \ Of(s.table, has)
  BY <1>1 DEF SchemaAfter, Blank
<1>4. x # Blank => SchemaAfter(s, has) = has \ {<<s.table, x>>}
  BY <1>1, <1>2 DEF SchemaAfter, Blank
<1>5. s.strict = FALSE => \A seen : IsIdle(s, has, seen) <=> <<s.table, x>> \notin has
  BY <1>1 DEF IsIdle
<1> QED
  BY <1>1, <1>3, <1>4, <1>5

LEMMA DropsTable ==
  ASSUME NEW s, s.op = "drop", s.names = {Blank}, s.strict = FALSE, NEW has
  PROVE  /\ SchemaAfter(s, has) = has \ Of(s.table, has)
         /\ \A seen : IsIdle(s, has, seen) <=> <<s.table, Blank>> \notin has
  BY DropsIs

LEMMA DropsPart ==
  ASSUME NEW s, s.op = "drop", NEW x, x # Blank, s.names = {x}, s.strict = FALSE, NEW has
  PROVE  /\ SchemaAfter(s, has) = has \ {<<s.table, x>>}
         /\ \A seen : IsIdle(s, has, seen) <=> <<s.table, x>> \notin has
  BY DropsIs

\* What has nothing to do with the fault cases.
NoCases(has) == {o \in has : o[1] \notin CaseTables}

LEMMA Diagnosis6Passed ==
  ASSUME NEW lo, \A t \in CaseTables : TheTable(t) \in lo
  PROVE  Passed(Diagnosis6, lo)[7] = NoCases(lo)
<1> DEFINE C == Diagnosis6
           P == Passed(Diagnosis6, lo)
           fb == "fault_case_feedback"
           fc == "fault_case"
<1>1. Len(C) = 7
  BY Diagnosis6Statements
<1>2. P[0] = lo /\ \A i \in 1..7 : P[i] = Through(C[i], P[i - 1])
  <2>0. Len(Diagnosis6) \in Nat
    BY <1>1
  <2>1. P[0] = lo
    BY <2>0, PassedIs
  <2>2. \A i \in 1..Len(C) : P[i] = Through(C[i], P[i - 1])
    BY <2>0, PassedIs
  <2> QED
    BY <1>1, <2>1, <2>2
<1>3. /\ \A i \in 1..6 : C[i].op = "drop" /\ C[i].strict = FALSE
      /\ C[1].table = fb /\ C[1].names = {Blank}
      /\ \A i \in 2..5 : C[i].table = fc /\ \E x : x # Blank /\ C[i].names = {x}
      /\ C[6].table = fc /\ C[6].names = {Blank}
      /\ C[7].op = "cancel"
  BY Diagnosis6Statements
<1> HIDE DEF C, P
<1>4. <<fb, Blank>> \in lo /\ <<fc, Blank>> \in lo
  BY TableIs DEF CaseTables
<1>5. P[1] = lo \ Of(fb, lo)
  <2>1. P[1] = Through(C[1], lo)
    <3>1. 1 - 1 = 0 /\ 1 \in 1..7
      OBVIOUS
    <3> QED
      BY <1>2, <3>1
  <2>2. 1 \in 1..6
    OBVIOUS
  <2>3. C[1].op = "drop" /\ C[1].names = {Blank} /\ C[1].strict = FALSE /\ C[1].table = fb
    BY <1>3, <2>2
  <2>4. SchemaAfter(C[1], lo) = lo \ Of(fb, lo)
    BY <2>3, DropsTable
  <2>5. ~IsIdle(C[1], lo, lo)
    BY <1>4, <2>3, DropsTable
  <2> QED
    BY <2>1, <2>4, <2>5 DEF Through
<1> DEFINE Fit(h) == NoCases(lo) \subseteq h /\ h \subseteq P[1] /\ <<fc, Blank>> \in h
<1>6. Fit(P[1])
  <2>1. \A o \in Of(fb, lo) : o[1] = fb
    BY DEF Of
  <2> QED
    BY <1>4, <1>5, <2>1 DEF NoCases, CaseTables
<1>7. ASSUME NEW i \in 2..5, Fit(P[i - 1]) PROVE Fit(P[i])
  <2>1. /\ C[i].op = "drop" /\ C[i].strict = FALSE /\ C[i].table = fc
        /\ P[i] = Through(C[i], P[i - 1])
    BY <1>2, <1>3
  <2>2. PICK x : x # Blank /\ C[i].names = {x}
    BY <1>3
  <2>5. SchemaAfter(C[i], P[i - 1]) = P[i - 1] \ {<<fc, x>>}
    <3> DEFINE s == C[i]
               h == P[i - 1]
    <3>1. s.op = "drop" /\ s.strict = FALSE /\ s.table = fc /\ s.names = {x} /\ x # Blank
      BY <2>1, <2>2
    <3> HIDE DEF s, h
    <3>2. SchemaAfter(s, h) = h \ {<<s.table, x>>}
      BY <3>1, DropsPart
    <3>3. SchemaAfter(s, h) = h \ {<<fc, x>>}
      BY <3>1, <3>2
    <3> QED
      BY <3>3 DEF s, h
  <2>6. P[i] = P[i - 1] \/ P[i] = SchemaAfter(C[i], P[i - 1])
    BY <2>1 DEF Through
  <2>3. P[i] = P[i - 1] \/ P[i] = P[i - 1] \ {<<fc, x>>}
    BY <2>5, <2>6
  <2>4. <<fc, x>> \notin NoCases(lo) /\ <<fc, x>> # <<fc, Blank>>
    BY <2>2 DEF NoCases, CaseTables
  <2> QED
    BY <1>7, <2>3, <2>4
<1>8. Fit(P[5])
  <2>0. 2 - 1 = 1 /\ 3 - 1 = 2 /\ 4 - 1 = 3 /\ 5 - 1 = 4
    OBVIOUS
  <2> HIDE DEF Fit
  <2>2. Fit(P[2])
    BY <1>6, <1>7, <2>0
  <2>3. Fit(P[3])
    BY <1>7, <2>0, <2>2
  <2>4. Fit(P[4])
    BY <1>7, <2>0, <2>3
  <2> QED
    BY <1>7, <2>0, <2>4
<1>9. P[6] = P[5] \ Of(fc, P[5])
  <2>1. P[6] = Through(C[6], P[5])
    <3>1. 6 - 1 = 5 /\ 6 \in 1..7
      OBVIOUS
    <3> QED
      BY <1>2, <3>1
  <2>2. 6 \in 1..6
    OBVIOUS
  <2>3. C[6].op = "drop" /\ C[6].names = {Blank} /\ C[6].strict = FALSE /\ C[6].table = fc
    BY <1>3, <2>2
  <2>4. SchemaAfter(C[6], P[5]) = P[5] \ Of(fc, P[5])
    BY <2>3, DropsTable
  <2>5. ~IsIdle(C[6], P[5], P[5])
    BY <1>8, <2>3, DropsTable
  <2> QED
    BY <2>1, <2>4, <2>5 DEF Through
<1>10. P[7] = P[6]
  <2>1. 7 - 1 = 6 /\ 7 \in 1..7
    OBVIOUS
  <2> QED
    BY <1>2, <1>3, <2>1, ThroughSame
<1>11. P[6] = NoCases(lo)
  <2>1. \A o \in P[5] : o \in lo /\ o[1] # fb
    BY <1>5, <1>8 DEF Of
  <2> QED
    BY <1>8, <1>9, <2>1 DEF NoCases, CaseTables, Of
<1> QED
  BY <1>10, <1>11 DEF P

LEMMA Diagnosis6Levels ==
  ASSUME svc = "diagnosis"
  PROVE  /\ High(6) = NoCases(Low(6))
         /\ \A t \in CaseTables : TheTable(t) \in Low(6)
<1> DEFINE u == Upgraded["diagnosis"][5]
<1>1. Low(6) = Here(u) /\ High(6) = Here(Passed(Diagnosis6, u)[7])
      /\ Low(6) = Low(5) \cup DAdds5
  BY DiagnosisLevels
<1>2. TheTable("fault_case_feedback") \in DAdds5
  BY DEF DAdds5
<1>3. TheTable("fault_case") \in Split /\ Split \subseteq Low(4) /\ Low(4) \subseteq Low(5)
  BY SplitIs, DiagnosisLevels
<1>4. \A t \in CaseTables : TheTable(t) \in Low(6)
  BY <1>1, <1>2, <1>3 DEF CaseTables
<1>5. \A t \in CaseTables : TheTable(t) \in u
  BY <1>1, <1>4 DEF Here
<1> HIDE DEF u
<1>6. Passed(Diagnosis6, u)[7] = NoCases(u)
  BY <1>5, Diagnosis6Passed
<1> QED
  BY <1>1, <1>4, <1>6 DEF Here, NoCases

-----------------------------------------------------------------------------
(* The scripts of the diagnosis service that grow are sound.                *)

LEMMA Diagnosis4Through ==
  ASSUME svc = "diagnosis"
  PROVE  /\ GotThrough(4, 5) = DAdds4 /\ DAdds4 \subseteq GotThrough(4, 10)
         /\ fts5 => GotThrough(4, 10) = DAdds4 \cup FtsAdds
         /\ ~fts5 => GotThrough(4, 10) \subseteq GotThrough(4, 5)
<1> DEFINE C == Script(4)
<1>1. /\ Len(C) = 9 /\ Script(4) = Diagnosis4
      /\ \A j \in 1..4 : C[j].table # Fts
      /\ ~IsAdding(C[1]) /\ ~IsAdding(C[5]) /\ ~IsAdding(C[7]) /\ ~IsAdding(C[8]) /\ ~IsAdding(C[9])
      /\ IsAdding(C[2]) /\ IsAdding(C[3]) /\ IsAdding(C[4]) /\ IsAdding(C[6])
      /\ Asked(C[2]) = <<"knowledge_document", "heading">>
      /\ Asked(C[3]) = <<"knowledge_document", "metadata_json">>
      /\ Asked(C[4]) = <<"knowledge_document", "token_count">>
      /\ C[6].table = Fts
  <2>1. Script(4) = Diagnosis[4] /\ Diagnosis[4] = Diagnosis4
    BY DiagnosisLevels DEF Diagnosis
  <2>2. C = Diagnosis4
    BY <2>1
  <2> HIDE DEF C
  <2> QED
    BY <2>1, <2>2, Diagnosis4Suits
<1>2. AskedBy(C, 9) = DAdds4 \cup FtsAdds
  BY <1>1, DiagnosisLevels, Diagnosis4Grows
<1>3. AskedBy(C, 4) = DAdds4
  <2>1. {i \in 1..4 : IsAdding(C[i])} = {2, 3, 4}
    <3>1. \A i \in 1..4 : i \in {1, 2, 3, 4}
      OBVIOUS
    <3> QED
      BY <1>1, <3>1
  <2>2. AskedBy(C, 4) = {Asked(C[j]) : j \in {2, 3, 4}}
    BY <2>1 DEF AskedBy
  <2> QED
    BY <1>1, <2>2 DEF DAdds4
<1>4. Len(Script(4)) \in Nat /\ 4 \in 0..Len(Script(4)) /\ 9 \in 0..Len(Script(4))
  BY <1>1
<1>5. \A o \in AskedBy(Script(4), 4) : o[1] # Fts
  BY <1>3 DEF DAdds4, Fts
<1>6. GotThrough(4, 5) = DAdds4
  <2>1. GotThrough(4, 4 + 1) = AskedBy(Script(4), 4)
    BY <1>4, <1>5, GotThroughAsked
  <2>2. 4 + 1 = 5
    OBVIOUS
  <2> QED
    BY <1>3, <2>1, <2>2, Zenon
<1>7. fts5 => GotThrough(4, 10) = DAdds4 \cup FtsAdds
  <2>1. fts5 => GotThrough(4, 9 + 1) = AskedBy(Script(4), 9)
    BY <1>4, GotThroughAsked
  <2>2. 9 + 1 = 10
    OBVIOUS
  <2> QED
    BY <1>2, <2>1, <2>2, Zenon
<1>8. /\ GotThrough(4, 10) = {Asked(s) : s \in {x \in {C[j] : j \in 1..9} :
                                  IsAdding(x) /\ (fts5 \/ x.table # Fts)}}
      /\ GotThrough(4, 5) = {Asked(s) : s \in {x \in {C[j] : j \in 1..4} :
                                  IsAdding(x) /\ (fts5 \/ x.table # Fts)}}
  <2>1. 10 - 1 = 9 /\ 5 - 1 = 4
    OBVIOUS
  <2> QED
    BY <2>1 DEF GotThrough
<1>9. 1..4 \subseteq 1..9 /\ \A j \in 1..9 : j \in 1..4 \/ j \in {5, 6, 7, 8, 9}
  OBVIOUS
<1> HIDE DEF C
<1>10. GotThrough(4, 5) \subseteq GotThrough(4, 10)
  BY <1>8, <1>9
<1>11. ASSUME ~fts5 PROVE GotThrough(4, 10) \subseteq GotThrough(4, 5)
  <2>1. \A j \in 1..9 : IsAdding(C[j]) /\ C[j].table # Fts => j \in 1..4
    BY <1>1, <1>9
  <2> QED
    BY <1>8, <1>11, <2>1
<1> QED
  BY <1>6, <1>7, <1>10, <1>11

LEMMA Diagnosis4Sound ==
  ASSUME svc = "diagnosis", Stands(5, High(4))
  PROVE  Soundly(4)
<1> DEFINE C == Script(4)
<1>1. /\ LastVersion = 6 /\ AtHome(Low(4), LaterHomes)
      /\ High(4) = Low(4) \cup (DAdds4 \cup FtsHere)
  BY DiagnosisLevels
<1>2. Script(4) = Diagnosis4
  <2>1. Script(4) = Diagnosis[4] /\ Diagnosis[4] = Diagnosis4
    BY DiagnosisLevels DEF Diagnosis
  <2> QED
    BY <2>1
<1>3. /\ Len(C) = 9
      /\ \A j \in 1..4 : Suits(C[j], DAdds4, LaterHomes)
      /\ C[5].op = "fts5" /\ IsPlain(C[5])
      /\ \A j \in 6..9 : Suits(C[j], FtsAdds, LaterHomes)
  <2>1. C = Diagnosis4
    BY <1>2
  <2> HIDE DEF C
  <2> QED
    BY <2>1, Diagnosis4Suits
<1>4. /\ \A j \in 1..9 : Grows(C[j], Low(4) \cup (DAdds4 \cup FtsAdds))
      /\ \A j \in 1..5 : Grows(C[j], Low(4) \cup DAdds4)
  BY <1>1, <1>2, Diagnosis4Grows
<1> HIDE DEF C
<1>5. \A j \in 1..9 : j = 5 \/ j \in 1..4 \/ j \in 6..9
  OBVIOUS
<1>6. \A j \in 1..9 : j # 5 => IsPlain(C[j]) /\ C[j].op \notin {"only", "fts5"}
  <2>1. ASSUME NEW s, NEW top, NEW homes, Suits(s, top, homes)
        PROVE  IsPlain(s) /\ s.op \notin {"only", "fts5"}
    BY <2>1 DEF Suits, IsAdding
  <2> QED
    BY <1>3, <1>5, <2>1
<1>7. AllPlain(C)
  BY <1>3, <1>6 DEF AllPlain
<1>8. Low(4) \subseteq High(4) /\ High(4) \subseteq Low(4) \cup GotThrough(4, 10)
  <2>1. fts5 => DAdds4 \cup FtsHere = GotThrough(4, 10)
    BY Diagnosis4Through DEF FtsHere
  <2>2. ~fts5 => DAdds4 \cup FtsHere \subseteq GotThrough(4, 10)
    BY Diagnosis4Through DEF FtsHere
  <2> QED
    BY <1>1, <2>1, <2>2
<1>9. \A j \in 1..9 : fts5 \/ ~ReachedFts(4, j) => Grows(C[j], High(4))
  <2>1. CASE fts5
    <3>1. High(4) = Low(4) \cup (DAdds4 \cup FtsAdds)
      BY <1>1, <2>1 DEF FtsHere
    <3> QED
      BY <1>4, <3>1
  <2>2. CASE ~fts5
    <3>1. High(4) = Low(4) \cup DAdds4
      BY <1>1, <2>2 DEF FtsHere
    <3>2. \A j \in 1..9 : ~ReachedFts(4, j) => j \in 1..5
      BY DEF ReachedFts
    <3> QED
      BY <1>4, <2>2, <3>1, <3>2
  <2> QED
    BY <2>1, <2>2
<1>10. IsGrowing(4) /\ 4 \in 1..LastVersion /\ 9 + 1 = 10 /\ 4 + 1 = 5
  BY <1>1 DEF IsGrowing
<1>11. ~fts5 => GotThrough(4, 10) \subseteq GotThrough(4, 5)
  BY Diagnosis4Through
<1>12. C = Script(4)
  BY DEF C
<1>13. GrowingScript(4)
  <2>1. Len(Script(4)) \in Nat /\ AllPlain(Script(4)) /\ Len(Script(4)) = 9
    BY <1>3, <1>7, <1>12
  <2>2. High(4) \subseteq Low(4) \cup GotThrough(4, Len(Script(4)) + 1)
    BY <1>8, <1>10, <2>1
  <2>3. \A j \in 1..Len(Script(4)) :
          /\ fts5 \/ ~ReachedFts(4, j) => Grows(Script(4)[j], High(4))
          /\ Script(4)[j].op # "only"
          /\ Script(4)[j].op = "fts5" => svc = "diagnosis" /\ j = 5 /\ Len(Script(4)) = 9
    BY <1>3, <1>6, <1>9, <1>12, <2>1
  <2>4. Script(4)[5].op = "fts5"
    BY <1>3, <1>12
  <2>5. Stands(4 + 1, High(4))
    BY <1>10
  <2> QED
    BY <1>8, <1>10, <1>11, <2>1, <2>2, <2>3, <2>4, <2>5 DEF GrowingScript
<1> QED
  BY <1>13, GrowingSound DEF Services

LEMMA DiagnosisBased ==
  ASSUME svc = "diagnosis"
  PROVE  Based
  BY DiagnosisGrows, GrowingBased

\* Each version begins with what the one before leaves.
LEMMA DiagnosisStands ==
  ASSUME svc = "diagnosis", NEW m \in 1..6
  PROVE  Stands(m + 1, High(m))
<1>1. /\ LastVersion = 6 /\ Low(2) = DAdds1
      /\ High(1) = DAdds1 /\ Low(1) = {} /\ High(3) = Low(3) \cup DAdds3
      /\ High(4) = Low(4) \cup (DAdds4 \cup FtsHere) /\ High(5) = Low(5) \cup DAdds5
  BY DiagnosisLevels
<1>2. IsGrowing(m + 1) => m + 1 \in {1, 3, 4, 5}
  BY DEF IsGrowing
<1>3. \A k \in {1, 3, 4, 5} : Low(k) \subseteq High(k)
  BY <1>1
<1>4. IsGrowing(m + 1) => Low(m + 1) \subseteq High(m + 1)
  BY <1>2, <1>3
<1>5. Made(2, 9) = Unsplit
  <2>1. Script(2) = Diagnosis2
    <3>1. Script(2) = Diagnosis[2] /\ Diagnosis[2] = Diagnosis2
      BY DiagnosisLevels DEF Diagnosis
    <3> QED
      BY <3>1
  <2> QED
    BY <1>1, <2>1, Diagnosis2Passed DEF Made
<1>6. Low(2) \subseteq Made(2, 9)
  BY <1>1, <1>5 DEF Unsplit
<1>7. High(6) \subseteq Low(6) /\ \A t \in CaseTables : TheTable(t) \in Low(6)
  BY Diagnosis6Levels DEF NoCases
<1> QED
  BY <1>1, <1>4, <1>6, <1>7, NextStands

LEMMA DiagnosisGrowingSound ==
  ASSUME svc = "diagnosis", NEW m \in {1, 3, 4, 5}
  PROVE  Soundly(m)
<1>1. LastVersion = 6
  BY DiagnosisLevels
<1>2. CASE m = 4
  <2>1. 4 \in 1..6 /\ 4 + 1 = 5
    OBVIOUS
  <2>2. Stands(4 + 1, High(4))
    BY <2>1, DiagnosisStands
  <2>3. Stands(5, High(4))
    BY <2>1, <2>2, Zenon
  <2> QED
    BY <1>2, <2>3, Diagnosis4Sound
<1>3. CASE m \in {1, 3, 5}
  <2>1. m \in 1..6 /\ m \in 1..LastVersion /\ m # 4 /\ svc \in Services /\ IsGrowing(m)
    BY <1>1, <1>3 DEF Services, IsGrowing
  <2>2. Stands(m + 1, High(m))
    BY <2>1, DiagnosisStands
  <2>3. /\ GrowsFrom(Script(m), Low(m)) /\ AllPlain(Script(m)) /\ NoOnly(Script(m))
        /\ High(m) = Low(m) \cup AskedBy(Script(m), Len(Script(m)))
        /\ \A o \in AskedBy(Script(m), Len(Script(m))) : o[1] # Fts
    BY <1>3, DiagnosisGrows
  <2> QED
    BY <2>1, <2>2, <2>3, GrowsFromSound DEF NoOnly
<1> QED
  BY <1>2, <1>3

-----------------------------------------------------------------------------
(* The split of device_status.                                              *)

\* What a process has there that is at statement i, before the table is put
\* aside.
Splitting(i, e, v) ==
  /\ DAdds1 \subseteq v /\ v \subseteq Unsplit /\ e \subseteq v /\ GotThrough(2, i) \subseteq v
  /\ i < 11 /\ (i = 8 => OldTable \in e)

LEMMA SplittingIs ==
  ASSUME svc = "diagnosis"
  PROVE  /\ \A h : Stands(2, h) <=> (DAdds1 \subseteq h /\ h \subseteq Unsplit) \/ h = Split
         /\ \A i, e, h, v, o :
               Held(2, i, e, h, v, o) <=> /\ Splitting(i, e, v) \/ v = Split
                                          /\ o => i \in {10, 11} /\ (i = 10 => v = h)
         /\ \A i : ~IsAlone(2, i)
         /\ Script(2) = Diagnosis2 /\ Made(2, 9) = Unsplit
         /\ GotThrough(2, 10) = DAdds2
<1>1. /\ LastVersion = 6 /\ Low(2) = DAdds1 /\ High(2) = Split
  BY DiagnosisLevels
<1>2. Script(2) = Diagnosis2
  <2>1. Script(2) = Diagnosis[2] /\ Diagnosis[2] = Diagnosis2
    BY DiagnosisLevels DEF Diagnosis
  <2> QED
    BY <2>1
<1>3. Made(2, 9) = Unsplit
  BY <1>1, <1>2, Diagnosis2Passed DEF Made
<1>4. ~IsGrowing(2)
  BY DEF IsGrowing
<1>5. \A h : Stands(2, h) <=> (DAdds1 \subseteq h /\ h \subseteq Unsplit) \/ h = Split
  BY <1>1, <1>3, <1>4 DEF Stands
<1>6. \A i, e, h, v, o :
         Held(2, i, e, h, v, o) <=> /\ Splitting(i, e, v) \/ v = Split
                                    /\ o => i \in {10, 11} /\ (i = 10 => v = h)
  BY <1>1, <1>3, <1>4 DEF Held, Splitting
<1>7. \A i : ~IsAlone(2, i)
  BY DEF IsAlone
<1>8. GotThrough(2, 10) = DAdds2
  <2>1. Len(Script(2)) = 11
    BY <1>2, Diagnosis2Statements
  <2>2. Len(Script(2)) \in Nat /\ 9 \in 0..Len(Script(2)) /\ 9 + 1 = 10
    BY <2>1
  <2>3. AskedBy(Script(2), 9) = DAdds2
    BY <1>2, Diagnosis2Suits
  <2>4. \A o \in AskedBy(Script(2), 9) : o[1] # Fts
    BY <2>3, SplitIs
  <2>5. GotThrough(2, 9 + 1) = AskedBy(Script(2), 9)
    BY <2>2, <2>4, GotThroughAsked
  <2> QED
    BY <2>2, <2>3, <2>5, Zenon
<1> QED
  BY <1>2, <1>3, <1>5, <1>6, <1>7, <1>8

\* A change to the schema that it ends with, or to more of the first one.
LEMMA SplittingChanges ==
  ASSUME svc = "diagnosis", NEW i, NEW j, NEW e, NEW h, NEW h2, Stands(2, h),
         \/ h2 = Split
         \/ /\ DAdds1 \subseteq h /\ h \subseteq h2 /\ h2 \subseteq Unsplit
            /\ Splitting(j, e, h2)
  PROVE  Changes(2, i, h, j, e, h2)
<1>1. /\ \A x : Stands(2, x) <=> (DAdds1 \subseteq x /\ x \subseteq Unsplit) \/ x = Split
      /\ \A k, d, x : Held(2, k, d, x, x, FALSE) <=> Splitting(k, d, x) \/ x = Split
      /\ \A k : ~IsAlone(2, k)
  BY SplittingIs
<1>2. ArrivesAlone(2, i, h, j)
  BY <1>1 DEF ArrivesAlone
<1>3. Held(2, j, e, h2, h2, FALSE)
  BY <1>1
<1>4. Stands(2, h2)
  <2>1. h2 = Split \/ (DAdds1 \subseteq h2 /\ h2 \subseteq Unsplit)
    OBVIOUS
  <2> QED
    BY <1>1, <2>1
<1>5. Carries(2, i, h, h2)
  <2>1. CASE h2 = Split
    BY <1>1, <2>1 DEF Carries
  <2>2. CASE h2 # Split
    <3>1. h # Split
      BY <2>2, SplitIs
    <3>2. ASSUME NEW k, NEW d, Held(2, k, d, h, h, FALSE) PROVE Held(2, k, d, h2, h2, FALSE)
      <4>1. Splitting(k, d, h)
        BY <1>1, <3>1, <3>2
      <4>2. Splitting(k, d, h2)
        BY <2>2, <4>1 DEF Splitting
      <4> QED
        BY <1>1, <4>2
    <3> QED
      BY <3>2 DEF Carries
  <2> QED
    BY <2>1, <2>2
<1> QED
  BY <1>2, <1>3, <1>4, <1>5 DEF Changes

\* The statements before the one that looks for the table.
LEMMA SplittingAdds ==
  ASSUME svc = "diagnosis", NEW i \in 1..7, NEW seen, NEW h, Stands(2, h),
         Held(2, i, seen, h, h, FALSE)
  PROVE  Does(2, i, seen, h, h, FALSE)
<1> DEFINE s == Diagnosis2[i]
<1>0. s = Script(2)[i]
  BY SplittingIs
<1>1. /\ \A k, d, x, w : Held(2, k, d, x, w, FALSE) <=> Splitting(k, d, w) \/ w = Split
      /\ \A k : ~IsAlone(2, k)
  BY SplittingIs
<1>2. Suits(s, DAdds2, LaterHomes) /\ Grows(s, Unsplit)
  <2>1. i \in {1, 2, 3, 4, 5, 6, 7} /\ i \in 1..9
    OBVIOUS
  <2> QED
    BY <2>1, Diagnosis2Suits, Diagnosis2Passed
<1>3. i = 7 => s.op = "read" /\ s.table = "device_status"
  BY Diagnosis2Suits
<1>4. s.op \in {"read", "create", "part", "column"}
  <2>1. LET C == Diagnosis2
        IN  /\ C[1].op = "read" /\ C[2].op = "column" /\ C[3].op = "create" /\ C[4].op = "create"
            /\ C[5].op = "part" /\ C[6].op = "part" /\ C[7].op = "read"
    BY Diagnosis2Statements, AddFields, OtherFields
  <2>2. i \in {1, 2, 3, 4, 5, 6, 7}
    OBVIOUS
  <2> QED
    BY <2>1, <2>2
<1>5. /\ ~IsAdding(s) => GotThrough(2, i + 1) \subseteq GotThrough(2, i)
      /\ GotThrough(2, i + 1) \subseteq GotThrough(2, i) \cup {Asked(s)}
  BY <1>0, GotThroughNext
<1> HIDE DEF s
<1>6. IsAdding(s) <=> s.op # "read"
  BY <1>4 DEF IsAdding
<1>7. Splitting(i, seen, h) \/ h = Split
  BY <1>1
<1>8. s.op = "read" => Goes(2, i, h, i + 1, Of(s.table, h), h, FALSE)
  <2>1. SUFFICES ASSUME s.op = "read" PROVE Splitting(i + 1, Of(s.table, h), h) \/ h = Split
    BY <1>1 DEF Goes
  <2>2. SUFFICES ASSUME h # Split PROVE Splitting(i + 1, Of(s.table, h), h)
    OBVIOUS
  <2>3. Of(s.table, h) \subseteq h
    BY DEF Of
  <2>4. i + 1 = 8 => OldTable \in Of(s.table, h)
    <3>1. OldTable \in h /\ OldTable[1] = "device_status"
      BY <1>7, <2>2, SplitIs, TableIs DEF Splitting, OldTable
    <3>2. i + 1 = 8 => i = 7
      OBVIOUS
    <3> QED
      BY <1>3, <3>1, <3>2 DEF Of
  <2> QED
    BY <1>5, <1>6, <1>7, <2>1, <2>2, <2>3, <2>4 DEF Splitting
<1>9. IsIdle(s, h, seen) => Goes(2, i, h, i + 1, seen, h, FALSE)
  <2>1. SUFFICES ASSUME IsIdle(s, h, seen) PROVE Splitting(i + 1, seen, h) \/ h = Split
    BY <1>1 DEF Goes
  <2>2. SUFFICES ASSUME Splitting(i, seen, h) PROVE Splitting(i + 1, seen, h)
    BY <1>7
  <2>3. IsAdding(s) /\ Asked(s) \in h
    BY <1>2, <2>1, <2>2, GrowingStep DEF Splitting
  <2>4. i # 7
    BY <1>3, <1>6, <2>3
  <2> QED
    BY <1>5, <2>2, <2>3, <2>4 DEF Splitting
<1>10. Applies(s, h, seen) => Changes(2, i, h, i + 1, seen, SchemaAfter(s, h))
  <2>1. SUFFICES ASSUME Applies(s, h, seen) PROVE Changes(2, i, h, i + 1, seen, SchemaAfter(s, h))
    OBVIOUS
  <2>2. IsAdding(s)
    BY <1>4, <2>1 DEF Applies, IsSchema, IsAdding
  <2>3. SchemaAfter(s, h) = h \cup Gained(s)
    BY <2>2, AddsGained
  <2>4. CASE h = Split
    <3>1. Gained(s) \subseteq DAdds2
      BY <1>2, <2>2 DEF Suits, IsAdding
    <3>2. SchemaAfter(s, h) = Split
      BY <2>3, <2>4, <3>1, SplitIs
    <3> QED
      BY <3>2, SplittingChanges
  <2>5. CASE Splitting(i, seen, h)
    <3>1. Gained(s) \subseteq Unsplit /\ Asked(s) \in Gained(s)
      BY <1>2, <2>2, <2>5, GrowingStep DEF Splitting
    <3>2. i # 7
      BY <1>3, <1>6, <2>2
    <3> DEFINE h2 == SchemaAfter(s, h)
    <3>3. DAdds1 \subseteq h /\ h \subseteq h2 /\ h2 \subseteq Unsplit /\ Asked(s) \in h2
      BY <2>3, <2>5, <3>1 DEF Splitting
    <3> HIDE DEF h2
    <3>4. Splitting(i + 1, seen, h2)
      BY <1>5, <2>5, <3>2, <3>3 DEF Splitting
    <3>5. Changes(2, i, h, i + 1, seen, h2)
      BY <3>3, <3>4, SplittingChanges
    <3> QED
      BY <3>5 DEF h2
  <2> QED
    BY <1>7, <2>4, <2>5
<1>11. ~IsRows(s) /\ s.op \notin {"only", "fts5", "commit"}
  BY <1>4 DEF IsRows
<1> QED
  BY <1>0, <1>8, <1>9, <1>10, <1>11 DEF Does

LEMMA Diagnosis2Sound ==
  ASSUME svc = "diagnosis"
  PROVE  Soundly(2)
<1> DEFINE Is(i, e, h, v, o) == /\ Splitting(i, e, v) \/ v = Split
                                /\ o => i \in {10, 11} /\ (i = 10 => v = h)
<1>1. /\ \A h : Stands(2, h) <=> (DAdds1 \subseteq h /\ h \subseteq Unsplit) \/ h = Split
      /\ \A i, e, h, v, o : Held(2, i, e, h, v, o) <=> Is(i, e, h, v, o)
      /\ \A i : ~IsAlone(2, i)
      /\ Script(2) = Diagnosis2
      /\ GotThrough(2, 10) = DAdds2
  BY SplittingIs
<1>2. Len(Diagnosis2) = 11 /\ High(2) = Split
  BY Diagnosis2Statements, DiagnosisLevels
<1>3. AllPlain(Diagnosis2)
  <2>1. \A j \in 1..11 : j \in {1, 2, 3, 4, 5, 6, 7, 9, 11} \/ j = 8 \/ j = 10
    OBVIOUS
  <2>2. \A s : Suits(s, DAdds2, LaterHomes) => IsPlain(s)
    BY DEF Suits
  <2>3. \A j \in 1..11 : IsPlain(Diagnosis2[j])
    BY <2>1, <2>2, Diagnosis2Suits
  <2> QED
    BY <1>2, <2>3 DEF AllPlain
<1>4. \A h : Stands(2, h) => Held(2, 1, {}, h, h, FALSE) /\ ~IsAlone(2, 1)
  <2>1. SUFFICES ASSUME NEW h, Stands(2, h) PROVE Is(1, {}, h, h, FALSE)
    BY <1>1
  <2>2. GotThrough(2, 1) = {}
    BY GotThroughNext
  <2> QED
    BY <1>1, <2>1, <2>2 DEF Splitting
<1>5. ASSUME NEW seen, NEW h, NEW v, NEW open, Held(2, 12, seen, h, v, open)
      PROVE  Stands(3, v)
  <2>1. v = Split
    BY <1>1, <1>5 DEF Splitting
  <2>2. Stands(2 + 1, High(2)) /\ 2 + 1 = 3
    BY DiagnosisStands
  <2> QED
    BY <1>2, <2>1, <2>2
<1>6. ASSUME NEW i \in 1..11, NEW open \in BOOLEAN, NEW seen, NEW h, NEW v,
             Stands(2, h), Held(2, i, seen, h, v, open), open \/ v = h
      PROVE  Does(2, i, seen, h, v, open)
  <2> DEFINE s == Diagnosis2[i]
  <2>1. Is(i, seen, h, v, open) /\ Script(2)[i] = s
    BY <1>1, <1>6
  <2>2. CASE i \in 1..7
    <3>1. open = FALSE /\ v = h
      BY <1>6, <2>1, <2>2
    <3> QED
      BY <1>6, <2>2, <3>1, SplittingAdds
  <2>3. CASE i = 8
    <3>1. s.op = "only" /\ s.table = "device_status" /\ s.names = {Blank}
      BY <2>3, Diagnosis2Suits
    <3>2. open = FALSE /\ v = h
      BY <1>6, <2>1, <2>3
    <3>3. Splitting(8, seen, v) => IsOn(s, seen) /\ Splitting(9, seen, v)
      <4>1. IsOn(s, seen) <=> Parts("device_status", {Blank}) \cap seen # {}
        BY <3>1 DEF IsOn
      <4>2. OldTable \in Parts("device_status", {Blank})
        BY TableIs DEF OldTable, Parts
      <4>3. GotThrough(2, 9) \subseteq GotThrough(2, 8)
        <5>1. ~IsAdding(Script(2)[8])
          BY <2>1, <2>3, <3>1 DEF IsAdding
        <5>2. GotThrough(2, 8 + 1) \subseteq GotThrough(2, 8) /\ 8 + 1 = 9
          BY <5>1, GotThroughNext
        <5> QED
          BY <5>2
      <4> QED
        BY <4>1, <4>2, <4>3 DEF Splitting
    <3> DEFINE to == IF IsOn(s, seen) THEN i + 1 ELSE Len(Script(2)) + 1
    <3>4. IsOn(s, seen) => to = 9
      BY <2>3
    <3> HIDE DEF to, s
    <3>5. Is(to, seen, h, v, open)
      BY <2>1, <2>3, <3>2, <3>3, <3>4
    <3>6. Goes(2, i, h, to, seen, v, open)
      BY <1>1, <3>5 DEF Goes
    <3>7. ~IsIdle(s, v, seen) /\ ~IsRows(s) /\ ~Applies(s, v, seen)
      BY <3>1 DEF IsIdle, IsRows, Applies, IsSchema
    <3> QED
      BY <2>1, <3>1, <3>6, <3>7 DEF Does, to
  <2>4. CASE i = 9
    <3>1. s.op = "newest"
      BY <2>4, Diagnosis2Suits
    <3>2. open = FALSE /\ v = h
      BY <1>6, <2>1, <2>4
    <3>3. GotThrough(2, 10) \subseteq GotThrough(2, 9)
      <4>1. ~IsAdding(Script(2)[9])
        BY <2>1, <2>4, <3>1 DEF IsAdding
      <4>2. GotThrough(2, 9 + 1) \subseteq GotThrough(2, 9) /\ 9 + 1 = 10
        BY <4>1, GotThroughNext
      <4> QED
        BY <4>2
    <3>4. Splitting(9, seen, v) => Splitting(10, seen, v)
      BY <3>3 DEF Splitting
    <3>5. Is(10, seen, h, v, TRUE) /\ Is(10, seen, h, v, FALSE)
      BY <2>1, <2>4, <3>2, <3>4
    <3>6. Goes(2, i, h, i + 1, seen, v, TRUE) /\ Goes(2, i, h, i + 1, seen, v, open)
      <4>1. i + 1 = 10
        BY <2>4
      <4> HIDE DEF Is
      <4> QED
        BY <1>1, <3>2, <3>5, <4>1 DEF Goes
    <3> HIDE DEF s
    <3>7. ~IsIdle(s, v, seen) /\ ~Applies(s, v, seen)
      BY <3>1 DEF IsIdle, Applies, IsSchema
    <3> QED
      BY <2>1, <3>1, <3>6, <3>7 DEF Does
  <2>5. CASE i = 10
    <3>1. s.op = "rename" /\ s.table = "device_status" /\ s.names = {"device_status_legacy"}
      BY <2>5, Diagnosis2Suits
    <3>2. IsError(s, v) \/ SchemaAfter(s, v) = Split
      <4>1. SUFFICES ASSUME ~IsError(s, v) PROVE SchemaAfter(s, v) = Split
        OBVIOUS
      <4>2. OldTable \in v
        BY <3>1, <4>1 DEF IsError, OldTable
      <4>3. v = Unsplit
        BY <1>1, <2>1, <2>5, <4>2, SplitIs DEF Splitting, Unsplit
      <4>4. Through(s, Unsplit) = Split
        <5>1. 10 - 1 = 9 /\ 10 \in 1..11
          OBVIOUS
        <5>2. Passed(Diagnosis2, DAdds1)[10] = Through(Diagnosis2[10], Passed(Diagnosis2, DAdds1)[9])
          BY <5>1, Diagnosis2Passed
        <5> QED
          BY <2>5, <5>2, Diagnosis2Passed
      <4>5. ~IsIdle(s, Unsplit, Unsplit)
        BY <3>1 DEF IsIdle
      <4> QED
        BY <4>3, <4>4, <4>5 DEF Through
    <3>3. Is(11, seen, h, Split, TRUE)
      OBVIOUS
    <3>4. Goes(2, i, h, i + 1, seen, Split, TRUE)
      <4>1. i + 1 = 11
        BY <2>5
      <4> HIDE DEF Is
      <4> QED
        BY <1>1, <3>3, <4>1 DEF Goes
    <3>5. Changes(2, i, h, i + 1, seen, Split)
      BY <1>6, SplittingChanges
    <3> HIDE DEF s
    <3>6. ~IsIdle(s, v, seen) /\ ~IsRows(s)
      BY <3>1 DEF IsIdle, IsRows
    <3>7. Applies(s, v, seen) => SchemaAfter(s, v) = Split
      BY <3>2 DEF Applies
    <3> QED
      BY <2>1, <3>1, <3>4, <3>5, <3>6, <3>7 DEF Does
  <2>6. CASE i = 11
    <3>1. s.op = "commit"
      BY <2>6, Diagnosis2Suits
    <3>2. v = Split
      BY <2>1, <2>6 DEF Splitting
    <3>3. Changes(2, i, h, i + 1, seen, v)
      BY <1>6, <3>2, SplittingChanges
    <3> HIDE DEF s
    <3>4. ~IsIdle(s, v, seen) /\ ~Applies(s, v, seen) /\ ~IsRows(s)
      BY <3>1 DEF IsIdle, Applies, IsSchema, IsRows
    <3> QED
      BY <2>1, <3>1, <3>3, <3>4 DEF Does
  <2>7. i \in 1..7 \/ i \in {8, 9, 10, 11}
    OBVIOUS
  <2> QED
    BY <2>2, <2>3, <2>4, <2>5, <2>6, <2>7
<1>7. 2 + 1 = 3 /\ 11 + 1 = 12 /\ Len(Script(2)) = 11
  BY <1>1, <1>2
<1>8. Len(Script(2)) \in Nat /\ AllPlain(Script(2))
  BY <1>1, <1>3, <1>7
<1> QED
  BY <1>4, <1>5, <1>6, <1>7, <1>8 DEF Soundly

-----------------------------------------------------------------------------
(* The end of the fault cases.                                              *)

\* No part of a case table is left without the table, and what is not theirs
\* is there.
CasesStand(h) ==
  /\ NoCases(Low(6)) \subseteq h /\ h \subseteq Low(6)
  /\ \A t \in CaseTables : TheTable(t) \notin h => Of(t, h) = {}
CasesHeld(i, h) ==
  /\ i > 1 => Of("fault_case_feedback", h) = {}
  /\ i > 6 => Of("fault_case", h) = {}

LEMMA CasesAre ==
  ASSUME svc = "diagnosis"
  PROVE  /\ \A h : Stands(6, h) <=> CasesStand(h)
         /\ \A i, e, h, v, o : Held(6, i, e, h, v, o) <=> CasesHeld(i, h) /\ v = h
         /\ \A i : ~IsAlone(6, i)
         /\ Script(6) = Diagnosis6 /\ High(6) = NoCases(Low(6))
<1>1. LastVersion = 6 /\ High(6) = NoCases(Low(6))
  BY DiagnosisLevels, Diagnosis6Levels
<1>2. Script(6) = Diagnosis6
  <2>1. Script(6) = Diagnosis[6] /\ Diagnosis[6] = Diagnosis6
    BY DiagnosisLevels DEF Diagnosis
  <2> QED
    BY <2>1
<1>3. ~IsGrowing(6)
  BY DEF IsGrowing
<1>4. \A h : Stands(6, h) <=> CasesStand(h)
  BY <1>1, <1>3 DEF Stands, CasesStand
<1>5. \A i, e, h, v, o : Held(6, i, e, h, v, o) <=> CasesHeld(i, h) /\ v = h
  BY <1>3 DEF Held, CasesHeld
<1>6. \A i : ~IsAlone(6, i)
  BY DEF IsAlone
<1> QED
  BY <1>1, <1>2, <1>4, <1>5, <1>6

LEMMA CasesChange ==
  ASSUME svc = "diagnosis", NEW i, NEW j, NEW e, NEW h, NEW h2,
         CasesStand(h2), CasesHeld(j, h2), h2 \subseteq h
  PROVE  Changes(6, i, h, j, e, h2)
<1>1. /\ \A x : Stands(6, x) <=> CasesStand(x)
      /\ \A k, d, x, o : Held(6, k, d, x, x, o) <=> CasesHeld(k, x)
      /\ \A k : ~IsAlone(6, k)
  BY CasesAre
<1>2. Stands(6, h2) /\ Held(6, j, e, h2, h2, FALSE)
  BY <1>1
<1>3. \A k : CasesHeld(k, h) => CasesHeld(k, h2)
  BY DEF CasesHeld, Of
<1>4. Carries(6, i, h, h2) /\ ArrivesAlone(6, i, h, j)
  BY <1>1, <1>3 DEF Carries, ArrivesAlone
<1> QED
  BY <1>2, <1>4 DEF Changes

\* A case table goes, or one of its indexes.
LEMMA CaseTableGoes ==
  ASSUME NEW h, CasesStand(h), NEW t \in CaseTables
  PROVE  /\ CasesStand(h \ Of(t, h)) /\ Of(t, h \ Of(t, h)) = {}
         /\ \A x : x # Blank => CasesStand(h \ {<<t, x>>})
<1>1. \A u : TheTable(u) = <<u, Blank>>
  BY TableIs
<1>2. ASSUME NEW o \in NoCases(Low(6)) PROVE o \in h /\ o[1] # t
  BY <1>2 DEF CasesStand, NoCases
<1>3. NoCases(Low(6)) \subseteq h \ Of(t, h)
  BY <1>2 DEF Of
<1>4. \A u : Of(u, h \ Of(t, h)) = IF u = t THEN {} ELSE Of(u, h)
  BY DEF Of
<1>5. \A u \in CaseTables : TheTable(u) \notin h \ Of(t, h) => Of(u, h \ Of(t, h)) = {}
  <2> SUFFICES ASSUME NEW u \in CaseTables, TheTable(u) \notin h \ Of(t, h), u # t
               PROVE  Of(u, h) = {}
    BY <1>4
  <2>1. TheTable(u) \notin Of(t, h)
    BY <1>1 DEF Of
  <2> QED
    BY <2>1 DEF CasesStand
<1>6. CasesStand(h \ Of(t, h))
  BY <1>3, <1>5 DEF CasesStand
<1>7. ASSUME NEW x, x # Blank PROVE CasesStand(h \ {<<t, x>>})
  <2>1. NoCases(Low(6)) \subseteq h \ {<<t, x>>}
    BY <1>2
  <2>2. \A u : TheTable(u) # <<t, x>>
    BY <1>1, <1>7
  <2>3. \A u : Of(u, h \ {<<t, x>>}) \subseteq Of(u, h)
    BY DEF Of
  <2> QED
    BY <2>1, <2>2, <2>3 DEF CasesStand
<1> QED
  BY <1>4, <1>6, <1>7

LEMMA Diagnosis6Drops ==
  ASSUME svc = "diagnosis", NEW i \in 1..6, NEW seen, NEW h, CasesStand(h), CasesHeld(i, h)
  PROVE  Does(6, i, seen, h, h, FALSE)
<1> DEFINE s == Diagnosis6[i]
           fb == "fault_case_feedback"
           fc == "fault_case"
<1>0. s = Script(6)[i] /\ \A k, d, x, o : Held(6, k, d, x, x, o) <=> CasesHeld(k, x)
  BY CasesAre
<1>1. s.op = "drop" /\ s.strict = FALSE
  BY Diagnosis6Statements
<1>2. /\ i = 1 => s.table = fb /\ s.names = {Blank}
      /\ i \in 2..5 => s.table = fc /\ \E x : x # Blank /\ s.names = {x}
      /\ i = 6 => s.table = fc /\ s.names = {Blank}
  BY Diagnosis6Statements
<1>3. i = 1 \/ i \in 2..5 \/ i = 6
  OBVIOUS
<1>4. fb \in CaseTables /\ fc \in CaseTables /\ fb # fc
  BY DEF CaseTables
<1> HIDE DEF s, fb, fc
<1>5. /\ IsIdle(s, h, seen) => CasesHeld(i + 1, h)
      /\ /\ CasesStand(SchemaAfter(s, h)) /\ CasesHeld(i + 1, SchemaAfter(s, h))
         /\ SchemaAfter(s, h) \subseteq h
  <2>1. CASE i = 1
    <3>1. SchemaAfter(s, h) = h \ Of(fb, h) /\ (IsIdle(s, h, seen) => <<fb, Blank>> \notin h)
      BY <1>1, <1>2, <2>1, DropsTable
    <3>2. CasesStand(h \ Of(fb, h)) /\ Of(fb, h \ Of(fb, h)) = {}
      BY <1>4, CaseTableGoes
    <3>3. <<fb, Blank>> \notin h => Of(fb, h) = {}
      BY <1>4, TableIs DEF CasesStand
    <3>4. \A x : Of(fb, x) = {} => CasesHeld(2, x)
      BY DEF CasesHeld, fb
    <3>5. i + 1 = 2
      BY <2>1
    <3> QED
      BY <3>1, <3>2, <3>3, <3>4, <3>5
  <2>2. CASE i \in 2..5
    <3>1. PICK x : x # Blank /\ s.names = {x}
      BY <1>2, <2>2
    <3>2. SchemaAfter(s, h) = h \ {<<fc, x>>}
      BY <1>1, <1>2, <2>2, <3>1, DropsPart
    <3>3. CasesStand(h \ {<<fc, x>>})
      BY <1>4, <3>1, CaseTableGoes
    <3>4. Of("fault_case_feedback", h) = {}
      BY <2>2 DEF CasesHeld
    <3>5. \A y : y \subseteq h => CasesHeld(i + 1, y)
      <4>1. ~(i + 1 > 6)
        BY <2>2
      <4>2. \A y : y \subseteq h => Of("fault_case_feedback", y) = {}
        BY <3>4 DEF Of
      <4> QED
        BY <4>1, <4>2 DEF CasesHeld
    <3> QED
      BY <3>2, <3>3, <3>5
  <2>3. CASE i = 6
    <3>1. SchemaAfter(s, h) = h \ Of(fc, h) /\ (IsIdle(s, h, seen) => <<fc, Blank>> \notin h)
      BY <1>1, <1>2, <2>3, DropsTable
    <3>2. CasesStand(h \ Of(fc, h)) /\ Of(fc, h \ Of(fc, h)) = {}
      BY <1>4, CaseTableGoes
    <3>3. <<fc, Blank>> \notin h => Of(fc, h) = {}
      BY <1>4, TableIs DEF CasesStand
    <3>4. Of(fb, h) = {}
      BY <2>3 DEF CasesHeld, fb
    <3>5. \A x : x \subseteq h /\ Of(fc, x) = {} => CasesHeld(i + 1, x)
      <4>1. \A x : x \subseteq h => Of(fb, x) = {}
        BY <3>4 DEF Of
      <4> QED
        BY <4>1 DEF CasesHeld, fb, fc
    <3> QED
      BY <3>1, <3>2, <3>3, <3>5
  <2> QED
    BY <1>3, <2>1, <2>2, <2>3
<1>6. IsIdle(s, h, seen) => Goes(6, i, h, i + 1, seen, h, FALSE)
  <2>1. ~IsAlone(6, i + 1)
    BY CasesAre
  <2> QED
    BY <1>0, <1>5, <2>1 DEF Goes
<1>7. Changes(6, i, h, i + 1, seen, SchemaAfter(s, h))
  BY <1>5, CasesChange
<1>8. ~IsRows(s) /\ s.op \notin {"read", "only", "fts5", "commit"}
  BY <1>1 DEF IsRows
<1> QED
  BY <1>0, <1>6, <1>7, <1>8 DEF Does

LEMMA Diagnosis6Sound ==
  ASSUME svc = "diagnosis"
  PROVE  Soundly(6)
<1>1. /\ \A h : Stands(6, h) <=> CasesStand(h)
      /\ \A i, e, h, v, o : Held(6, i, e, h, v, o) <=> CasesHeld(i, h) /\ v = h
      /\ \A i : ~IsAlone(6, i)
      /\ Script(6) = Diagnosis6 /\ High(6) = NoCases(Low(6))
  BY CasesAre
<1>2. Len(Script(6)) = 7 /\ AllPlain(Script(6)) /\ 7 + 1 = 8 /\ 6 + 1 = 7
  BY <1>1, Diagnosis6Statements
<1>3. ASSUME NEW h, Stands(6, h) PROVE Held(6, 1, {}, h, h, FALSE) /\ ~IsAlone(6, 1)
  <2>1. CasesHeld(1, h)
    BY DEF CasesHeld
  <2> QED
    BY <1>1, <2>1
<1>4. ASSUME NEW seen, NEW h, NEW v, NEW open, Stands(6, h), Held(6, 8, seen, h, v, open)
      PROVE  Stands(7, v)
  <2>1. CasesStand(h) /\ v = h /\ CasesHeld(8, h)
    BY <1>1, <1>4
  <2>2. Of("fault_case_feedback", h) = {} /\ Of("fault_case", h) = {}
    BY <2>1 DEF CasesHeld
  <2>3. h = NoCases(Low(6))
    BY <2>1, <2>2 DEF CasesStand, NoCases, CaseTables, Of
  <2>4. Stands(6 + 1, High(6))
    BY DiagnosisStands
  <2> QED
    BY <1>1, <1>2, <2>1, <2>3, <2>4
<1>5. ASSUME NEW i \in 1..7, NEW open \in BOOLEAN, NEW seen, NEW h, NEW v,
             Stands(6, h), Held(6, i, seen, h, v, open), open <=> i = 8
      PROVE  Does(6, i, seen, h, v, open)
  <2>1. CasesStand(h) /\ v = h /\ CasesHeld(i, h) /\ open = FALSE
    BY <1>1, <1>5
  <2>2. CASE i \in 1..6
    BY <2>1, <2>2, Diagnosis6Drops
  <2>3. CASE i = 7
    <3> DEFINE s == Script(6)[i]
    <3>1. s.op = "cancel"
      BY <1>1, <2>3, Diagnosis6Statements
    <3>2. CasesHeld(i + 1, h)
      BY <2>1, <2>3 DEF CasesHeld
    <3>3. Goes(6, i, h, i + 1, seen, v, TRUE)
      BY <1>1, <2>1, <3>2 DEF Goes
    <3> HIDE DEF s
    <3>4. ~IsIdle(s, v, seen) /\ ~Applies(s, v, seen)
      BY <3>1 DEF IsIdle, Applies, IsSchema
    <3> QED
      BY <3>1, <3>3, <3>4 DEF Does, s
  <2>4. i \in 1..6 \/ i = 7
    OBVIOUS
  <2> QED
    BY <2>2, <2>3, <2>4
<1>6. Len(Script(6)) \in Nat /\ 1..Len(Script(6)) = 1..7 /\ Len(Script(6)) + 1 = 8
  <2>1. \A n : n = 7 => n \in Nat /\ 1..n = 1..7 /\ n + 1 = 8
    OBVIOUS
  <2>2. Len(Script(6)) = 7
    BY <1>2, Zenon
  <2> QED
    BY <2>1, <2>2, Zenon
<1>7. \A i \in 1..Len(Script(6)), open \in BOOLEAN : \A seen, h, v :
         /\ Stands(6, h) /\ Held(6, i, seen, h, v, open) /\ (open \/ v = h)
         /\ svc = "diagnosis" /\ 6 = 6 => (open <=> i = 8)
         => Does(6, i, seen, h, v, open)
  BY <1>5, <1>6
<1>8. \A open \in BOOLEAN : \A seen, h, v :
         /\ Stands(6, h) /\ Held(6, Len(Script(6)) + 1, seen, h, v, open) /\ (open \/ v = h)
         => Stands(6 + 1, v)
  BY <1>2, <1>4, <1>6
<1> QED
  BY <1>2, <1>3, <1>6, <1>7, <1>8 DEF Soundly

LEMMA DiagnosisSound ==
  ASSUME svc = "diagnosis"
  PROVE  AllSound
<1>1. LastVersion = 6 /\ svc \in Services
  BY DiagnosisLevels DEF Services
<1>2. \A m \in 1..6 : m \in {1, 3, 4, 5} \/ m = 2 \/ m = 6
  OBVIOUS
<1> QED
  BY <1>1, <1>2, DiagnosisGrowingSound, Diagnosis2Sound, Diagnosis6Sound DEF AllSound

-----------------------------------------------------------------------------
(* The scripts of the backend.                                              *)

\* Every statement is strict, none takes QueuedAt away, and as long as no row
\* is written the script adds only, or drops only.
FitsBackend(c) ==
  /\ Len(c) \in Nat \ {0} /\ AllPlain(c)
  /\ \A j \in 1..Len(c) :
        /\ c[j].op \in {"create", "part", "column", "drop", "rename", "recover", "rebuild"}
        /\ c[j].strict = TRUE
        /\ c[j].op \in {"drop", "rename"} => c[j].table # "agent_runs"
  /\ c[1].op \in {"create", "column", "drop"}
  /\ c[1].op # "create" => \E x : c[1].names = {x}
  /\ \A j \in 2..Len(c) :
        IsSchema(c[j]) /\ (\A k \in 1..(j - 1) : ~IsRows(c[k])) =>
           IF c[1].op = "drop" THEN c[j].op = "drop" ELSE IsAdding(c[j])

LEMMA NewFits ==
  ASSUME NEW c, NEW none, NewOnly(c, none), Len(c) # 0, c[1].op \in {"create", "column"}
  PROVE  FitsBackend(c)
<1>1. Len(c) \in Nat \ {0} /\ \A j \in 1..Len(c) : IsNew(c[j], none)
  BY DEF NewOnly, IsScript, ToSet
<1>2. \A j \in 1..Len(c) : /\ c[j].op \in {"create", "part", "column"} /\ c[j].strict = TRUE
                           /\ c[j].table \notin {"schema_migrations", "alembic_version"}
                           /\ c[j].op # "create" => \E x : c[j].names = {x}
  BY <1>1 DEF IsNew
<1>3. AllPlain(c)
  BY <1>2 DEF AllPlain, IsPlain
<1>4. 1 \in 1..Len(c) /\ 2..Len(c) \subseteq 1..Len(c)
  BY <1>1
<1> QED
  BY <1>1, <1>2, <1>3, <1>4 DEF FitsBackend, IsAdding

\* The first statement of a sequence of scripts.
Begins(c, s) == IsScript(c) /\ Len(c) # 0 /\ c[1] = s

LEMMA CatBegins ==
  ASSUME NEW c, NEW s, Begins(c, s), NEW d, IsScript(d)
  PROVE  Begins(c \o d, s)
<1>1. IsScript(c) /\ Len(c) # 0 /\ c[1] = s
  BY DEF Begins
<1>2. /\ IsScript(c \o d) /\ Len(c \o d) = Len(c) + Len(d)
      /\ Len(c) \in Nat /\ Len(d) \in Nat
  BY <1>1, Cat
<1>3. \A i \in 1..Len(c) : (c \o d)[i] = c[i]
  BY <1>1, Cat, Zenon
<1>4. 1 \in 1..Len(c) /\ Len(c \o d) # 0
  BY <1>1, <1>2
<1> QED
  BY <1>1, <1>2, <1>3, <1>4 DEF Begins

LEMMA TableBegins ==
  ASSUME NEW t, NEW names, IsScript(names)
  PROVE  Begins(TableWith(t, names), CreateNew(t, {}))
<1> DEFINE a == <<CreateNew(t, {})>>
<1>1. Begins(a, CreateNew(t, {}))
  <2>1. Len(a) = 1 /\ a[1] = CreateNew(t, {}) /\ IsScript(a)
    BY DEF IsScript, ToSet
  <2> QED
    BY <2>1 DEF Begins
<1>2. IsScript(EachAddsNew(t, names))
  BY EachSet
<1> QED
  BY <1>1, <1>2, CatBegins DEF TableWith

LEMMA BackendBegins ==
  /\ Begins(Backend[1], CreateNew("audit_logs", {}))
  /\ \E t : Begins(Backend[4], CreateNew(t, {}))
  /\ \E t : Begins(Backend[5], CreateNew(t, {}))
  /\ \E t : Begins(Backend[7], CreateNew(t, {}))
  /\ Begins(Backend[9], ColumnNew("memory_action_links", "applied_memory_ids"))
  /\ Begins(Backend[10], CreateNew("harness_connections", {}))
<1>1. /\ Backend[1] = Accounts \o Chats
      /\ Backend[4] = Workflows /\ Backend[5] = Snapshots
      /\ Backend[7] = MemoryTables \o MemorySources
      /\ Backend[9] = AppliedMemory /\ Backend[10] = Connections
  BY DEF Backend
<1>2. ASSUME NEW t, NEW names, IsScript(names) PROVE IsScript(TableWith(t, names))
  BY <1>2, TableBegins DEF Begins
<1>3. ASSUME NEW c, IsScript(c), NEW d, IsScript(d) PROVE IsScript(c \o d)
  BY <1>3, Cat
<1>4. Begins(Accounts, CreateNew("audit_logs", {}))
  BY <1>2, TableBegins, CatBegins, NamesAre DEF Accounts
<1>5. IsScript(Chats)
  BY <1>2, <1>3, NamesAre DEF Chats
<1>6. Begins(Workflows, CreateNew("operation_workflows", {}))
  BY <1>2, TableBegins, CatBegins, NamesAre DEF Workflows
<1>7. Begins(Snapshots, CreateNew("run_artifacts", {}))
  BY TableBegins, CatBegins, NamesAre DEF Snapshots
<1>8. Begins(MemoryTables, CreateNew("memories", {}))
  BY <1>2, TableBegins, CatBegins, NamesAre DEF MemoryTables
<1>9. IsScript(MemorySources)
  BY <1>2, <1>3, NamesAre DEF MemorySources
<1>10. Begins(AppliedMemory, ColumnNew("memory_action_links", "applied_memory_ids"))
  BY DEF Begins, AppliedMemory, IsScript, ToSet
<1>11. Begins(Connections, CreateNew("harness_connections", {}))
  BY DEF Begins, Connections, IsScript, ToSet
<1>12. Begins(Backend[1], CreateNew("audit_logs", {}))
  BY <1>1, <1>4, <1>5, CatBegins
<1>13. Begins(Backend[7], CreateNew("memories", {}))
  BY <1>1, <1>8, <1>9, CatBegins
<1> QED
  BY <1>1, <1>6, <1>7, <1>10, <1>11, <1>12, <1>13

\* Revision 2.
LEMMA RecoveryFits ==
  /\ FitsBackend(RunRecovery) /\ Len(RunRecovery) = 8
  /\ RunRecovery[1].op = "column" /\ RunRecovery[1].table = "agent_runs"
  /\ RunRecovery[1].names = {"queued_at"}
<1> DEFINE c == RunRecovery
<1>1. /\ Len(c) = 8 /\ c[1] = ColumnNew("agent_runs", "queued_at")
      /\ \A i \in 1..7 : IsNew(c[i], {})
      /\ c[8] = Rows("recover", "agent_runs")
  BY Backend2New
<1> HIDE DEF c
<1>2. c[1].op = "column" /\ c[1].table = "agent_runs" /\ c[1].names = {"queued_at"}
  BY <1>1, AddFields
<1>3. c[8].op = "recover" /\ c[8].table = "agent_runs" /\ c[8].strict = TRUE
  BY <1>1 DEF Rows, Statement
<1>4. \A i \in 1..7 : /\ c[i].op \in {"create", "part", "column"} /\ c[i].strict = TRUE
                      /\ c[i].table \notin {"schema_migrations", "alembic_version"}
  BY <1>1 DEF IsNew
<1>5. \A i \in 1..8 : i \in 1..7 \/ i = 8
  OBVIOUS
<1>6. \A i \in 1..8 : IsPlain(c[i])
  BY <1>3, <1>4, <1>5 DEF IsPlain
<1>7. \A j \in 2..8 : IsSchema(c[j]) => IsAdding(c[j])
  <2>1. \A j \in 2..8 : j \in 1..7 \/ j = 8
    OBVIOUS
  <2>2. ~IsSchema(c[8])
    BY <1>3 DEF IsSchema
  <2> QED
    BY <1>4, <2>1, <2>2 DEF IsAdding
<1>8. FitsBackend(c)
  BY <1>1, <1>2, <1>3, <1>4, <1>5, <1>6, <1>7 DEF FitsBackend, AllPlain
<1> QED
  BY <1>1, <1>2, <1>8 DEF c

\* Revision 3.
LEMMA KindsFit ==
  FitsBackend(ServiceKinds)
<1> DEFINE c == ServiceKinds
           tmp == "_alembic_tmp_mcp_servers"
           ms == "mcp_servers"
<1>1. /\ Len(c) = 5 /\ c[1] = CreateNew(tmp, {"service_kind", "is_default_for_kind"})
      /\ c[2] = Rows("rebuild", tmp) /\ c[3] = DropStrict(ms, Blank) /\ c[4] = Rename(tmp, ms)
      /\ c[5] = AddsNew(ms, "ix_mcp_servers_server_key")
  BY DEF ServiceKinds, Blank
<1>2. {tmp, ms} \cap {"schema_migrations", "alembic_version", "agent_runs"} = {}
  OBVIOUS
<1> HIDE DEF c, tmp, ms
<1>3. c[1].op = "create" /\ c[1].table = tmp /\ c[1].strict = TRUE
  BY <1>1, AddFields
<1>4. c[2].op = "rebuild" /\ c[2].table = tmp /\ c[2].strict = TRUE
  BY <1>1 DEF Rows, Statement
<1>5. c[3].op = "drop" /\ c[3].table = ms /\ c[3].strict = TRUE
  BY <1>1, DropFields
<1>6. c[4].op = "rename" /\ c[4].table = tmp /\ c[4].strict = TRUE /\ c[4].names = {ms}
  BY <1>1 DEF Rename, Statement
<1>7. c[5].op = "part" /\ c[5].table = ms /\ c[5].strict = TRUE
  BY <1>1, AddFields
<1>8. \A j \in 1..5 : j \in {1, 2, 3, 4, 5}
  OBVIOUS
<1>9. \A j \in 1..5 : /\ c[j].op \in {"create", "part", "column", "drop", "rename", "recover", "rebuild"}
                      /\ c[j].strict = TRUE /\ c[j].table \in {tmp, ms}
  BY <1>3, <1>4, <1>5, <1>6, <1>7, <1>8
<1>10. \A j \in 1..5 : c[j].op = "rename" => Only(c[j]) = ms
  BY <1>3, <1>4, <1>5, <1>6, <1>7, <1>8, OnlyName
<1>11. \A j \in 1..5 : IsPlain(c[j])
  BY <1>2, <1>9, <1>10 DEF IsPlain
<1>12. \A j \in 2..5 : ~(IsSchema(c[j]) /\ (\A k \in 1..(j - 1) : ~IsRows(c[k])))
  <2> SUFFICES ASSUME NEW j \in 2..5, IsSchema(c[j]), \A k \in 1..(j - 1) : ~IsRows(c[k]) PROVE FALSE
    OBVIOUS
  <2>1. ~IsSchema(c[2]) /\ IsRows(c[2])
    BY <1>4 DEF IsSchema, IsRows
  <2>2. j = 2 \/ 2 \in 1..(j - 1)
    OBVIOUS
  <2> QED
    BY <2>1, <2>2
<1>13. Len(c) \in Nat \ {0} /\ AllPlain(c)
  BY <1>1, <1>11 DEF AllPlain
<1>14. \A j \in 1..Len(c) : c[j].table # "agent_runs"
  BY <1>1, <1>2, <1>9
<1>15. FitsBackend(c)
  BY <1>1, <1>3, <1>9, <1>12, <1>13, <1>14 DEF FitsBackend
<1> QED
  BY <1>15 DEF c

\* Revisions 6 and 8.
LEMMA DropsFit ==
  ASSUME NEW c, NEW n \in Nat \ {0}, Len(c) = n,
         \A j \in 1..n : \E t, x : /\ t \notin {"schema_migrations", "alembic_version", "agent_runs"}
                                   /\ c[j] = DropStrict(t, x)
  PROVE  FitsBackend(c)
<1>1. ASSUME NEW j \in 1..n
      PROVE  /\ c[j].op = "drop" /\ c[j].strict = TRUE /\ \E x : c[j].names = {x}
             /\ c[j].table \notin {"schema_migrations", "alembic_version", "agent_runs"}
  <2>1. PICK t, x : /\ t \notin {"schema_migrations", "alembic_version", "agent_runs"}
                    /\ c[j] = DropStrict(t, x)
    OBVIOUS
  <2> DEFINE s == c[j]
  <2>2. s = DropStrict(t, x)
    BY <2>1
  <2> HIDE DEF s
  <2>3. s.op = "drop" /\ s.strict = TRUE /\ s.names = {x} /\ s.table = t
    BY <2>2, DropFields
  <2> QED
    BY <2>1, <2>3 DEF s
<1>2. AllPlain(c)
  BY <1>1 DEF AllPlain, IsPlain
<1>3. 1 \in 1..n /\ 2..n \subseteq 1..n
  OBVIOUS
<1> QED
  BY <1>1, <1>2, <1>3 DEF FitsBackend

LEMMA BackendFits ==
  \A m \in 1..10 : FitsBackend(Backend[m])
<1>1. \A m \in {1, 4, 5, 7, 9, 10} : \E none : NewOnly(Backend[m], none)
  BY BackendScripts
<1>2. \A t : CreateNew(t, {}).op = "create" /\ ColumnNew("memory_action_links", "applied_memory_ids").op = "column"
  BY AddFields
<1>3. \A m \in {1, 4, 5, 7, 9, 10} : \E s : Begins(Backend[m], s) /\ s.op \in {"create", "column"}
  BY <1>2, BackendBegins
<1>4. ASSUME NEW m \in {1, 4, 5, 7, 9, 10} PROVE FitsBackend(Backend[m])
  <2>1. PICK none : NewOnly(Backend[m], none)
    BY <1>1
  <2>2. Len(Backend[m]) # 0 /\ Backend[m][1].op \in {"create", "column"}
    BY <1>3 DEF Begins
  <2> QED
    BY <2>1, <2>2, NewFits
<1>5. FitsBackend(Backend[2]) /\ FitsBackend(Backend[3])
  BY RecoveryFits, KindsFit, BackendScripts
<1>6. FitsBackend(NoWorkflows)
  <2> DEFINE c == NoWorkflows
  <2>1. /\ Len(c) = 3 /\ c[1] = DropStrict("operation_workflow_events", "")
        /\ c[2] = DropStrict("operation_workflow_steps", "")
        /\ c[3] = DropStrict("operation_workflows", "")
    BY DEF NoWorkflows
  <2> HIDE DEF c
  <2>2. \A j \in 1..3 : j \in {1, 2, 3}
    OBVIOUS
  <2>3. \A j \in 1..3 : \E t, x : /\ t \notin {"schema_migrations", "alembic_version", "agent_runs"}
                                  /\ c[j] = DropStrict(t, x)
    BY <2>1, <2>2
  <2>4. Len(c) = 3
    BY <2>1, Zenon
  <2>5. 3 \in Nat \ {0}
    OBVIOUS
  <2>6. FitsBackend(c)
    BY <2>3, <2>4, <2>5, DropsFit
  <2> QED
    BY <2>6 DEF c
<1>7. FitsBackend(NoImports)
  <2> DEFINE c == NoImports
  <2>1. /\ Len(c) = 2 /\ c[1] = DropStrict("memory_legacy_imports", "ix_memory_legacy_imports_batch_id")
        /\ c[2] = DropStrict("memory_legacy_imports", "")
    BY DEF NoImports
  <2> HIDE DEF c
  <2>2. \A j \in 1..2 : j \in {1, 2}
    OBVIOUS
  <2>3. \A j \in 1..2 : \E t, x : /\ t \notin {"schema_migrations", "alembic_version", "agent_runs"}
                                  /\ c[j] = DropStrict(t, x)
    BY <2>1, <2>2
  <2>4. Len(c) = 2
    BY <2>1, Zenon
  <2>5. 2 \in Nat \ {0}
    OBVIOUS
  <2>6. FitsBackend(c)
    BY <2>3, <2>4, <2>5, DropsFit
  <2> QED
    BY <2>6 DEF c
<1>8. \A m \in 1..10 : m \in {1, 4, 5, 7, 9, 10} \/ m \in {2, 3} \/ m = 6 \/ m = 8
  OBVIOUS
<1> QED
  BY <1>4, <1>5, <1>6, <1>7, <1>8, BackendScripts

-----------------------------------------------------------------------------
(* The schemas of the backend.                                              *)

LEMMA StrictNotIdle ==
  ASSUME NEW s, s.strict = TRUE, NEW h, NEW seen
  PROVE  ~IsIdle(s, h, seen) /\ Through(s, h) = SchemaAfter(s, h)
<1>1. ~IsIdle(s, h, seen) /\ ~IsIdle(s, h, h)
  BY DEF IsIdle
<1> QED
  BY <1>1 DEF Through

LEMMA BackendSchemas ==
  ASSUME svc = "backend", fts5
  PROVE  /\ LastVersion = 10 /\ svc \in Services /\ Low(1) = {}
         /\ \A m \in 1..10 : /\ Script(m) = Backend[m] /\ FitsBackend(Script(m))
                             /\ Made(m, 0) = Low(m)
                             /\ \A i \in 1..Len(Script(m)) :
                                   Made(m, i) = SchemaAfter(Script(m)[i], Made(m, i - 1))
                             /\ Made(m, Len(Script(m))) = Low(m + 1)
<1> DEFINE U == Upgraded["backend"]
<1>1. Scripts["backend"] = Backend /\ Len(Backend) = 10 /\ "backend" \in Services
  BY BackendScripts DEF Services
<1>2. U[0] = {} /\ \A m \in 1..10 : U[m] = Passed(Backend[m], U[m - 1])[Len(Backend[m])]
  <2>1. Len(Scripts["backend"]) \in Nat
    BY <1>1
  <2> QED
    BY <1>1, <2>1, UpgradedIs
<1> HIDE DEF U
<1>3. LastVersion = 10 /\ \A m : Script(m) = Backend[m]
  BY <1>1 DEF LastVersion, Script
<1>4. \A m : Low(m) = U[m - 1]
  BY HereAll DEF Low, U
<1>5. \A m, i : Made(m, i) = Passed(Backend[m], U[m - 1])[i]
  BY <1>3, <1>4 DEF Made
<1>6. ASSUME NEW m \in 1..10
      PROVE  /\ FitsBackend(Script(m)) /\ Made(m, 0) = Low(m)
             /\ \A i \in 1..Len(Script(m)) :
                   Made(m, i) = SchemaAfter(Script(m)[i], Made(m, i - 1))
             /\ Made(m, Len(Script(m))) = Low(m + 1)
  <2> DEFINE c == Backend[m]
             P == Passed(c, U[m - 1])
  <2>1. FitsBackend(c) /\ Script(m) = c
    BY <1>3, BackendFits
  <2>2. Len(c) \in Nat /\ \A i \in 1..Len(c) : c[i].strict = TRUE
    BY <2>1 DEF FitsBackend
  <2>3. P[0] = U[m - 1] /\ \A i \in 1..Len(c) : P[i] = Through(c[i], P[i - 1])
    <3> HIDE DEF c
    <3> QED
      BY <2>2, PassedIs
  <2>4. \A i \in 1..Len(c) : P[i] = SchemaAfter(c[i], P[i - 1])
    <3> SUFFICES ASSUME NEW i \in 1..Len(c) PROVE P[i] = SchemaAfter(c[i], P[i - 1])
      OBVIOUS
    <3> DEFINE s == c[i]
               h == P[i - 1]
    <3>1. s.strict = TRUE /\ P[i] = Through(s, h)
      BY <2>2, <2>3
    <3> HIDE DEF s, h, P
    <3>2. Through(s, h) = SchemaAfter(s, h)
      BY <3>1, StrictNotIdle
    <3> QED
      BY <3>1, <3>2 DEF s, h
  <2>5. \A i : Made(m, i) = P[i]
    BY <1>5
  <2>6. (m + 1) - 1 = m
    OBVIOUS
  <2>7. Low(m + 1) = U[m] /\ U[m] = P[Len(c)]
    BY <1>2, <1>4, <2>6
  <2> HIDE DEF c, P
  <2> QED
    BY <1>4, <2>1, <2>3, <2>4, <2>5, <2>7
<1>7. Low(1) = {}
  <2>1. 1 - 1 = 0
    OBVIOUS
  <2> QED
    BY <1>2, <1>4, <2>1
<1> QED
  BY <1>1, <1>3, <1>6, <1>7

-----------------------------------------------------------------------------
(* A script that was begun cannot be begun again.                           *)

MayBegin(s) ==
  /\ s.op \in {"create", "column", "drop"}
  /\ s.op # "create" => \E x : s.names = {x}

LEMMA FirstStays ==
  ASSUME NEW s, MayBegin(s), NEW h
  PROVE  IsError(s, SchemaAfter(s, h))
<1>1. CASE s.op = "create"
  BY <1>1 DEF SchemaAfter, IsError
<1>2. CASE s.op # "create"
  <2>1. PICK x : s.names = {x}
    BY <1>2 DEF MayBegin
  <2>2. Only(s) = x
    BY <2>1, OnlyName
  <2>3. <<s.table, x>> \in Parts(s.table, s.names)
    BY <2>1 DEF Parts
  <2>4. CASE s.op = "column"
    BY <2>2, <2>3, <2>4 DEF SchemaAfter, IsError
  <2>5. CASE s.op = "drop"
    <3>1. CASE Only(s) = Blank
      <4>1. SchemaAfter(s, h) = h \ Of(s.table, h)
        BY <2>5, <3>1 DEF SchemaAfter, Blank
      <4>2. <<s.table, x>> \notin h \ Of(s.table, h)
        BY DEF Of
      <4> QED
        BY <2>2, <2>5, <4>1, <4>2 DEF IsError
    <3>2. CASE Only(s) # Blank
      <4>1. SchemaAfter(s, h) = h \ Parts(s.table, s.names)
        BY <2>5, <3>2 DEF SchemaAfter, Blank
      <4> QED
        BY <2>2, <2>3, <2>5, <4>1 DEF IsError
    <3> QED
      BY <3>1, <3>2
  <2> QED
    BY <1>2, <2>4, <2>5 DEF MayBegin
<1> QED
  BY <1>1, <1>2

\* No statement but a drop of agent_runs takes QueuedAt away.
LEMMA QueuedAtStays ==
  ASSUME NEW s, s.op \in {"drop", "rename"} => s.table # "agent_runs", NEW h, QueuedAt \in h
  PROVE  QueuedAt \in SchemaAfter(s, h)
<1>1. QueuedAt[1] = "agent_runs" /\ QueuedAt \in h
  BY DEF QueuedAt
<1>2. CASE s.op = "drop"
  <2>1. QueuedAt \notin Of(s.table, h) /\ QueuedAt \notin Parts(s.table, s.names)
    BY <1>1, <1>2 DEF Of, Parts
  <2> QED
    BY <1>1, <1>2, <2>1 DEF SchemaAfter
<1>3. CASE s.op = "rename"
  <2>1. QueuedAt \notin Of(s.table, h)
    BY <1>1, <1>3 DEF Of
  <2> QED
    BY <1>1, <1>3, <2>1 DEF SchemaAfter
<1>4. CASE s.op \notin {"drop", "rename"}
  BY <1>1, <1>4 DEF SchemaAfter
<1> QED
  BY <1>2, <1>3, <1>4

\* What the later statements of a script add or drop leaves its first statement
\* an error.
LEMMA FirstRemains ==
  ASSUME NEW f, f.op \in {"create", "column", "drop"}, NEW h, IsError(f, h),
         f.op = "column" => <<f.table, Only(f)>> \in h,
         NEW s, IF f.op = "drop" THEN s.op = "drop" ELSE IsAdding(s)
  PROVE  IsError(f, SchemaAfter(s, h))
<1>1. CASE f.op = "drop"
  <2>1. SchemaAfter(s, h) \subseteq h
    BY <1>1 DEF SchemaAfter
  <2> QED
    BY <1>1, <2>1 DEF IsError
<1>2. CASE f.op # "drop"
  <2>1. h \subseteq SchemaAfter(s, h)
    BY <1>2, AddsGained
  <2>2. CASE f.op = "create"
    BY <2>1, <2>2 DEF IsError, IsRows
  <2>3. CASE f.op = "column"
    BY <2>1, <2>3 DEF IsError
  <2> QED
    BY <1>2, <2>2, <2>3
<1> QED
  BY <1>1, <1>2

\* Only revisions 2 and 9 begin with a column; revision 9 has no other statement.
LEMMA ColumnFirst ==
  ASSUME NEW m \in 1..10, Backend[m][1].op = "column"
  PROVE  \/ m = 2 /\ <<Backend[m][1].table, Only(Backend[m][1])>> = QueuedAt
         \/ Len(Backend[m]) = 1
<1>1. CASE m = 2
  <2> DEFINE s == RunRecovery[1]
  <2>1. s.table = "agent_runs" /\ s.names = {"queued_at"} /\ Backend[2] = RunRecovery
    BY RecoveryFits, BackendScripts
  <2> HIDE DEF s
  <2>2. Only(s) = "queued_at"
    BY <2>1, OnlyName
  <2> QED
    BY <1>1, <2>1, <2>2 DEF QueuedAt, s
<1>2. CASE m = 9
  BY <1>2 DEF Backend, AppliedMemory
<1>3. CASE m \in {1, 4, 5, 7, 10}
  <2>1. \A t, n : CreateNew(t, n).op = "create"
    BY AddFields
  <2>2. Backend[m][1].op = "create"
    BY <1>3, <2>1, BackendBegins DEF Begins
  <2> QED
    BY <2>2
<1>4. CASE m = 3
  <2>1. Backend[3] = ServiceKinds
    BY BackendScripts
  <2>2. ServiceKinds[1].op = "create"
    BY AddFields DEF ServiceKinds
  <2> QED
    BY <1>4, <2>1, <2>2
<1>5. CASE m \in {6, 8}
  <2>1. Backend[6] = NoWorkflows /\ Backend[8] = NoImports
    BY BackendScripts
  <2>2. NoWorkflows[1].op = "drop" /\ NoImports[1].op = "drop"
    BY DEF NoWorkflows, NoImports, DropStrict, Statement
  <2> QED
    BY <1>5, <2>1, <2>2
<1>6. m \in {1, 4, 5, 7, 10} \/ m = 2 \/ m = 3 \/ m \in {6, 8} \/ m = 9
  OBVIOUS
<1> QED
  BY <1>1, <1>2, <1>3, <1>4, <1>5, <1>6

-----------------------------------------------------------------------------
(* The scripts of the backend do what the invariant says.                   *)

\* What stands in the database of the backend, and what an upgrader has there.
Revised(m, h) ==
  /\ h = Low(m) \/ FirstFails(m, h)
  /\ m > 2 => QueuedAt \in h
Revising(m, i, h, v, o) ==
  /\ i > 1 => v = Made(m, i - 1) /\ FirstFails(m, h)
  /\ o <=> \E j \in 1..(i - 1) : IsRows(Script(m)[j])
  /\ m > 2 \/ (m = 2 /\ i > 1) => QueuedAt \in v

LEMMA RevisedIs ==
  ASSUME svc = "backend", fts5, NEW m \in 1..10
  PROVE  /\ \A h : Stands(m, h) <=> Revised(m, h)
         /\ \A i, e, h, v, o : Held(m, i, e, h, v, o) <=> Revising(m, i, h, v, o)
         /\ \A i : IsAlone(m, i) <=> i > 1
         /\ \A h : h = Low(m + 1) /\ (m > 1 => QueuedAt \in h) => Stands(m + 1, h)
<1>1. LastVersion = 10
  BY BackendSchemas
<1>2. ~IsGrowing(m) /\ ~IsGrowing(m + 1)
  BY DEF IsGrowing
<1>3. m # 10 + 1 /\ m \in 1..10
  OBVIOUS
<1>4. \A h : Stands(m, h) <=> Revised(m, h)
  BY <1>1, <1>2, <1>3 DEF Stands, Revised
<1>5. \A i, e, h, v, o : Held(m, i, e, h, v, o) <=> Revising(m, i, h, v, o)
  BY <1>2 DEF Held, Revising
<1>6. \A i : IsAlone(m, i) <=> i > 1
  BY DEF IsAlone
<1>7. m + 1 > 2 => m > 1
  OBVIOUS
<1>8. \A h : h = Low(m + 1) /\ (m > 1 => QueuedAt \in h) => Stands(m + 1, h)
  BY <1>2, <1>7 DEF Stands
<1> QED
  BY <1>4, <1>5, <1>6, <1>8

\* A statement moves no row before the first that does.
LEMMA RowsSoFar ==
  ASSUME NEW m, NEW i \in Nat \ {0}
  PROVE  (\E j \in 1..((i + 1) - 1) : IsRows(Script(m)[j]))
            <=> (\E j \in 1..(i - 1) : IsRows(Script(m)[j])) \/ IsRows(Script(m)[i])
<1>1. (i + 1) - 1 = i
  OBVIOUS
<1>2. \A j \in 1..i : j \in 1..(i - 1) \/ j = i
  OBVIOUS
<1>3. i \in 1..i /\ 1..(i - 1) \subseteq 1..i
  OBVIOUS
<1> QED
  BY <1>1, <1>2, <1>3

LEMMA RevisionStatements ==
  ASSUME svc = "backend", fts5, NEW m \in 1..10, NEW i \in 1..Len(Script(m))
  PROVE  LET s == Script(m)[i]
         IN  /\ s.op \in {"create", "part", "column", "drop", "rename", "recover", "rebuild"}
             /\ s.strict = TRUE /\ (s.op \in {"drop", "rename"} => s.table # "agent_runs")
             /\ Script(m)[1].op \in {"create", "column", "drop"}
             /\ Script(m)[1].op # "create" => \E x : Script(m)[1].names = {x}
             /\ IsRows(s) => i > 1
             /\ i > 1 /\ IsSchema(s) /\ (\A k \in 1..(i - 1) : ~IsRows(Script(m)[k])) =>
                   IF Script(m)[1].op = "drop" THEN s.op = "drop" ELSE IsAdding(s)
             /\ Len(Script(m)) \in Nat \ {0} /\ i \in Nat \ {0}
             /\ Made(m, (i + 1) - 1) = SchemaAfter(s, Made(m, i - 1))
<1> DEFINE c == Script(m)
<1>1. FitsBackend(c) /\ \A k \in 1..Len(c) : Made(m, k) = SchemaAfter(c[k], Made(m, k - 1))
  BY BackendSchemas
<1>2. i \in 1..Len(c)
  OBVIOUS
<1> HIDE DEF c
<1>3. Len(c) \in Nat \ {0}
  BY <1>1 DEF FitsBackend
<1>4. i > 1 => i \in 2..Len(c)
  BY <1>2, <1>3
<1>5. ~IsRows(c[1])
  BY <1>1 DEF FitsBackend, IsRows
<1>6. ~(i > 1) => i = 1
  BY <1>2, <1>3
<1>7. (i + 1) - 1 = i /\ i \in Nat \ {0}
  BY <1>2, <1>3
<1>8. Made(m, (i + 1) - 1) = SchemaAfter(c[i], Made(m, i - 1))
  BY <1>1, <1>2, <1>7
<1> QED
  BY <1>1, <1>2, <1>3, <1>4, <1>5, <1>6, <1>7, <1>8 DEF FitsBackend, c

\* A statement outside a transaction.
LEMMA RevisionApplies ==
  ASSUME svc = "backend", fts5, NEW m \in 1..10, NEW i \in 1..Len(Script(m)), NEW seen, NEW h,
         Revised(m, h), Revising(m, i, h, h, FALSE), Applies(Script(m)[i], h, seen)
  PROVE  LET h2 == SchemaAfter(Script(m)[i], h)
         IN  /\ h = Made(m, i - 1) /\ FirstFails(m, h2)
             /\ m > 1 => QueuedAt \in h2
             /\ i = 1 => ~FirstFails(m, h)
<1> DEFINE s == Script(m)[i]
           f == Script(m)[1]
           h2 == SchemaAfter(s, h)
<1>1. /\ s.op \in {"drop", "rename"} => s.table # "agent_runs"
      /\ f.op \in {"create", "column", "drop"}
      /\ f.op # "create" => \E x : f.names = {x}
      /\ i > 1 /\ IsSchema(s) /\ (\A k \in 1..(i - 1) : ~IsRows(Script(m)[k])) =>
            IF f.op = "drop" THEN s.op = "drop" ELSE IsAdding(s)
      /\ i \in Nat \ {0} /\ Len(Script(m)) \in Nat
  BY RevisionStatements
<1>2. IsSchema(s) /\ ~IsError(s, h) /\ FirstFails(m, h) = IsError(f, h)
      /\ FirstFails(m, h2) = IsError(f, h2)
  BY DEF Applies, FirstFails
<1>3. /\ h = Low(m) \/ FirstFails(m, h)
      /\ m > 2 => QueuedAt \in h
      /\ i > 1 => h = Made(m, i - 1) /\ FirstFails(m, h)
      /\ \A j \in 1..(i - 1) : ~IsRows(Script(m)[j])
      /\ m = 2 /\ i > 1 => QueuedAt \in h
  BY DEF Revised, Revising
<1>4. Made(m, 0) = Low(m) /\ Script(m) = Backend[m]
  BY BackendSchemas
<1>5. m = 2 => f.op = "column" /\ f.table = "agent_runs" /\ f.names = {"queued_at"}
  BY <1>4, RecoveryFits, BackendScripts
<1>6. f.op = "column" => \/ m = 2 /\ <<f.table, Only(f)>> = QueuedAt
                         \/ Len(Script(m)) = 1
  BY <1>4, ColumnFirst
<1>7. i = 1 => s = f /\ i - 1 = 0
  OBVIOUS
<1>8. i > 1 => Len(Script(m)) # 1
  BY <1>1
<1>9. i = 1 \/ i > 1
  BY <1>1
<1>10. m > 1 => m > 2 \/ m = 2
  OBVIOUS
<1> HIDE DEF s, f, h2
<1>11. QueuedAt \in h => QueuedAt \in h2
  BY <1>1, QueuedAtStays DEF h2
<1>12. CASE i = 1
  <2>1. ~FirstFails(m, h) /\ h = Low(m)
    BY <1>2, <1>3, <1>7, <1>12
  <2>2. IsError(f, SchemaAfter(f, h))
    <3>1. MayBegin(f)
      BY <1>1 DEF MayBegin
    <3> QED
      BY <3>1, FirstStays
  <2>3. FirstFails(m, h2)
    BY <1>2, <1>7, <1>12, <2>2 DEF h2
  <2>4. m = 2 => QueuedAt \in h2
    BY <1>5, <1>7, <1>12 DEF h2, SchemaAfter, Parts, QueuedAt
  <2>5. m > 1 => QueuedAt \in h2
    BY <1>3, <1>10, <1>11, <2>4
  <2>6. h = Made(m, i - 1)
    BY <1>4, <1>7, <1>12, <2>1
  <2> QED
    BY <2>1, <2>3, <2>5, <2>6 DEF h2, s
<1>13. CASE i > 1
  <2>1. IF f.op = "drop" THEN s.op = "drop" ELSE IsAdding(s)
    BY <1>1, <1>2, <1>3, <1>13
  <2>2. f.op = "column" => <<f.table, Only(f)>> \in h
    BY <1>3, <1>6, <1>8, <1>13
  <2>3. IsError(f, h)
    BY <1>2, <1>3, <1>13
  <2>4. IsError(f, SchemaAfter(s, h))
    BY <1>1, <2>1, <2>2, <2>3, FirstRemains
  <2>5. m > 1 => QueuedAt \in h2
    BY <1>3, <1>10, <1>11, <1>13
  <2>6. i # 1 /\ h = Made(m, i - 1)
    BY <1>1, <1>3, <1>13
  <2> QED
    BY <1>2, <2>4, <2>5, <2>6 DEF h2, s
<1> QED
  BY <1>9, <1>12, <1>13

LEMMA RevisionChanges ==
  ASSUME svc = "backend", fts5, NEW m \in 1..10, NEW i \in 1..Len(Script(m)), NEW seen, NEW h,
         Revised(m, h), Revising(m, i, h, h, FALSE), Applies(Script(m)[i], h, seen)
  PROVE  Changes(m, i, h, i + 1, seen, SchemaAfter(Script(m)[i], h))
<1> DEFINE s == Script(m)[i]
           h2 == SchemaAfter(s, h)
           RowsMoved(k) == \E j \in 1..(k - 1) : IsRows(Script(m)[j])
<1>1. /\ h = Made(m, i - 1) /\ FirstFails(m, h2)
      /\ m > 1 => QueuedAt \in h2
      /\ i = 1 => ~FirstFails(m, h)
  BY RevisionApplies
<1>2. /\ \A x : Stands(m, x) <=> Revised(m, x)
      /\ \A k, e, x, v, o : Held(m, k, e, x, v, o) <=> Revising(m, k, x, v, o)
      /\ \A k : IsAlone(m, k) <=> k > 1
  BY RevisedIs
<1>3. i \in Nat \ {0} /\ Made(m, (i + 1) - 1) = SchemaAfter(s, Made(m, i - 1))
  BY RevisionStatements
<1>4. ~IsRows(s)
  BY DEF Applies, IsSchema, IsRows
<1>5. RowsMoved(i + 1) <=> RowsMoved(i) \/ IsRows(s)
  BY <1>3, RowsSoFar
<1>6. \A k, x, v, o : Revising(m, k, x, v, o) <=>
         /\ k > 1 => v = Made(m, k - 1) /\ FirstFails(m, x)
         /\ o <=> RowsMoved(k)
         /\ m > 2 \/ (m = 2 /\ k > 1) => QueuedAt \in v
  BY DEF Revising
<1>7. m > 2 => m > 1
  OBVIOUS
<1>8. m = 2 => m > 1
  OBVIOUS
<1> HIDE DEF s, h2, RowsMoved
<1>9. Revised(m, h2)
  BY <1>1, <1>7 DEF Revised
<1>10. Revising(m, i + 1, h2, h2, FALSE)
  <2>1. ~RowsMoved(i + 1)
    BY <1>4, <1>5, <1>6
  <2>2. h2 = Made(m, (i + 1) - 1)
    BY <1>1, <1>3 DEF h2
  <2>3. FALSE <=> RowsMoved(i + 1)
    BY <2>1
  <2>4. m > 2 \/ (m = 2 /\ i + 1 > 1) => QueuedAt \in h2
    BY <1>1, <1>7, <1>8
  <2>5. i + 1 > 1 => h2 = Made(m, (i + 1) - 1) /\ FirstFails(m, h2)
    BY <1>1, <2>2
  <2> DEFINE k == i + 1
  <2>6. /\ k > 1 => h2 = Made(m, k - 1) /\ FirstFails(m, h2)
        /\ FALSE <=> RowsMoved(k)
        /\ m > 2 \/ (m = 2 /\ k > 1) => QueuedAt \in h2
    BY <2>3, <2>4, <2>5
  <2> HIDE DEF k
  <2>7. Revising(m, k, h2, h2, FALSE)
    BY <1>6, <2>6
  <2> QED
    BY <2>7 DEF k
<1>11. i = 1 \/ i > 1
  BY <1>3
<1>12. Carries(m, i, h, h2)
  <2> SUFFICES ASSUME NEW k, NEW d, Held(m, k, d, h, h, FALSE), ~(IsAlone(m, i) /\ IsAlone(m, k))
               PROVE  Held(m, k, d, h2, h2, FALSE)
    BY DEF Carries
  <2>1. Revising(m, k, h, h, FALSE) /\ ~(i > 1 /\ k > 1)
    BY <1>2
  <2>2. ~(k > 1)
    BY <1>1, <1>6, <1>11, <2>1
  <2>3. Revising(m, k, h2, h2, FALSE)
    BY <1>1, <1>6, <1>7, <2>1, <2>2
  <2> QED
    BY <1>2, <2>3
<1>13. ArrivesAlone(m, i, h, i + 1)
  <2> SUFFICES ASSUME ~IsAlone(m, i), NEW k, NEW d, NEW w, NEW o, Held(m, k, d, h, w, o)
               PROVE  ~IsAlone(m, k)
    BY DEF ArrivesAlone
  <2>1. Revising(m, k, h, w, o) /\ ~(i > 1)
    BY <1>2
  <2>2. ~(k > 1)
    BY <1>1, <1>6, <1>11, <2>1
  <2> QED
    BY <1>2, <2>2
<1>14. Stands(m, h2) /\ Held(m, i + 1, seen, h2, h2, FALSE)
  BY <1>2, <1>9, <1>10
<1> QED
  BY <1>12, <1>13, <1>14 DEF Changes, h2, s

LEMMA RevisionDoes ==
  ASSUME svc = "backend", fts5, NEW m \in 1..10, NEW i \in 1..Len(Script(m)),
         NEW open \in BOOLEAN, NEW seen, NEW h, NEW v,
         Stands(m, h), Held(m, i, seen, h, v, open), open \/ v = h
  PROVE  Does(m, i, seen, h, v, open)
<1> DEFINE s == Script(m)[i]
           v2 == SchemaAfter(s, v)
           RowsMoved(k) == \E j \in 1..(k - 1) : IsRows(Script(m)[j])
<1>1. /\ \A x : Stands(m, x) <=> Revised(m, x)
      /\ \A k, e, x, w, o : Held(m, k, e, x, w, o) <=> Revising(m, k, x, w, o)
      /\ \A k : IsAlone(m, k) <=> k > 1
  BY RevisedIs
<1>2. Revised(m, h) /\ Revising(m, i, h, v, open)
  BY <1>1
<1>3. /\ s.op \in {"create", "part", "column", "drop", "rename", "recover", "rebuild"}
      /\ s.strict = TRUE /\ (s.op \in {"drop", "rename"} => s.table # "agent_runs")
      /\ IsRows(s) => i > 1
      /\ i \in Nat \ {0} /\ Made(m, (i + 1) - 1) = SchemaAfter(s, Made(m, i - 1))
      /\ Script(m)[1].op \in {"create", "column", "drop"}
  BY RevisionStatements
<1>4. ~IsIdle(s, v, seen) /\ s.op \notin {"read", "only", "fts5", "commit", "newest"}
  BY <1>3, StrictNotIdle
<1>5. \A k, x, w, o : Revising(m, k, x, w, o) <=>
         /\ k > 1 => w = Made(m, k - 1) /\ FirstFails(m, x)
         /\ o <=> RowsMoved(k)
         /\ m > 2 \/ (m = 2 /\ k > 1) => QueuedAt \in w
  BY DEF Revising
<1>6. RowsMoved(i + 1) <=> RowsMoved(i) \/ IsRows(s)
  BY <1>3, RowsSoFar
<1>7. RowsMoved(i) => i > 1
  BY <1>3 DEF RowsMoved
<1>8. QueuedAt \in v => QueuedAt \in v2
  BY <1>3, QueuedAtStays
<1>9. IsRows(s) => v2 = v
  BY <1>3 DEF IsRows, SchemaAfter
<1> HIDE DEF s, v2, RowsMoved
<1>10. ASSUME i > 1, IsRows(s) \/ RowsMoved(i)
       PROVE  Goes(m, i, h, i + 1, seen, v2, TRUE)
  <2>1. v = Made(m, i - 1) /\ FirstFails(m, h)
    BY <1>2, <1>5, <1>10
  <2>2. v2 = Made(m, (i + 1) - 1)
    BY <1>3, <2>1 DEF v2
  <2>3. m > 2 \/ m = 2 => QueuedAt \in v2
    BY <1>2, <1>5, <1>8, <1>10
  <2>4. RowsMoved(i + 1)
    BY <1>6, <1>10
  <2>5. Revising(m, i + 1, h, v2, TRUE)
    BY <1>5, <2>1, <2>2, <2>3, <2>4
  <2> QED
    BY <1>1, <1>10, <2>5 DEF Goes
<1>11. IsRows(s) => Goes(m, i, h, i + 1, seen, v, TRUE)
  BY <1>3, <1>9, <1>10
<1>12. open => Goes(m, i, h, i + 1, seen, v2, TRUE)
  BY <1>2, <1>5, <1>7, <1>10
<1>13. ASSUME ~open, Applies(s, v, seen) PROVE Changes(m, i, h, i + 1, seen, v2)
  <2>1. v = h /\ open = FALSE
    BY <1>13
  <2>2. Revising(m, i, h, h, FALSE) /\ Applies(Script(m)[i], h, seen)
    BY <1>2, <1>13, <2>1 DEF s
  <2>3. Changes(m, i, h, i + 1, seen, SchemaAfter(Script(m)[i], h))
    BY <1>2, <2>2, RevisionChanges
  <2> QED
    BY <2>1, <2>3 DEF v2, s
<1> QED
  BY <1>4, <1>11, <1>12, <1>13 DEF Does, s, v2

LEMMA BackendSound ==
  ASSUME svc = "backend", fts5
  PROVE  AllSound
<1>1. LastVersion = 10 /\ svc \in Services
  BY BackendSchemas
<1>2. ASSUME NEW m \in 1..10 PROVE Soundly(m)
  <2> DEFINE n == Len(Script(m))
  <2>1. FitsBackend(Script(m)) /\ Made(m, n) = Low(m + 1)
    BY <1>1, BackendSchemas
  <2>2. n \in Nat \ {0} /\ AllPlain(Script(m))
    BY <2>1 DEF FitsBackend
  <2>3. /\ \A h : Stands(m, h) <=> Revised(m, h)
        /\ \A i, e, h, v, o : Held(m, i, e, h, v, o) <=> Revising(m, i, h, v, o)
        /\ \A i : IsAlone(m, i) <=> i > 1
        /\ \A h : h = Low(m + 1) /\ (m > 1 => QueuedAt \in h) => Stands(m + 1, h)
    BY RevisedIs
  <2>4. ASSUME NEW h, Stands(m, h) PROVE Held(m, 1, {}, h, h, FALSE) /\ ~IsAlone(m, 1)
    <3>1. 1..(1 - 1) = {} /\ ~(1 > 1)
      OBVIOUS
    <3>2. Revising(m, 1, h, h, FALSE)
      BY <2>3, <2>4, <3>1 DEF Revised, Revising
    <3> QED
      BY <2>3, <3>1, <3>2
  <2>5. \A i \in 1..n, open \in BOOLEAN : \A seen, h, v :
           Stands(m, h) /\ Held(m, i, seen, h, v, open) /\ (open \/ v = h)
           => Does(m, i, seen, h, v, open)
    BY RevisionDoes
  <2>6. ASSUME NEW open \in BOOLEAN, NEW seen, NEW h, NEW v,
               Held(m, n + 1, seen, h, v, open)
        PROVE  Stands(m + 1, v)
    <3>1. n + 1 > 1 /\ (n + 1) - 1 = n
      BY <2>2
    <3>2. Revising(m, n + 1, h, v, open)
      BY <2>3, <2>6
    <3> HIDE DEF n
    <3>3. v = Made(m, n) /\ (m > 2 \/ m = 2 => QueuedAt \in v)
      BY <3>1, <3>2 DEF Revising
    <3>4. m > 1 => m > 2 \/ m = 2
      OBVIOUS
    <3>5. v = Low(m + 1) /\ (m > 1 => QueuedAt \in v)
      BY <2>1, <3>3, <3>4
    <3> QED
      BY <2>3, <3>5
  <2>7. ~(svc = "diagnosis")
    OBVIOUS
  <2>8. Len(Script(m)) \in Nat
    BY <2>2
  <2> QED
    BY <2>2, <2>4, <2>5, <2>6, <2>7, <2>8 DEF Soundly
<1> QED
  BY <1>1, <1>2 DEF AllSound

-----------------------------------------------------------------------------
(* The databases that an upgrade of the backend begins with.                *)

LEMMA FirstRevision ==
  /\ IsScript(Backend[1]) /\ Len(Backend[1]) \in Nat \ {0}
  /\ Backend[1][1] = CreateNew("audit_logs", {})
  /\ \A s \in ToSet(Backend[1]) : /\ IsAdding(s) /\ QueuedAt \notin Gained(s)
                                  /\ s.table \notin {"schema_migrations", "alembic_version"}
                                  /\ SchemaAfter(s, {}) = Gained(s)
  /\ \A j \in 1..Len(Backend[1]) : Backend[1][j] \in ToSet(Backend[1])
<1> DEFINE c == Backend[1]
<1>1. NewOnly(c, {QueuedAt}) /\ Begins(c, CreateNew("audit_logs", {}))
  BY BackendScripts, BackendBegins
<1> HIDE DEF c
<1>2. IsScript(c) /\ Len(c) # 0 /\ c[1] = CreateNew("audit_logs", {})
  BY <1>1 DEF Begins
<1>3. Len(c) \in Nat /\ \A j \in 1..Len(c) : c[j] \in ToSet(c)
  BY <1>2 DEF IsScript, ToSet
<1>4. \A s \in ToSet(c) : IsNew(s, {QueuedAt})
  BY <1>1 DEF NewOnly
<1>5. ASSUME NEW s \in ToSet(c)
      PROVE  /\ IsAdding(s) /\ QueuedAt \notin Gained(s)
             /\ s.table \notin {"schema_migrations", "alembic_version"}
             /\ SchemaAfter(s, {}) = Gained(s)
  <2>1. IsAdding(s) /\ QueuedAt \notin Gained(s)
        /\ s.table \notin {"schema_migrations", "alembic_version"}
    BY <1>4, <1>5 DEF IsNew, IsAdding
  <2>2. SchemaAfter(s, {}) = Gained(s)
    BY <2>1, AddsGained
  <2> QED
    BY <2>1, <2>2
<1> QED
  BY <1>2, <1>3, <1>5 DEF c

LEMMA FirstRevisionMakes ==
  ASSUME svc = "backend", fts5
  PROVE  Low(2) = Baseline["backend"]
<1> DEFINE c == Backend[1]
           B == Baseline["backend"]
           n == Len(c)
           S == {i \in Nat : i <= n => Made(1, i) = UNION {Gained(c[j]) : j \in 1..i}}
<1>1. IsScript(c) /\ n \in Nat /\ \A j \in 1..n : IsAdding(c[j])
  BY FirstRevision
<1>2. /\ Made(1, 0) = {} /\ Script(1) = c
      /\ \A i \in 1..n : Made(1, i) = SchemaAfter(c[i], Made(1, i - 1))
      /\ Made(1, n) = Low(2)
  <2>1. 1 \in 1..10 /\ 1 + 1 = 2
    OBVIOUS
  <2>2. /\ Low(1) = {} /\ Script(1) = c /\ Made(1, 0) = Low(1)
        /\ \A i \in 1..Len(Script(1)) : Made(1, i) = SchemaAfter(Script(1)[i], Made(1, i - 1))
        /\ Made(1, Len(Script(1))) = Low(1 + 1)
    BY <2>1, BackendSchemas
  <2> HIDE DEF c
  <2> QED
    BY <2>1, <2>2
<1>3. B = UNION {Gained(c[j]) : j \in 1..n}
  <2>1. B = UNION {SchemaAfter(s, {}) : s \in ToSet(c)}
    BY BackendScripts DEF Baseline, Services
  <2>2. \A s \in ToSet(c) : SchemaAfter(s, {}) = Gained(s)
    BY FirstRevision
  <2>3. ToSet(c) = {c[j] : j \in 1..n}
    BY <1>1 DEF IsScript, ToSet
  <2> HIDE DEF c, B, n
  <2> QED
    BY <2>1, <2>2, <2>3
<1> HIDE DEF c, B, n
<1>4. 0 \in S
  <2>1. UNION {Gained(c[j]) : j \in 1..0} = {}
    OBVIOUS
  <2> QED
    BY <1>2, <2>1
<1>5. ASSUME NEW i \in Nat, i \in S PROVE i + 1 \in S
  <2>1. SUFFICES ASSUME i + 1 <= n PROVE Made(1, i + 1) = UNION {Gained(c[j]) : j \in 1..(i + 1)}
    OBVIOUS
  <2> DEFINE k == i + 1
             h == Made(1, i)
             s == c[k]
  <2>2. k \in 1..n /\ k - 1 = i /\ i <= n
    BY <1>1, <2>1
  <2>3. Made(1, k) = SchemaAfter(s, h) /\ IsAdding(s)
    BY <1>1, <1>2, <2>2
  <2>4. h = UNION {Gained(c[j]) : j \in 1..i}
    BY <1>5, <2>2
  <2>5. \A j : j \in 1..k <=> j \in 1..i \/ j = k
    OBVIOUS
  <2> HIDE DEF k, h
  <2>6. Made(1, k) = h \cup Gained(s)
    <3> HIDE DEF s
    <3>1. SchemaAfter(s, h) = h \cup Gained(s)
      BY <2>3, AddsGained
    <3> QED
      BY <2>3, <3>1
  <2>7. Made(1, k) = UNION {Gained(c[j]) : j \in 1..k}
    BY <2>4, <2>5, <2>6
  <2> QED
    BY <2>7 DEF k
<1>6. n \in S
  <2> HIDE DEF S
  <2>1. Nat \subseteq S
    BY <1>4, <1>5, Inductive
  <2> QED
    BY <1>1, <2>1
<1>7. Made(1, n) = UNION {Gained(c[j]) : j \in 1..n}
  BY <1>1, <1>6
<1> QED
  BY <1>2, <1>3, <1>7 DEF B

LEMMA BackendBased ==
  ASSUME svc = "backend", fts5
  PROVE  Based
<1> DEFINE B == Baseline["backend"]
           c == Backend[1]
<1>1. B = UNION {Gained(s) : s \in ToSet(c)}
  <2>1. B = UNION {SchemaAfter(s, {}) : s \in ToSet(c)}
    BY BackendScripts DEF Baseline, Services
  <2>2. \A s \in ToSet(c) : SchemaAfter(s, {}) = Gained(s)
    BY FirstRevision
  <2> HIDE DEF c, B
  <2> QED
    BY <2>1, <2>2
<1>2. QueuedAt \notin B
  BY <1>1, FirstRevision
<1>3. Ledger[svc] \notin B
  <2>1. Ledger[svc][1] = "alembic_version"
    <3>1. Ledger[svc] = TheTable("alembic_version")
      BY DEF Ledger, Services
    <3> QED
      BY <3>1, TableIs
  <2>2. \A s \in ToSet(c) : s.table # "alembic_version"
    BY FirstRevision
  <2>3. \A s : \A o \in Gained(s) : o[1] = s.table
    BY TableIs DEF Gained, Parts
  <2> HIDE DEF c, B
  <2> QED
    BY <1>1, <2>1, <2>2, <2>3
<1>4. Low(2) = B /\ Low(1) = {} /\ Script(1) = c
  <2>1. 1 \in 1..10
    OBVIOUS
  <2> QED
    BY <2>1, FirstRevisionMakes, BackendSchemas
<1>5. FirstFails(1, B)
  <2>1. c[1] = CreateNew("audit_logs", {}) /\ c[1] \in ToSet(c)
    BY FirstRevision
  <2>2. c[1].op = "create" /\ c[1].table = "audit_logs"
    BY <2>1, AddFields
  <2>3. TheTable(c[1].table) \in Gained(c[1])
    BY <2>2 DEF Gained
  <2> HIDE DEF c, B
  <2>4. TheTable(c[1].table) \in B
    BY <1>1, <2>1, <2>3
  <2> QED
    BY <1>4, <2>2, <2>4 DEF FirstFails, IsError
<1>6. Compat(svc) = {}
  BY DEF Compat
<1> HIDE DEF B
<1>7. \A m \in 1..10 : \A h : Stands(m, h) <=> Revised(m, h)
  BY RevisedIs
<1>8. 1 \in 1..10 /\ 2 \in 1..10 /\ ~(1 > 2) /\ ~(2 > 2)
  OBVIOUS
<1>9. Stands(1, {}) /\ Stands(1, B) /\ Stands(2, B)
  BY <1>4, <1>5, <1>7, <1>8 DEF Revised
<1>10. B \ Compat(svc) = B /\ Baseline[svc] = B
  BY <1>6 DEF B
<1> QED
  BY <1>2, <1>3, <1>9, <1>10 DEF Based

-----------------------------------------------------------------------------
(* The theorems.                                                            *)

LEMMA ServicesAre ==
  ASSUME svc \in Services, svc # "diagnosis" => fts5
  PROVE  AllSound /\ Based
<1>1. svc = "control" \/ svc = "diagnosis" \/ svc = "backend"
  BY DEF Services
<1> QED
  BY <1>1, ControlSound, ControlBased, DiagnosisSound, DiagnosisBased, BackendSound, BackendBased

(* How far the schema of a database is from that of the version before and    *)
(* of the version that is being made, wherever its upgraders are and were     *)
(* interrupted: what the statements they have passed make is there, and of    *)
(* the later ones no more than can still be repeated or is refused.  As long  *)
(* as nothing has brought the schema out of order, it holds for the control   *)
(* service, the diagnosis service and the backend, with any number of         *)
(* processes and of crashes.                                                  *)
THEOREM WholeHolds == Spec => []WholeInv
<1>1. Init => WholeInv
  <2> SUFFICES ASSUME Init PROVE WholeInv
    OBVIOUS
  <2>1. svc \in Services /\ (svc # "diagnosis" => fts5)
    BY SchemaAssumption DEF Init
  <2>2. Based
    BY <2>1, ServicesAre
  <2> QED
    BY <2>2, WholeInit
<1>2. SchemaInv /\ WholeInv /\ [Next]_vars => WholeInv'
  <2> SUFFICES ASSUME SchemaInv, WholeInv, [Next]_vars PROVE WholeInv'
    OBVIOUS
  <2>1. svc \in Services /\ (svc # "diagnosis" => fts5)
    BY DEF WholeInv
  <2>2. AllSound /\ Based
    BY <2>1, ServicesAre
  <2> QED
    BY <2>2, WholeSteps
<1> QED
  BY <1>1, <1>2, SchemaHolds, PTL DEF Spec

(* A database that records the last version has the schema that an            *)
(* uninterrupted upgrade makes, no object more and none less, whichever       *)
(* scripts made it and whoever was interrupted (migrations.py of the common   *)
(* package and of the backend), unless an upgrader was late or an unfinished  *)
(* first revision was stamped.                                                *)
THEOREM SchemaStaysWhole == Spec => []SchemaIsWhole
<1>1. WholeInv => SchemaIsWhole
  BY WholeGives
<1> QED
  BY <1>1, WholeHolds, PTL
================================================================================
