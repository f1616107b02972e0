------------------------- MODULE Configuration_proofs -------------------------
(***************************************************************************)
(* The configuration as it is read: for every tidy file of whatever length *)
(* the three nested loops of the parser make exactly the blocks and the    *)
(* locations that are written there if what a line depends on is above it, *)
(* and a request is given the one the file says. ReadSoFar is inductive:   *)
(* after each line the block and the location in progress are what the     *)
(* lines before it say, in their order. The last part shows that the order *)
(* makes no difference in a file that is InOrder.                          *)
(***************************************************************************)
EXTENDS Program_proofs, FiniteSetTheorems, SequenceTheorems

-----------------------------------------------------------------------------
(* What the lines before the line e say, each with what stands above it:   *)
(* the root directory and the index file of the block that begins at o.    *)
RootAt(f, o, e) ==
    ValueOr(f, LinesWith(f, o, e, "root_directory"), ServerDefaults.root_directory)
IndexAt(f, o, e) ==
    ValueOr(f, {i \in LinesWith(f, o, e, "index_file") :
                   <<RootAt(f, o, i), NoFolder, "index_file", f[i].value>> \notin Missing},
            ServerDefaults.index_file)

(* What the lines before e say of the location that begins at p, in the    *)
(* block that begins at o.                                                 *)
LocationUpTo(f, o, p, e) ==
    LET Plain(k) == ValueOr(f, LinesWith(f, p, e, k), 0)
        Root(i) == ValueOr(f, LinesWith(f, p, i, "root_directory"), RootAt(f, o, p))
        found == {i \in LinesWith(f, p, e, "index_file") :
                     <<Root(i), f[p].value, "index_file", f[i].value>> \notin Missing}
    IN  [uri |-> f[p].value, isCgi |-> f[p].value \in Extensions,
         root_directory |-> Root(e),
         index_file |-> ValueOr(f, found, IndexAt(f, o, p)),
         noIndexFile |-> found = {},
         allow_methods |-> Plain("allow_methods"), auto_index |-> Plain("auto_index"),
         interpreter_path |-> Plain("interpreter_path"),
         redirection |-> Plain("redirection"), set_cookies |-> Plain("set_cookies")]

LocationsUpTo(f, o, e) ==
    [n \in 1 .. Cardinality(Before(Begins(f, o), e)) |->
        LET p == Nth(Begins(f, o), n) IN LocationUpTo(f, o, p, EndOf(f, p))]

(* What the lines before e say of the block that begins at o.              *)
ServerUpTo(f, o, e) ==
    LET Of(k) == LinesWith(f, o, e, k)
        Plain(k) == ValueOr(f, Of(k), ServerDefaults[k])
        Path(k) == IF Of(k) = {} THEN ServerDefaults[k]
                   ELSE <<RootAt(f, o, Last(Of(k))), f[Last(Of(k))].value>>
    IN  [server_name |-> Plain("server_name"), listens_to |-> Plain("listens_to"),
         host |-> Plain("host"), root_directory |-> RootAt(f, o, e),
         index_file |-> IndexAt(f, o, e),
         client_max_body_size |-> Plain("client_max_body_size"),
         error_page |-> Path("error_page"), upload_directory |-> Path("upload_directory"),
         locations |-> LocationsUpTo(f, o, e)]

(* The blocks that begin before the line e, each read to its end.          *)
BlocksUpTo(f, e) ==
    [n \in 1 .. Cardinality(Before(Starts(f), e)) |->
        LET o == Nth(Starts(f), n) IN ServerUpTo(f, o, EndOf(f, o))]

BlocksInLineOrder(f) == BlocksUpTo(f, Len(f) + 1)

-----------------------------------------------------------------------------
(* Counting lines                                                           *)

(* The interval of one line.                                               *)
LEMMA OneLine ==
    ASSUME NEW e \in Nat
    PROVE  e + 1 \in Nat /\ e <= e + 1 /\ e < e + 1 /\ \A i \in e .. (e + 1) - 1 : i = e
OBVIOUS

(* What the lines of a file are.                                           *)
LEMMA LinesOf ==
    ASSUME NEW f \in Seq(Line)
    PROVE  /\ Len(f) \in Nat /\ DOMAIN f = 1 .. Len(f)
           /\ \A i \in DOMAIN f : i \in Nat /\ f[i] \in Line /\ f[i].value \in Nat
<1>1. Len(f) \in Nat /\ DOMAIN f = 1 .. Len(f)
  OBVIOUS
<1>2. \A i \in DOMAIN f : f[i] \in Line
  BY <1>1
<1>3. \A l \in Line : l.value \in Nat
  BY DEF Line
<1> QED
  BY <1>1, <1>2, <1>3

(* How many of a set of lines come before a line: one more after each.     *)
LEMMA CountStep ==
    ASSUME NEW m \in Nat, NEW S \in SUBSET (1 .. m), NEW e \in Nat
    PROVE  /\ Cardinality(Before(S, e)) \in Nat
           /\ Cardinality(Before(S, e + 1)) = Cardinality(Before(S, e)) + IF e \in S THEN 1 ELSE 0
<1>1. IsFiniteSet(1 .. m)
  BY FS_Interval
<1>2. IsFiniteSet(Before(S, e))
  <2>1. Before(S, e) \in SUBSET (1 .. m)
    BY Zenon DEF Before
  <2> QED
    BY <1>1, <2>1, FS_Subset
<1>3. \A i \in S : i < e + 1 <=> i < e \/ i = e
  <2> TAKE i \in S
  <2>1. i \in Int
    OBVIOUS
  <2> QED
    BY <2>1
<1>4. Before(S, e + 1) = Before(S, e) \cup (S \cap {e}) /\ e \notin Before(S, e)
  <2>1. ~(e < e)
    OBVIOUS
  <2>2. e \notin Before(S, e)
    BY <2>1, Zenon DEF Before
  <2>3. Before(S, e + 1) = Before(S, e) \cup (S \cap {e})
    BY <1>3, Zenon DEF Before
  <2> QED
    BY <2>2, <2>3
<1>5. Before(S, e + 1) = IF e \in S THEN Before(S, e) \cup {e} ELSE Before(S, e)
  BY <1>4
<1>6. Cardinality(Before(S, e)) \in Nat
  BY <1>2, FS_CardinalityType
<1>7. Cardinality(Before(S, e) \cup {e}) = Cardinality(Before(S, e)) + 1
  BY <1>2, <1>4, FS_AddElement
<1> QED
  BY <1>5, <1>6, <1>7

(* Lines that are none of them do not count.                               *)
LEMMA BeforeSame ==
    ASSUME NEW S \in SUBSET Nat, NEW d \in Nat, NEW e \in Nat, d <= e,
           \A i \in d .. e - 1 : i \notin S
    PROVE  Before(S, e) = Before(S, d)
<1>1. \A i \in S : i < e <=> i < d
  OBVIOUS
<1> QED
  BY <1>1, Zenon DEF Before

(* The count never falls.                                                  *)
LEMMA CountGrows ==
    ASSUME NEW m \in Nat, NEW S \in SUBSET (1 .. m), NEW d \in Nat, NEW e \in Nat, d <= e
    PROVE  Cardinality(Before(S, d)) <= Cardinality(Before(S, e))
<1>1. \A i \in S : i < d => i < e
  OBVIOUS
<1>2. Before(S, e) \in SUBSET (1 .. m) /\ Before(S, d) \in SUBSET Before(S, e)
  BY <1>1, Zenon DEF Before
<1>3. IsFiniteSet(1 .. m)
  BY FS_Interval
<1>4. IsFiniteSet(Before(S, e))
  BY <1>2, <1>3, FS_Subset
<1> QED
  BY <1>2, <1>4, FS_Subset

(* Counting finds a line again.                                            *)
LEMMA NthOfCount ==
    ASSUME NEW m \in Nat, NEW S \in SUBSET (1 .. m), NEW x \in S
    PROVE  Nth(S, Cardinality(Before(S, x)) + 1) = x
<1> DEFINE count(e) == Cardinality(Before(S, e))
<1>1. \A e \in Nat : count(e) \in Nat /\ count(e + 1) = count(e) + IF e \in S THEN 1 ELSE 0
  BY CountStep
<1>2. \A d, e \in Nat : d <= e => count(d) <= count(e)
  BY CountGrows
<1>3. \A i \in S : {j \in S : j <= i} = Before(S, i + 1) /\ i \in Nat
  <2>1. \A i, j \in S : i \in Nat /\ (j <= i <=> j < i + 1)
    OBVIOUS
  <2> QED
    BY <2>1, Zenon DEF Before
<1> HIDE DEF count
<1>4. \A i \in S : count(i + 1) = count(x) + 1 => i = x
  <2> TAKE i \in S
  <2>1. count(i + 1) = count(i) + 1 /\ count(x + 1) = count(x) + 1
        /\ count(i) \in Nat /\ count(x) \in Nat
    BY <1>1, <1>3
  <2>2. CASE i < x
    <3>1. count(i + 1) <= count(x)
      BY <1>2, <1>3, <2>2
    <3> QED
      BY <2>1, <3>1
  <2>3. CASE x < i
    <3>1. count(x + 1) <= count(i)
      BY <1>2, <1>3, <2>3
    <3> QED
      BY <2>1, <3>1
  <2> QED
    BY <1>3, <2>2, <2>3
<1>5. \A i \in S : Cardinality({j \in S : j <= i}) = count(i + 1)
  BY <1>3 DEF count
<1>6. x \in S /\ count(x + 1) = count(x) + 1
  BY <1>1, <1>3
<1>7. Nth(S, count(x) + 1) = x
  BY <1>4, <1>5, <1>6 DEF Nth
<1> QED
  BY <1>7 DEF count

-----------------------------------------------------------------------------
(* Depth                                                                    *)

Opens(l) == l.mark \in {"server {", "{"}
Closes(l) == l.mark = "}"

(* A line opens a block, closes one, or does neither.                      *)
LEMMA DepthStep ==
    ASSUME NEW f \in Seq(Line), NEW e \in DOMAIN f
    PROVE  /\ Depth(f, e) \in Int
           /\ Opens(f[e]) => Depth(f, e + 1) = Depth(f, e) + 1
           /\ Closes(f[e]) => Depth(f, e + 1) = Depth(f, e) - 1
           /\ ~Opens(f[e]) /\ ~Closes(f[e]) => Depth(f, e + 1) = Depth(f, e)
<1> DEFINE A == Marked(f, {"server {", "{"})
           B == Marked(f, {"}"})
<1>1. Len(f) \in Nat /\ DOMAIN f = 1 .. Len(f) /\ e \in Nat
  OBVIOUS
<1>2. A \in SUBSET (1 .. Len(f)) /\ B \in SUBSET (1 .. Len(f))
  BY <1>1 DEF Marked
<1>3. (e \in A <=> Opens(f[e])) /\ (e \in B <=> Closes(f[e]))
  BY DEF Marked, Opens, Closes
<1>4. ~(Opens(f[e]) /\ Closes(f[e]))
  BY DEF Opens, Closes
<1> HIDE DEF A, B
<1>5. /\ Cardinality(Before(A, e)) \in Nat
      /\ Cardinality(Before(A, e + 1)) = Cardinality(Before(A, e)) + IF e \in A THEN 1 ELSE 0
  BY <1>1, <1>2, CountStep
<1>6. /\ Cardinality(Before(B, e)) \in Nat
      /\ Cardinality(Before(B, e + 1)) = Cardinality(Before(B, e)) + IF e \in B THEN 1 ELSE 0
  BY <1>1, <1>2, CountStep
<1>7. \A i : Depth(f, i) = Cardinality(Before(A, i)) - Cardinality(Before(B, i))
  BY DEF Depth, A, B
<1> QED
  BY <1>3, <1>4, <1>5, <1>6, <1>7

(* No line, no depth.                                                      *)
LEMMA DepthAtFirst ==
    ASSUME NEW f \in Seq(Line)
    PROVE  Depth(f, 1) = 0
<1> DEFINE A == Marked(f, {"server {", "{"})
           B == Marked(f, {"}"})
<1>1. Before(A, 1) = {} /\ Before(B, 1) = {}
  <2>1. \A i \in DOMAIN f : ~(i < 1)
    OBVIOUS
  <2> QED
    BY <2>1, Zenon DEF Before, Marked
<1>2. Depth(f, 1) = Cardinality(Before(A, 1)) - Cardinality(Before(B, 1))
  BY DEF Depth
<1> HIDE DEF A, B
<1>3. Cardinality(Before(A, 1)) = 0 /\ Cardinality(Before(B, 1)) = 0
  BY <1>1, FS_EmptySet
<1> QED
  BY <1>2, <1>3

Inside(f, o, e) == \A i \in o + 1 .. e : Depth(f, i) > Depth(f, o)

(* A block ends with the first line that takes the depth back.             *)
LEMMA EndFound ==
    ASSUME NEW f \in Seq(Line), NEW o \in DOMAIN f, NEW e \in DOMAIN f, o < e,
           Inside(f, o, e), Depth(f, e + 1) = Depth(f, o)
    PROVE  EndOf(f, o) = e
<1> DEFINE S == {j \in o .. Len(f) : Depth(f, j + 1) = Depth(f, o)} \cup {Len(f)}
<1>1. e \in S /\ S \in SUBSET Nat /\ e <= Len(f)
  OBVIOUS
<1>2. \A j \in S : e <= j
  <2> SUFFICES ASSUME NEW j \in S, j < e PROVE FALSE
    BY <1>1
  <2>1. j + 1 \in o + 1 .. e /\ Depth(f, j + 1) = Depth(f, o)
    BY <1>1
  <2>2. Depth(f, o) \in Int
    BY DepthStep
  <2> QED
    BY <2>1, <2>2 DEF Inside
<1> HIDE DEF S
<1>3. First(S) = e
  BY <1>1, <1>2, FirstIsLeast
<1> QED
  BY <1>3 DEF EndOf, S
-----------------------------------------------------------------------------
(* The values of a block, one line later                                    *)

(* The last line added is the last line.                                   *)
LEMMA LastAdded ==
    ASSUME NEW e \in Nat, NEW S \in SUBSET Nat, \A j \in S : j < e
    PROVE  Last(S \cup {e}) = e
<1>1. \A j \in S \cup {e} : j \in Nat /\ j <= e
  OBVIOUS
<1>2. \A i \in S \cup {e} : (\A j \in S \cup {e} : j <= i) => i = e
  BY <1>1
<1> QED
  BY <1>1, <1>2 DEF Last

(* A line that sets k in the block that begins at o.                       *)
Sets(f, o, e, k) ==
    f[e].mark = "value" /\ f[e].words = {k} /\ Depth(f, e) = Depth(f, o) + 1

(* The lines with k, one line later.                                       *)
LEMMA LinesStep ==
    ASSUME NEW f \in Seq(Line), NEW o \in DOMAIN f, NEW e \in DOMAIN f, o < e, NEW k
    PROVE  /\ LinesWith(f, o, e, k) \in SUBSET Nat
           /\ \A j \in LinesWith(f, o, e, k) : j < e
           /\ LinesWith(f, o, e + 1, k) =
                 IF Sets(f, o, e, k) THEN LinesWith(f, o, e, k) \cup {e} ELSE LinesWith(f, o, e, k)
<1>1. o + 1 .. (e + 1) - 1 = (o + 1 .. e - 1) \cup {e}
  OBVIOUS
<1>2. \A j \in o + 1 .. e - 1 : j \in Nat /\ j < e
  OBVIOUS
<1>3. LinesWith(f, o, e, k) = {i \in o + 1 .. e - 1 : Sets(f, o, i, k)}
  BY DEF LinesWith, Sets
<1>4. LinesWith(f, o, e + 1, k) = {i \in (o + 1 .. e - 1) \cup {e} : Sets(f, o, i, k)}
  BY <1>1 DEF LinesWith, Sets
<1> QED
  BY <1>2, <1>3, <1>4

(* The last value of lines to which one is added.                          *)
LEMMA ValueStep ==
    ASSUME NEW f, NEW e \in Nat, NEW S \in SUBSET Nat, \A j \in S : j < e, NEW d
    PROVE  ValueOr(f, S \cup {e}, d) = f[e].value
BY LastAdded DEF ValueOr

(* The lines of the index files that are on the disk below the root as it  *)
(* was.                                                                    *)
Indices(f, o, e) ==
    {i \in LinesWith(f, o, e, "index_file") :
        ~IsMissing(RootAt(f, o, i), NoFolder, "index_file", f[i].value)}

(* The same by name.                                                       *)
LEMMA IndexOf ==
    \A f, o, e : IndexAt(f, o, e) = ValueOr(f, Indices(f, o, e), ServerDefaults.index_file)
BY DEF IndexAt, Indices, IsMissing

(* The value of a keyword, one line later.                                 *)
LEMMA ValueOfStep ==
    ASSUME NEW f \in Seq(Line), NEW o \in DOMAIN f, NEW e \in DOMAIN f, o < e, NEW k, NEW d
    PROVE  ValueOr(f, LinesWith(f, o, e + 1, k), d) =
              IF Sets(f, o, e, k) THEN f[e].value ELSE ValueOr(f, LinesWith(f, o, e, k), d)
<1> DEFINE S == LinesWith(f, o, e, k)
<1>1. e \in Nat
  OBVIOUS
<1>2. /\ S \in SUBSET Nat /\ \A j \in S : j < e
      /\ LinesWith(f, o, e + 1, k) = IF Sets(f, o, e, k) THEN S \cup {e} ELSE S
  BY LinesStep
<1> HIDE DEF S
<1>3. ValueOr(f, S \cup {e}, d) = f[e].value
  BY <1>1, <1>2, ValueStep
<1> QED
  BY <1>2, <1>3 DEF S

(* The root of a block, one line later.                                    *)
LEMMA RootStep ==
    ASSUME NEW f \in Seq(Line), NEW o \in DOMAIN f, NEW e \in DOMAIN f, o < e
    PROVE  RootAt(f, o, e + 1) =
              IF Sets(f, o, e, "root_directory") THEN f[e].value ELSE RootAt(f, o, e)
BY ValueOfStep DEF RootAt

(* The index file, one line later.                                         *)
LEMMA IndexStep ==
    ASSUME NEW f \in Seq(Line), NEW o \in DOMAIN f, NEW e \in DOMAIN f, o < e
    PROVE  IndexAt(f, o, e + 1) =
              IF /\ Sets(f, o, e, "index_file")
                 /\ ~IsMissing(RootAt(f, o, e), NoFolder, "index_file", f[e].value)
              THEN f[e].value ELSE IndexAt(f, o, e)
<1> DEFINE S == LinesWith(f, o, e, "index_file")
           added == /\ Sets(f, o, e, "index_file")
                    /\ ~IsMissing(RootAt(f, o, e), NoFolder, "index_file", f[e].value)
<1>1. S \in SUBSET Nat /\ e \in Nat /\ \A j \in S : j < e
  <2>1. e \in Nat
    OBVIOUS
  <2> QED
    BY <2>1, LinesStep
<1>2. LinesWith(f, o, e + 1, "index_file") = IF Sets(f, o, e, "index_file") THEN S \cup {e} ELSE S
  BY LinesStep
<1>3. Indices(f, o, e + 1) = IF added THEN Indices(f, o, e) \cup {e} ELSE Indices(f, o, e)
  BY <1>2 DEF Indices
<1>4. Indices(f, o, e) \in SUBSET Nat /\ \A j \in Indices(f, o, e) : j < e
  BY <1>1 DEF Indices
<1>5. ValueOr(f, Indices(f, o, e) \cup {e}, ServerDefaults.index_file) = f[e].value
  BY <1>1, <1>4, ValueStep
<1> QED
  BY <1>3, <1>5, IndexOf

(* Lines that begin no location add none.                                  *)
LEMMA LocationsStay ==
    ASSUME NEW f \in Seq(Line), NEW o \in DOMAIN f, NEW d \in Nat, NEW e \in Nat, d <= e,
           \A i \in d .. e - 1 : f[i].mark # "{"
    PROVE  LocationsUpTo(f, o, e) = LocationsUpTo(f, o, d)
<1> DEFINE S == Begins(f, o)
<1>1. S \in SUBSET Nat /\ \A i \in d .. e - 1 : i \notin S
  BY LinesOf DEF Begins, Marked
<1> HIDE DEF S
<1>2. Before(S, e) = Before(S, d)
  BY <1>1, BeforeSame
<1> QED
  BY <1>2 DEF LocationsUpTo, S

(* Lines that set nothing in the block change nothing but its locations.   *)
LEMMA ServerStays ==
    ASSUME NEW f \in Seq(Line), NEW o \in DOMAIN f, NEW d \in Nat, NEW e \in Nat,
           o < d, d <= e, \A i \in d .. e - 1 : \A k : ~Sets(f, o, i, k)
    PROVE  ServerUpTo(f, o, e) =
              [ServerUpTo(f, o, d) EXCEPT !.locations = LocationsUpTo(f, o, e)]
<1>1. \A k : LinesWith(f, o, e, k) = LinesWith(f, o, d, k)
  <2>1. o + 1 .. e - 1 = (o + 1 .. d - 1) \cup (d .. e - 1)
    OBVIOUS
  <2>2. \A k : LinesWith(f, o, d, k) = {i \in o + 1 .. d - 1 : Sets(f, o, i, k)}
    BY DEF LinesWith, Sets
  <2>3. \A k : LinesWith(f, o, e, k) = {i \in o + 1 .. e - 1 : Sets(f, o, i, k)}
    BY DEF LinesWith, Sets
  <2> QED
    BY <2>1, <2>2, <2>3, Zenon
<1>2. RootAt(f, o, e) = RootAt(f, o, d)
  BY <1>1 DEF RootAt
<1>3. Indices(f, o, e) = Indices(f, o, d)
  BY <1>1 DEF Indices
<1>4. IndexAt(f, o, e) = IndexAt(f, o, d)
  BY <1>3, IndexOf
<1> DEFINE Plain(x, i) == ValueOr(f, LinesWith(f, o, i, x), ServerDefaults[x])
           Path(x, i) == IF LinesWith(f, o, i, x) = {} THEN ServerDefaults[x]
                         ELSE <<RootAt(f, o, Last(LinesWith(f, o, i, x))),
                                f[Last(LinesWith(f, o, i, x))].value>>
           Fields(i) ==
             [server_name |-> Plain("server_name", i), listens_to |-> Plain("listens_to", i),
              host |-> Plain("host", i), root_directory |-> RootAt(f, o, i),
              index_file |-> IndexAt(f, o, i),
              client_max_body_size |-> Plain("client_max_body_size", i),
              error_page |-> Path("error_page", i),
              upload_directory |-> Path("upload_directory", i),
              locations |-> LocationsUpTo(f, o, i)]
<1>5. ServerUpTo(f, o, d) = Fields(d) /\ ServerUpTo(f, o, e) = Fields(e)
  BY Zenon DEF ServerUpTo
<1>6. \A x : Plain(x, e) = Plain(x, d) /\ Path(x, e) = Path(x, d)
  BY <1>1
<1> HIDE DEF Plain, Path
<1> QED
  BY <1>2, <1>4, <1>5, <1>6

(* A line that sets nothing and begins nothing leaves it as it was.        *)
LEMMA ServerSame ==
    ASSUME NEW f \in Seq(Line), NEW o \in DOMAIN f, NEW e \in DOMAIN f, o < e,
           \A k : ~Sets(f, o, e, k), ~Opens(f[e])
    PROVE  ServerUpTo(f, o, e + 1) = ServerUpTo(f, o, e)
<1>1. e \in Nat
  BY LinesOf
<1>2. e + 1 \in Nat /\ e <= e + 1 /\ \A i \in e .. (e + 1) - 1 : i = e
  BY <1>1, OneLine
<1>3. LocationsUpTo(f, o, e + 1) = LocationsUpTo(f, o, e)
  <2>1. f[e].mark # "{"
    BY DEF Opens
  <2> QED
    BY <1>1, <1>2, <2>1, LocationsStay
<1>4. \A i \in e .. (e + 1) - 1 : \A k : ~Sets(f, o, i, k)
  BY <1>2
<1>5. ServerUpTo(f, o, e + 1) =
         [ServerUpTo(f, o, e) EXCEPT !.locations = LocationsUpTo(f, o, e + 1)]
  BY <1>1, <1>2, <1>4, ServerStays
<1> QED
  BY <1>3, <1>5 DEF ServerUpTo

(* A line that sets k makes of the block what the setter makes of it.      *)
LEMMA ServerSet ==
    ASSUME NEW f \in Seq(Line), NEW o \in DOMAIN f, NEW e \in DOMAIN f, o < e,
           NEW k \in ServerKey, Sets(f, o, e, k),
           k = "client_max_body_size" => f[e].value < UintRange
    PROVE  ServerUpTo(f, o, e + 1) = SetServer(ServerUpTo(f, o, e), k, f[e].value)
<1> DEFINE v == f[e].value
           Plain(x, i) == ValueOr(f, LinesWith(f, o, i, x), ServerDefaults[x])
           Path(x, i) == IF LinesWith(f, o, i, x) = {} THEN ServerDefaults[x]
                         ELSE <<RootAt(f, o, Last(LinesWith(f, o, i, x))),
                                f[Last(LinesWith(f, o, i, x))].value>>
           root == RootAt(f, o, e)
<1>1. \A x : Sets(f, o, e, x) <=> x = k
  BY DEF Sets
<1>2. \A x : x # k => LinesWith(f, o, e + 1, x) = LinesWith(f, o, e, x)
  BY <1>1, LinesStep
<1>3. \A x : x # k => Plain(x, e + 1) = Plain(x, e) /\ Path(x, e + 1) = Path(x, e)
  BY <1>2
<1>4. LinesWith(f, o, e + 1, k) # {} /\ Last(LinesWith(f, o, e + 1, k)) = e
  <2> DEFINE S == LinesWith(f, o, e, k)
  <2>1. e \in Nat
    OBVIOUS
  <2>2. S \in SUBSET Nat /\ (\A j \in S : j < e) /\ LinesWith(f, o, e + 1, k) = S \cup {e}
    BY LinesStep
  <2> HIDE DEF S
  <2> QED
    BY <2>1, <2>2, LastAdded
<1>5. Plain(k, e + 1) = v /\ Path(k, e + 1) = <<root, v>>
  BY <1>4 DEF ValueOr
<1>6. RootAt(f, o, e + 1) = IF k = "root_directory" THEN v ELSE root
  BY <1>1, RootStep
<1>7. IndexAt(f, o, e + 1) =
         IF k = "index_file" /\ ~IsMissing(root, NoFolder, k, v) THEN v ELSE IndexAt(f, o, e)
  BY <1>1, IndexStep
<1>8. LocationsUpTo(f, o, e + 1) = LocationsUpTo(f, o, e)
  <2>1. e \in Nat /\ e + 1 \in Nat /\ e <= e + 1 /\ \A i \in e .. (e + 1) - 1 : i = e
    BY LinesOf
  <2>2. f[e].mark # "{"
    BY DEF Sets
  <2> QED
    BY <2>1, <2>2, LocationsStay
<1> DEFINE Fields(i) ==
             [server_name |-> Plain("server_name", i), listens_to |-> Plain("listens_to", i),
              host |-> Plain("host", i), root_directory |-> RootAt(f, o, i),
              index_file |-> IndexAt(f, o, i),
              client_max_body_size |-> Plain("client_max_body_size", i),
              error_page |-> Path("error_page", i),
              upload_directory |-> Path("upload_directory", i),
              locations |-> LocationsUpTo(f, o, i)]
<1>9. ServerUpTo(f, o, e) = Fields(e) /\ ServerUpTo(f, o, e + 1) = Fields(e + 1)
  BY Zenon DEF ServerUpTo
<1>10. k = "client_max_body_size" => BodySize(v) = v
  <2>1. f[e] \in Line
    OBVIOUS
  <2>2. v \in Nat
    BY <2>1 DEF Line
  <2> QED
    BY <2>2, RangesAssumption DEF BodySize
<1>11. k \in {"server_name", "listens_to", "host", "root_directory", "index_file",
             "client_max_body_size", "error_page", "upload_directory"}
  BY DEF ServerKey, ServerOrder
<1> HIDE DEF Plain, Path
<1>12. ServerUpTo(f, o, e).root_directory = root
  BY <1>9
<1>13. CASE k = "root_directory"
  <2>1. SetServer(Fields(e), k, v) = [Fields(e) EXCEPT !.root_directory = v]
    BY <1>13 DEF SetServer
  <2>2. Fields(e + 1) = [Fields(e) EXCEPT !.root_directory = v]
    BY <1>3, <1>6, <1>7, <1>8, <1>13
  <2> QED
    BY <1>9, <2>1, <2>2
<1>14. CASE k = "index_file"
  <2> DEFINE missing == IsMissing(root, NoFolder, k, v)
  <2>1. SetServer(Fields(e), k, v) = IF missing THEN Fields(e)
                                     ELSE [Fields(e) EXCEPT !.index_file = v]
    BY <1>9, <1>12, <1>14 DEF SetServer
  <2> HIDE DEF missing
  <2>2. Fields(e + 1) = IF missing THEN Fields(e) ELSE [Fields(e) EXCEPT !.index_file = v]
    BY <1>3, <1>6, <1>7, <1>8, <1>14 DEF missing
  <2> QED
    BY <1>9, <2>1, <2>2
<1>15. CASE k = "client_max_body_size"
  <2>1. SetServer(Fields(e), k, v) = [Fields(e) EXCEPT !.client_max_body_size = v]
    BY <1>15, <1>10 DEF SetServer
  <2>2. Fields(e + 1) = [Fields(e) EXCEPT !.client_max_body_size = v]
    BY <1>3, <1>5, <1>6, <1>7, <1>8, <1>15
  <2> QED
    BY <1>9, <2>1, <2>2
<1>16. CASE k = "error_page"
  <2>1. SetServer(Fields(e), k, v) = [Fields(e) EXCEPT !.error_page = <<root, v>>]
    BY <1>16 DEF SetServer
  <2>2. Fields(e + 1) = [Fields(e) EXCEPT !.error_page = <<root, v>>]
    BY <1>3, <1>5, <1>6, <1>7, <1>8, <1>16
  <2> QED
    BY <1>9, <2>1, <2>2
<1>17. CASE k = "upload_directory"
  <2>1. SetServer(Fields(e), k, v) = [Fields(e) EXCEPT !.upload_directory = <<root, v>>]
    BY <1>17 DEF SetServer
  <2>2. Fields(e + 1) = [Fields(e) EXCEPT !.upload_directory = <<root, v>>]
    BY <1>3, <1>5, <1>6, <1>7, <1>8, <1>17
  <2> QED
    BY <1>9, <2>1, <2>2
<1>18. CASE k = "server_name"
  <2>1. SetServer(Fields(e), k, v) = [Fields(e) EXCEPT !.server_name = v]
    BY <1>18 DEF SetServer
  <2>2. Fields(e + 1) = [Fields(e) EXCEPT !.server_name = v]
    BY <1>3, <1>5, <1>6, <1>7, <1>8, <1>18
  <2> QED
    BY <1>9, <2>1, <2>2
<1>19. CASE k = "listens_to"
  <2>1. SetServer(Fields(e), k, v) = [Fields(e) EXCEPT !.listens_to = v]
    BY <1>19 DEF SetServer
  <2>2. Fields(e + 1) = [Fields(e) EXCEPT !.listens_to = v]
    BY <1>3, <1>5, <1>6, <1>7, <1>8, <1>19
  <2> QED
    BY <1>9, <2>1, <2>2
<1>20. CASE k = "host"
  <2>1. SetServer(Fields(e), k, v) = [Fields(e) EXCEPT !.host = v]
    BY <1>20 DEF SetServer
  <2>2. Fields(e + 1) = [Fields(e) EXCEPT !.host = v]
    BY <1>3, <1>5, <1>6, <1>7, <1>8, <1>20
  <2> QED
    BY <1>9, <2>1, <2>2
<1> QED
  BY <1>11, <1>13, <1>14, <1>15, <1>16, <1>17, <1>18, <1>19, <1>20

(* Nothing has been read of a block that begins.                           *)
LEMMA ServerBegins ==
    ASSUME NEW f \in Seq(Line), NEW o \in DOMAIN f
    PROVE  ServerUpTo(f, o, o + 1) = ServerDefaults
<1> DEFINE Plain(x) == ValueOr(f, LinesWith(f, o, o + 1, x), ServerDefaults[x])
           Path(x) == IF LinesWith(f, o, o + 1, x) = {} THEN ServerDefaults[x]
                      ELSE <<RootAt(f, o, Last(LinesWith(f, o, o + 1, x))),
                             f[Last(LinesWith(f, o, o + 1, x))].value>>
<1>1. o \in Nat
  BY LinesOf
<1>2. \A k : LinesWith(f, o, o + 1, k) = {}
  <2>1. o + 1 .. (o + 1) - 1 = {}
    BY <1>1
  <2> QED
    BY <2>1 DEF LinesWith
<1>3. \A k, d : ValueOr(f, LinesWith(f, o, o + 1, k), d) = d
  BY <1>2 DEF ValueOr
<1>4. RootAt(f, o, o + 1) = ServerDefaults.root_directory
  BY <1>3 DEF RootAt
<1>5. IndexAt(f, o, o + 1) = ServerDefaults.index_file
  <2>1. Indices(f, o, o + 1) = {}
    BY <1>2 DEF Indices
  <2> QED
    BY <2>1, IndexOf DEF ValueOr
<1>6. LocationsUpTo(f, o, o + 1) = <<>>
  <2>1. \A i \in Begins(f, o) : ~(i < o + 1)
    <3>1. \A i \in DOMAIN f : i > o => ~(i < o + 1)
      BY <1>1, LinesOf
    <3> QED
      BY <3>1 DEF Begins, Marked
  <2>2. Before(Begins(f, o), o + 1) = {}
    BY <2>1, Zenon DEF Before
  <2>3. Cardinality(Before(Begins(f, o), o + 1)) = 0
    BY <2>2, FS_EmptySet
  <2>4. 1 .. 0 = {}
    OBVIOUS
  <2> QED
    BY <2>3, <2>4 DEF LocationsUpTo
<1>7. \A x : Plain(x) = ServerDefaults[x] /\ Path(x) = ServerDefaults[x]
  BY <1>2, <1>3
<1>8. ServerUpTo(f, o, o + 1) =
         [server_name |-> Plain("server_name"), listens_to |-> Plain("listens_to"),
          host |-> Plain("host"), root_directory |-> RootAt(f, o, o + 1),
          index_file |-> IndexAt(f, o, o + 1),
          client_max_body_size |-> Plain("client_max_body_size"),
          error_page |-> Path("error_page"), upload_directory |-> Path("upload_directory"),
          locations |-> LocationsUpTo(f, o, o + 1)]
  BY Zenon DEF ServerUpTo
<1>9. ServerDefaults =
         [server_name |-> ServerDefaults["server_name"],
          listens_to |-> ServerDefaults["listens_to"], host |-> ServerDefaults["host"],
          root_directory |-> ServerDefaults.root_directory,
          index_file |-> ServerDefaults.index_file,
          client_max_body_size |-> ServerDefaults["client_max_body_size"],
          error_page |-> ServerDefaults["error_page"],
          upload_directory |-> ServerDefaults["upload_directory"], locations |-> <<>>]
  BY DEF ServerDefaults
<1> HIDE DEF Plain, Path
<1> QED
  BY <1>4, <1>5, <1>6, <1>7, <1>8, <1>9

-----------------------------------------------------------------------------
(* The values of a location, one line later                                 *)

LocationRootAt(f, o, p, e) ==
    ValueOr(f, LinesWith(f, p, e, "root_directory"), RootAt(f, o, p))
LocationIndices(f, o, p, e) ==
    {i \in LinesWith(f, p, e, "index_file") :
        ~IsMissing(LocationRootAt(f, o, p, i), f[p].value, "index_file", f[i].value)}
LocationFields(f, o, p, e) ==
    [uri |-> f[p].value, isCgi |-> f[p].value \in Extensions,
     root_directory |-> LocationRootAt(f, o, p, e),
     index_file |-> ValueOr(f, LocationIndices(f, o, p, e), IndexAt(f, o, p)),
     noIndexFile |-> LocationIndices(f, o, p, e) = {},
     allow_methods |-> ValueOr(f, LinesWith(f, p, e, "allow_methods"), 0),
     auto_index |-> ValueOr(f, LinesWith(f, p, e, "auto_index"), 0),
     interpreter_path |-> ValueOr(f, LinesWith(f, p, e, "interpreter_path"), 0),
     redirection |-> ValueOr(f, LinesWith(f, p, e, "redirection"), 0),
     set_cookies |-> ValueOr(f, LinesWith(f, p, e, "set_cookies"), 0)]

(* The same by names.                                                      *)
LEMMA LocationIs ==
    ASSUME NEW f, NEW o, NEW p, NEW e
    PROVE  LocationUpTo(f, o, p, e) = LocationFields(f, o, p, e)
<1>1. LocationIndices(f, o, p, e) =
         {i \in LinesWith(f, p, e, "index_file") :
            <<ValueOr(f, LinesWith(f, p, i, "root_directory"), RootAt(f, o, p)),
              f[p].value, "index_file", f[i].value>> \notin Missing}
  BY DEF LocationIndices, LocationRootAt, IsMissing
<1> QED
  BY <1>1, Zenon DEF LocationUpTo, LocationFields, LocationRootAt

(* A location that begins has the root and the index file of its block.    *)
LEMMA LocationBegins ==
    ASSUME NEW f \in Seq(Line), NEW o \in DOMAIN f, NEW p \in DOMAIN f
    PROVE  LocationUpTo(f, o, p, p + 1) = NewLocation(ServerUpTo(f, o, p), f[p].value)
<1>1. \A k : LinesWith(f, p, p + 1, k) = {}
  <2>1. p + 1 .. (p + 1) - 1 = {}
    BY LinesOf
  <2> QED
    BY <2>1 DEF LinesWith
<1>2. \A k, d : ValueOr(f, LinesWith(f, p, p + 1, k), d) = d
  BY <1>1 DEF ValueOr
<1>3. LocationRootAt(f, o, p, p + 1) = RootAt(f, o, p)
  BY <1>2 DEF LocationRootAt
<1>4. LocationIndices(f, o, p, p + 1) = {}
  BY <1>1 DEF LocationIndices
<1>5. ValueOr(f, LocationIndices(f, o, p, p + 1), IndexAt(f, o, p)) = IndexAt(f, o, p)
  BY <1>4 DEF ValueOr
<1>6. ServerUpTo(f, o, p).root_directory = RootAt(f, o, p)
      /\ ServerUpTo(f, o, p).index_file = IndexAt(f, o, p)
  BY DEF ServerUpTo
<1> QED
  BY <1>2, <1>3, <1>4, <1>5, <1>6, LocationIs DEF NewLocation, LocationFields

(* A line that sets nothing leaves the location as it was.                 *)
LEMMA LocationStays ==
    ASSUME NEW f \in Seq(Line), NEW o \in DOMAIN f, NEW p \in DOMAIN f, NEW e \in DOMAIN f,
           p < e, \A k : ~Sets(f, p, e, k)
    PROVE  LocationUpTo(f, o, p, e + 1) = LocationUpTo(f, o, p, e)
<1>1. \A k : LinesWith(f, p, e + 1, k) = LinesWith(f, p, e, k)
  BY LinesStep
<1> QED
  BY <1>1, LocationIs DEF LocationFields, LocationRootAt, LocationIndices

(* A line that sets k makes of the location what the setter makes of it.   *)
LEMMA LocationSet ==
    ASSUME NEW f \in Seq(Line), NEW o \in DOMAIN f, NEW p \in DOMAIN f, NEW e \in DOMAIN f,
           p < e, NEW k \in LocationKey, Sets(f, p, e, k)
    PROVE  LocationUpTo(f, o, p, e + 1) = SetLocation(LocationUpTo(f, o, p, e), k, f[e].value)
<1> DEFINE v == f[e].value
           Value(x, i) == ValueOr(f, LinesWith(f, p, i, x), 0)
           Cgi == f[p].value \in Extensions
           None(i) == LocationIndices(f, o, p, i) = {}
           S == LinesWith(f, p, e, "index_file")
           D == LocationIndices(f, o, p, e)
           missing == IsMissing(LocationRootAt(f, o, p, e), f[p].value, "index_file", v)
           s == LocationFields(f, o, p, e)
           t == LocationFields(f, o, p, e + 1)
<1>1. \A x : Sets(f, p, e, x) <=> x = k
  BY DEF Sets
<1>2. \A x : Value(x, e + 1) = IF x = k THEN v ELSE Value(x, e)
  BY <1>1, ValueOfStep
<1>3. LocationRootAt(f, o, p, e + 1) =
         IF k = "root_directory" THEN v ELSE LocationRootAt(f, o, p, e)
  BY <1>1, ValueOfStep DEF LocationRootAt
<1>4. /\ S \in SUBSET Nat /\ \A j \in S : j < e
      /\ LinesWith(f, p, e + 1, "index_file") = IF k = "index_file" THEN S \cup {e} ELSE S
  BY <1>1, LinesStep
<1>5. LocationIndices(f, o, p, e + 1) = IF k = "index_file" /\ ~missing THEN D \cup {e} ELSE D
  BY <1>4 DEF LocationIndices
<1>6. D \in SUBSET Nat /\ \A j \in D : j < e
  BY <1>4 DEF LocationIndices
<1>7. e \in Nat
  BY LinesOf
<1>8. ValueOr(f, D \cup {e}, IndexAt(f, o, p)) = v
  BY <1>6, <1>7, ValueStep
<1>9. k \in {"root_directory", "allow_methods", "index_file", "auto_index",
            "interpreter_path", "redirection", "set_cookies"}
  BY DEF LocationKey, LocationOrder
<1>10. s.root_directory = LocationRootAt(f, o, p, e) /\ s.uri = f[p].value
  BY DEF LocationFields
<1>11. \A i : LocationFields(f, o, p, i) =
         [uri |-> f[p].value, isCgi |-> Cgi,
          root_directory |-> LocationRootAt(f, o, p, i),
          index_file |-> ValueOr(f, LocationIndices(f, o, p, i), IndexAt(f, o, p)),
          noIndexFile |-> None(i),
          allow_methods |-> Value("allow_methods", i), auto_index |-> Value("auto_index", i),
          interpreter_path |-> Value("interpreter_path", i),
          redirection |-> Value("redirection", i), set_cookies |-> Value("set_cookies", i)]
  BY Zenon DEF LocationFields
<1> HIDE DEF Value, D, missing
<1>12. CASE k = "index_file"
  <2>1. SetLocation(s, k, v) = IF missing THEN s
                               ELSE [s EXCEPT !.index_file = v, !.noIndexFile = FALSE]
    BY <1>10, <1>12, Zenon DEF SetLocation, missing
  <2>2. CASE missing
    BY <1>2, <1>3, <1>5, <1>11, <1>12, <2>1, <2>2, LocationIs DEF D
  <2>3. CASE ~missing
    <3> DEFINE NewFields(none) ==
                 [uri |-> f[p].value, isCgi |-> Cgi,
                  root_directory |-> LocationRootAt(f, o, p, e), index_file |-> v,
                  noIndexFile |-> none, allow_methods |-> Value("allow_methods", e),
                  auto_index |-> Value("auto_index", e),
                  interpreter_path |-> Value("interpreter_path", e),
                  redirection |-> Value("redirection", e),
                  set_cookies |-> Value("set_cookies", e)]
    <3>1. LocationIndices(f, o, p, e + 1) = D \cup {e}
      BY <1>5, <1>12, <2>3
    <3>2. None(e + 1) = FALSE
      BY <3>1
    <3>3. t = NewFields(None(e + 1))
      BY <1>2, <1>3, <1>8, <1>11, <1>12, <3>1
    <3> DEFINE u == [s EXCEPT !.index_file = v]
    <3> HIDE DEF Cgi, None
    <3>4. u = [uri |-> f[p].value, isCgi |-> Cgi,
               root_directory |-> LocationRootAt(f, o, p, e), index_file |-> v,
               noIndexFile |-> None(e), allow_methods |-> Value("allow_methods", e),
               auto_index |-> Value("auto_index", e),
               interpreter_path |-> Value("interpreter_path", e),
               redirection |-> Value("redirection", e), set_cookies |-> Value("set_cookies", e)]
      BY <1>11
    <3>5. \A none : [u EXCEPT !.noIndexFile = none] =
                       [s EXCEPT !.index_file = v, !.noIndexFile = none]
      OBVIOUS
    <3> HIDE DEF u, s, t
    <3>6. ASSUME NEW none PROVE NewFields(none) = [u EXCEPT !.noIndexFile = none]
      BY <3>4
    <3> HIDE DEF NewFields
    <3>7. t = NewFields(FALSE)
      BY <3>2, <3>3, Zenon
    <3>8. t = [s EXCEPT !.index_file = v, !.noIndexFile = FALSE]
      BY <3>5, <3>6, <3>7, Zenon
    <3> QED
      BY <2>1, <2>3, <3>8, LocationIs DEF s, t
  <2> QED
    BY <2>2, <2>3
<1>13. CASE k # "index_file"
  <2>1. SetLocation(s, k, v) = [s EXCEPT ![k] = v]
    BY <1>13 DEF SetLocation
  <2>2. LocationIndices(f, o, p, e + 1) = LocationIndices(f, o, p, e)
    BY <1>5, <1>13 DEF D
  <2>3. t = [s EXCEPT ![k] = v]
    <3>1. CASE k = "root_directory"
      BY <1>2, <1>3, <1>11, <2>2, <3>1
    <3>2. CASE k = "allow_methods"
      BY <1>2, <1>3, <1>11, <2>2, <3>2
    <3>3. CASE k = "auto_index"
      BY <1>2, <1>3, <1>11, <2>2, <3>3
    <3>4. CASE k = "interpreter_path"
      BY <1>2, <1>3, <1>11, <2>2, <3>4
    <3>5. CASE k = "redirection"
      BY <1>2, <1>3, <1>11, <2>2, <3>5
    <3>6. CASE k = "set_cookies"
      BY <1>2, <1>3, <1>11, <2>2, <3>6
    <3> QED
      BY <1>9, <1>13, <3>1, <3>2, <3>3, <3>4, <3>5, <3>6
  <2> QED
    BY <2>1, <2>3, LocationIs
<1> QED
  BY <1>12, <1>13

-----------------------------------------------------------------------------
(* Blocks and locations in their order                                      *)

(* A longer sequence with the same beginning.                              *)
LEMMA Longer ==
    ASSUME NEW c \in Nat, NEW g
    PROVE  [n \in 1 .. c + 1 |-> g[n]] = Append([n \in 1 .. c |-> g[n]], g[c + 1])
<1> DEFINE s == [n \in 1 .. c |-> g[n]]
           t == [n \in 1 .. c + 1 |-> g[n]]
           T == {g[n] : n \in 1 .. c + 1}
<1>1. c + 1 \in Nat /\ (\A n \in 1 .. c : n \in 1 .. c + 1) /\ c + 1 \in 1 .. c + 1
  OBVIOUS
<1>2. t \in [1 .. c + 1 -> T] /\ s \in [1 .. c -> T] /\ g[c + 1] \in T
  BY <1>1
<1>3. (\A n \in 1 .. c : t[n] = s[n]) /\ t[c + 1] = g[c + 1]
  BY <1>1
<1> HIDE DEF s, t, T
<1>4. t \in Seq(T) /\ s \in Seq(T) /\ Len(t) = c + 1 /\ Len(s) = c
  BY <1>1, <1>2
<1>5. /\ Append(s, g[c + 1]) \in Seq(T) /\ Len(Append(s, g[c + 1])) = c + 1
      /\ \A n \in 1 .. c : Append(s, g[c + 1])[n] = s[n]
      /\ Append(s, g[c + 1])[c + 1] = g[c + 1]
  BY <1>2, <1>4, AppendProperties
<1>6. \A n \in 1 .. c + 1 : n \in 1 .. c \/ n = c + 1
  OBVIOUS
<1>7. \A n \in 1 .. Len(t) : t[n] = Append(s, g[c + 1])[n]
  BY <1>3, <1>4, <1>5, <1>6
<1>8. t = Append(s, g[c + 1])
  BY <1>4, <1>5, <1>7, SeqEqual
<1> QED
  BY <1>8 DEF s, t

(* The list of blocks grows by one that begins.                            *)
LEMMA BlocksStep ==
    ASSUME NEW f \in Seq(Line), NEW e \in Starts(f)
    PROVE  BlocksUpTo(f, e + 1) = Append(BlocksUpTo(f, e), ServerUpTo(f, e, EndOf(f, e)))
<1> DEFINE S == Starts(f)
           c == Cardinality(Before(S, e))
           Entry(n) == ServerUpTo(f, Nth(S, n), EndOf(f, Nth(S, n)))
           s == BlocksUpTo(f, e)
           t == BlocksUpTo(f, e + 1)
<1>1. S \in SUBSET (1 .. Len(f)) /\ e \in S /\ e \in Nat /\ Len(f) \in Nat
  BY LinesOf DEF Starts, Marked
<1>2. s = [n \in 1 .. c |-> Entry(n)]
      /\ t = [n \in 1 .. Cardinality(Before(S, e + 1)) |-> Entry(n)]
  BY DEF BlocksUpTo
<1> HIDE DEF S, s, t
<1>3. c \in Nat /\ Cardinality(Before(S, e + 1)) = c + 1
  BY <1>1, CountStep
<1>4. Nth(S, c + 1) = e
  BY <1>1, NthOfCount
<1> HIDE DEF c
<1>5. Entry(c + 1) = ServerUpTo(f, e, EndOf(f, e))
  BY <1>4
<1> DEFINE g == [n \in Nat |-> Entry(n)]
<1>6. g[c + 1] = Entry(c + 1) /\ \A n \in 1 .. c : g[n] = Entry(n)
  BY <1>3
<1>7. s = [n \in 1 .. c |-> g[n]] /\ t = [n \in 1 .. c + 1 |-> g[n]]
  BY <1>2, <1>3
<1> HIDE DEF Entry, g
<1>8. t = Append(s, g[c + 1])
  BY <1>3, <1>7, Longer
<1> QED
  BY <1>5, <1>6, <1>8 DEF s, t

(* Lines that begin no block add none.                                     *)
LEMMA BlocksStay ==
    ASSUME NEW f \in Seq(Line), NEW d \in Nat, NEW e \in Nat, d <= e,
           \A i \in d .. e - 1 : f[i].mark # "server {"
    PROVE  BlocksUpTo(f, e) = BlocksUpTo(f, d)
<1> DEFINE S == Starts(f)
<1>1. S \in SUBSET Nat /\ \A i \in d .. e - 1 : i \notin S
  BY LinesOf DEF Starts, Marked
<1> HIDE DEF S
<1>2. Before(S, e) = Before(S, d)
  BY <1>1, BeforeSame
<1> QED
  BY <1>2 DEF BlocksUpTo, S

(* The list of a block's locations grows by one that begins.               *)
LEMMA LocationsStep ==
    ASSUME NEW f \in Seq(Line), NEW o \in DOMAIN f, NEW p \in Begins(f, o)
    PROVE  LocationsUpTo(f, o, p + 1) =
              Append(LocationsUpTo(f, o, p), LocationUpTo(f, o, p, EndOf(f, p)))
<1> DEFINE S == Begins(f, o)
           c == Cardinality(Before(S, p))
           Entry(n) == LocationUpTo(f, o, Nth(S, n), EndOf(f, Nth(S, n)))
           s == LocationsUpTo(f, o, p)
           t == LocationsUpTo(f, o, p + 1)
<1>1. S \in SUBSET (1 .. Len(f)) /\ p \in S /\ p \in Nat /\ Len(f) \in Nat
  BY LinesOf DEF Begins, Marked
<1>2. s = [n \in 1 .. c |-> Entry(n)]
      /\ t = [n \in 1 .. Cardinality(Before(S, p + 1)) |-> Entry(n)]
  BY DEF LocationsUpTo
<1> HIDE DEF S, s, t
<1>3. c \in Nat /\ Cardinality(Before(S, p + 1)) = c + 1
  BY <1>1, CountStep
<1>4. Nth(S, c + 1) = p
  BY <1>1, NthOfCount
<1> HIDE DEF c
<1>5. Entry(c + 1) = LocationUpTo(f, o, p, EndOf(f, p))
  BY <1>4
<1> DEFINE g == [n \in Nat |-> Entry(n)]
<1>6. g[c + 1] = Entry(c + 1) /\ \A n \in 1 .. c : g[n] = Entry(n)
  BY <1>3
<1>7. s = [n \in 1 .. c |-> g[n]] /\ t = [n \in 1 .. c + 1 |-> g[n]]
  BY <1>2, <1>3
<1> HIDE DEF Entry, g
<1>8. t = Append(s, g[c + 1])
  BY <1>3, <1>7, Longer
<1> QED
  BY <1>5, <1>6, <1>8 DEF s, t

-----------------------------------------------------------------------------
(* What has been read so far of a tidy file                                 *)

InServer(f, o, e) ==
    /\ o \in Starts(f) /\ o < e /\ Depth(f, o) = 0
    /\ Inside(f, o, e)
InLocation(f, o, p, e) ==
    /\ InServer(f, o, p) /\ p \in Begins(f, o) /\ p < e /\ Depth(f, p) = 1
    /\ Inside(f, p, e)

ReadSoFar ==
    /\ context = "file" => Depth(file, pos) = 0 /\ servers = BlocksUpTo(file, pos)
    /\ context = "server" => \E o \in DOMAIN file :
          /\ InServer(file, o, pos) /\ Depth(file, pos) = 1
          /\ servers = BlocksUpTo(file, o) /\ server = ServerUpTo(file, o, pos)
    /\ context = "location" => \E o, p \in DOMAIN file :
          /\ InLocation(file, o, p, pos) /\ Depth(file, pos) = 2
          /\ servers = BlocksUpTo(file, o) /\ server = ServerUpTo(file, o, p)
          /\ location = LocationUpTo(file, o, p, pos)
    /\ context = "read" => servers = BlocksInLineOrder(file)

(* The lines of a tidy file.                                               *)
LEMMA TidyAt ==
    ASSUME NEW f, Tidy(f), NEW e \in DOMAIN f
    PROVE  TidyLine(f[e], Depth(f, e))
BY DEF Tidy

(* What a line of a tidy file can be at each depth.                        *)
LEMMA TidyLines ==
    ASSUME NEW l, NEW d \in Int, TidyLine(l, d)
    PROVE  /\ l.mark = "server {" => d = 0
           /\ l.mark = "{" => d = 1
           /\ d = 0 => l.mark \in {"skip", "server {"}
           /\ d = 1 => \/ l.mark = "skip" /\ l.words = {}
                       \/ l.mark = "{" /\ l.words = {"location"}
                       \/ l.mark = "}" /\ l.words = {}
                       \/ /\ l.mark \in {"value", "nothing"}
                          /\ \E k \in ServerKey :
                                l.words = {k} /\ (k = "client_max_body_size" => l.value < UintRange)
           /\ d = 2 => \/ l.mark = "skip" /\ l.words = {}
                       \/ l.mark = "}" /\ l.words = {}
                       \/ l.mark \in {"value", "nothing"} /\ \E k \in LocationKey : l.words = {k}
<1>1. l.mark = "server {" => d = 0
  BY DEF TidyLine
<1>2. l.mark = "{" => d = 1
  BY DEF TidyLine
<1>3. ASSUME d = 0 PROVE l.mark \in {"skip", "server {"}
  <2>1. ~(d > 0) /\ d # 1 /\ d # 2
    BY <1>3
  <2> QED
    BY <2>1, Zenon DEF TidyLine
<1>4. ASSUME d = 1
      PROVE  \/ l.mark = "skip" /\ l.words = {}
             \/ l.mark = "{" /\ l.words = {"location"}
             \/ l.mark = "}" /\ l.words = {}
             \/ /\ l.mark \in {"value", "nothing"}
                /\ \E k \in ServerKey :
                      l.words = {k} /\ (k = "client_max_body_size" => l.value < UintRange)
  <2>1. d # 0 /\ d # 2
    BY <1>4
  <2> QED
    BY <2>1, Zenon DEF TidyLine
<1>5. ASSUME d = 2
      PROVE  \/ l.mark = "skip" /\ l.words = {}
             \/ l.mark = "}" /\ l.words = {}
             \/ l.mark \in {"value", "nothing"} /\ \E k \in LocationKey : l.words = {k}
  <2>1. d # 0 /\ d # 1
    BY <1>5
  <2> QED
    BY <2>1, Zenon DEF TidyLine
<1> QED
  BY <1>1, <1>2, <1>3, <1>4, <1>5

(* One line further inside a block.                                        *)
LEMMA InsideStep ==
    ASSUME NEW f \in Seq(Line), NEW o \in DOMAIN f, NEW e \in DOMAIN f, o <= e,
           Inside(f, o, e), Depth(f, e + 1) > Depth(f, o)
    PROVE  Inside(f, o, e + 1)
<1>1. \A i \in o + 1 .. e + 1 : i \in o + 1 .. e \/ i = e + 1
  BY LinesOf
<1> QED
  BY <1>1 DEF Inside

(* No block begins, and no location but at depth 1, inside of another.     *)
LEMMA NothingBegins ==
    ASSUME NEW f \in Seq(Line), Tidy(f), NEW i \in DOMAIN f
    PROVE  /\ Depth(f, i) > 0 => f[i].mark # "server {"
           /\ Depth(f, i) > 1 => f[i].mark # "{"
<1>1. Depth(f, i) \in Int
  BY DepthStep
<1>2. TidyLine(f[i], Depth(f, i))
  BY TidyAt
<1>3. (f[i].mark = "server {" => Depth(f, i) = 0) /\ (f[i].mark = "{" => Depth(f, i) = 1)
  BY <1>1, <1>2, TidyLines
<1>4. (Depth(f, i) > 0 => Depth(f, i) # 0) /\ (Depth(f, i) > 1 => Depth(f, i) # 1)
  BY <1>1
<1> QED
  BY <1>3, <1>4, Zenon

(* A line that neither begins nor ends a block.                            *)
LEMMA BlockGoesOn ==
    ASSUME NEW f \in Seq(Line), NEW o \in DOMAIN f, NEW e \in DOMAIN f, o < e,
           Inside(f, o, e), ~Opens(f[e]), ~Closes(f[e])
    PROVE  Inside(f, o, e + 1) /\ Depth(f, e + 1) = Depth(f, e)
<1>1. Depth(f, e + 1) = Depth(f, e) /\ o \in Nat /\ e \in Nat
  BY DepthStep, LinesOf
<1>2. e \in o + 1 .. e
  BY <1>1
<1>3. Depth(f, e + 1) > Depth(f, o)
  BY <1>1, <1>2 DEF Inside
<1>4. o <= e
  BY <1>1
<1> QED
  BY <1>1, <1>3, <1>4, InsideStep

(* Between blocks: one may begin at the line.                               *)
LEMMA FromFile ==
    ASSUME ParserTypes, Tidy(file), ReadSoFar, context = "file", ReadConfiguration
    PROVE  ReadSoFar'
<1>1. file \in Seq(Line) /\ pos \in Nat /\ Depth(file, pos) = 0 /\ servers = BlocksUpTo(file, pos)
  BY DEF ReadSoFar, ParserTypes
<1>2. SkipLine \/ StrayLine \/ OpenServer \/ EndOfFile
  BY DEF ReadConfiguration, ServerDirective, IgnoreInServer, CloseServer, OpenLocation,
         LocationDirective, IgnoreInLocation, CloseLocation, AtLine
<1>3. CASE EndOfFile
  <2>1. pos = Len(file) + 1 /\ context' = "read" /\ servers' = servers /\ file' = file
    BY <1>3 DEF EndOfFile, ParserTypes
  <2> QED
    BY <1>1, <2>1 DEF ReadSoFar, BlocksInLineOrder
<1>4. CASE ~EndOfFile
  <2>1. pos \in DOMAIN file /\ pos' = pos + 1 /\ file' = file
    <3>1. pos <= Len(file) /\ pos' = pos + 1 /\ file' = file
      BY <1>2, <1>4 DEF SkipLine, StrayLine, OpenServer, AtLine, NextLine
    <3>2. pos \in 1 .. Len(file) + 1
      BY DEF ParserTypes
    <3> QED
      BY <1>1, <3>1, <3>2, LinesOf
  <2>2. TidyLine(file[pos], Depth(file, pos)) /\ Depth(file, pos) \in Int
    BY <1>1, <2>1, TidyAt
  <2>3. file[pos].mark \in {"skip", "server {"}
    BY <1>1, <2>2, TidyLines
  <2>4. CASE file[pos].mark = "skip"
    <3>1. context' = "file" /\ servers' = servers
      BY <1>2, <1>4, <2>4 DEF SkipLine, StrayLine, OpenServer, Read
    <3>2. Depth(file, pos + 1) = 0
      BY <1>1, <2>1, <2>4, DepthStep DEF Opens, Closes
    <3>3. BlocksUpTo(file, pos + 1) = BlocksUpTo(file, pos)
      <4>1. \A i \in pos .. (pos + 1) - 1 : i = pos
        BY <1>1
      <4>2. pos + 1 \in Nat /\ pos <= pos + 1
        BY <1>1
      <4>3. \A i \in pos .. (pos + 1) - 1 : file[i].mark # "server {"
        BY <2>4, <4>1
      <4> QED
        BY <1>1, <4>2, <4>3, BlocksStay
    <3> QED
      BY <1>1, <2>1, <3>1, <3>2, <3>3 DEF ReadSoFar
  <2>5. CASE file[pos].mark = "server {"
    <3>1. context' = "server" /\ servers' = servers /\ server' = ServerDefaults
      BY <1>2, <1>4, <2>5 DEF SkipLine, StrayLine, OpenServer, Read
    <3>2. Depth(file, pos + 1) = 1
      <4>1. Opens(file[pos])
        BY <2>5 DEF Opens
      <4>2. Depth(file, pos + 1) = Depth(file, pos) + 1
        BY <1>1, <2>1, <4>1, DepthStep
      <4> QED
        BY <1>1, <4>2
    <3>3. InServer(file, pos, pos + 1)
      <4>1. pos \in Starts(file)
        BY <2>1, <2>5 DEF Starts, Marked
      <4>2. \A i \in pos + 1 .. pos + 1 : i = pos + 1
        BY <1>1
      <4>3. Inside(file, pos, pos + 1)
        BY <1>1, <3>2, <4>2 DEF Inside
      <4>4. pos < pos + 1
        BY <1>1
      <4> QED
        BY <1>1, <4>1, <4>3, <4>4 DEF InServer
    <3>4. ServerUpTo(file, pos, pos + 1) = ServerDefaults
      BY <1>1, <2>1, ServerBegins
    <3> QED
      BY <1>1, <2>1, <3>1, <3>2, <3>3, <3>4 DEF ReadSoFar
  <2> QED
    BY <2>3, <2>4, <2>5
<1> QED
  BY <1>3, <1>4

(* In a block: a setting, a location that begins, or the end.              *)
LEMMA FromServer ==
    ASSUME ParserTypes, Tidy(file), ReadSoFar, context = "server", ReadConfiguration
    PROVE  ReadSoFar'
<1>1. file \in Seq(Line) /\ pos \in Nat /\ pos \in 1 .. Len(file) + 1
  BY DEF ParserTypes
<1>2. PICK o \in DOMAIN file :
         /\ InServer(file, o, pos) /\ Depth(file, pos) = 1
         /\ servers = BlocksUpTo(file, o) /\ server = ServerUpTo(file, o, pos)
  BY DEF ReadSoFar
<1>3. o \in Nat /\ o < pos /\ Inside(file, o, pos) /\ Depth(file, o) = 0 /\ o \in Starts(file)
  BY <1>1, <1>2, LinesOf DEF InServer
<1>4. ~EndOfFile
  <2>1. EndOfFile => pos = Len(file) + 1
    BY <1>1 DEF EndOfFile
  <2>2. Depth(file, Len(file) + 1) = 0
    BY DEF Tidy
  <2> QED
    BY <1>2, <2>1, <2>2
<1>5. SkipLine \/ ServerDirective \/ IgnoreInServer \/ CloseServer \/ OpenLocation
  BY <1>4 DEF ReadConfiguration, StrayLine, OpenServer, LocationDirective, IgnoreInLocation,
              CloseLocation, AtLine
<1>6. pos \in DOMAIN file /\ pos' = pos + 1 /\ file' = file
  <2>1. pos <= Len(file) /\ pos' = pos + 1 /\ file' = file
    BY <1>5 DEF SkipLine, ServerDirective, IgnoreInServer, CloseServer, OpenLocation, AtLine,
                NextLine
  <2> QED
    BY <1>1, <2>1, LinesOf
<1>7. \/ file[pos].mark = "skip"
      \/ file[pos].mark = "{" /\ file[pos].words = {"location"}
      \/ file[pos].mark = "}"
      \/ /\ file[pos].mark \in {"value", "nothing"}
         /\ \E k \in ServerKey :
               file[pos].words = {k} /\ (k = "client_max_body_size" => file[pos].value < UintRange)
  <2>1. TidyLine(file[pos], Depth(file, pos)) /\ Depth(file, pos) \in Int
    BY <1>2, <1>6, TidyAt
  <2> QED
    BY <1>2, <2>1, TidyLines
<1>8. ASSUME file[pos].mark \in {"skip", "value", "nothing"}
      PROVE  /\ InServer(file, o, pos + 1) /\ Depth(file, pos + 1) = 1
             /\ file[pos].mark # "value" => ServerUpTo(file, o, pos + 1) = server
  <2>1. ~Opens(file[pos]) /\ ~Closes(file[pos]) /\ file[pos].mark # "{"
    BY <1>8 DEF Opens, Closes
  <2>2. Inside(file, o, pos + 1) /\ Depth(file, pos + 1) = 1
    BY <1>1, <1>2, <1>3, <1>6, <2>1, BlockGoesOn
  <2>3. o < pos + 1
    BY <1>1, <1>3
  <2>4. file[pos].mark # "value" => \A k : ~Sets(file, o, pos, k)
    BY DEF Sets
  <2> QED
    BY <1>1, <1>2, <1>3, <1>6, <2>1, <2>2, <2>3, <2>4, ServerSame DEF InServer
<1>9. ASSUME context' = "server", servers' = servers, InServer(file, o, pos + 1),
             Depth(file, pos + 1) = 1, server' = ServerUpTo(file, o, pos + 1)
      PROVE  ReadSoFar'
  BY <1>2, <1>6, <1>9 DEF ReadSoFar
<1>10. CASE file[pos].mark = "skip"
  <2>1. context' = "server" /\ servers' = servers /\ server' = server
    BY <1>5, <1>10 DEF SkipLine, ServerDirective, IgnoreInServer, CloseServer, OpenLocation,
                       IsDirective, Read
  <2> QED
    BY <1>8, <1>9, <1>10, <2>1
<1>11. CASE file[pos].mark \in {"value", "nothing"}
  <2>1. PICK k \in ServerKey :
           file[pos].words = {k} /\ (k = "client_max_body_size" => file[pos].value < UintRange)
    BY <1>7, <1>11
  <2>2. ServerDirective
    <3>1. HasKey(ServerKey)
      BY <2>1 DEF HasKey, Read
    <3> QED
      BY <1>5, <1>11, <3>1 DEF SkipLine, IgnoreInServer, CloseServer, OpenLocation, Read
  <2>3. PICK i \in DOMAIN ServerOrder :
           /\ ServerOrder[i] \in Read.words
           /\ \/ context' = "refused"
              \/ /\ server' = IF Read.mark = "nothing" THEN server
                              ELSE SetServer(server, ServerOrder[i], Read.value)
                 /\ UNCHANGED <<context, servers>>
    BY <2>2, Zenon DEF ServerDirective, IsFirst, Refuse
  <2>4. ServerOrder[i] = k
    BY <2>1, <2>3 DEF Read
  <2>5. CASE context' = "refused"
    BY <2>5 DEF ReadSoFar
  <2>6. CASE server' = server /\ UNCHANGED <<context, servers>> /\ file[pos].mark = "nothing"
    BY <1>8, <1>9, <1>11, <2>6
  <2>7. CASE /\ server' = SetServer(server, k, file[pos].value)
             /\ UNCHANGED <<context, servers>> /\ file[pos].mark = "value"
    <3>1. Sets(file, o, pos, k)
      BY <1>2, <1>3, <2>1, <2>7 DEF Sets
    <3>2. server' = ServerUpTo(file, o, pos + 1)
      BY <1>1, <1>2, <1>3, <1>6, <2>1, <2>7, <3>1, ServerSet
    <3> QED
      BY <1>8, <1>9, <1>11, <2>7, <3>2
  <2>8. CASE context' # "refused" /\ file[pos].mark = "nothing"
    BY <2>3, <2>6, <2>8 DEF Read
  <2>9. CASE context' # "refused" /\ file[pos].mark = "value"
    BY <2>3, <2>4, <2>7, <2>9 DEF Read
  <2> QED
    BY <1>11, <2>5, <2>8, <2>9
<1>12. CASE file[pos].mark = "{" /\ file[pos].words = {"location"}
  <2>1. ~HasKey(ServerKey) /\ HasKey({"location"})
    <3>1. "location" \notin ServerKey
      BY DEF ServerKey, ServerOrder
    <3> QED
      BY <1>12, <3>1 DEF HasKey, Read
  <2>2. ~ServerDirective
    <3>1. ServerDirective => \E i \in DOMAIN ServerOrder : ServerOrder[i] \in Read.words
      BY Zenon DEF ServerDirective, IsFirst
    <3> QED
      BY <2>1, <3>1 DEF HasKey, ServerKey
  <2>3. OpenLocation
    BY <1>5, <1>12, <2>1, <2>2 DEF SkipLine, IgnoreInServer, CloseServer, Read
  <2>4. \/ context' = "refused"
        \/ /\ context' = "location" /\ UNCHANGED <<server, servers>>
           /\ location' = NewLocation(server, file[pos].value)
    BY <2>3 DEF OpenLocation, Refuse, Read
  <2>5. CASE context' = "refused"
    BY <2>5 DEF ReadSoFar
  <2>6. CASE context' # "refused"
    <3>1. location' = LocationUpTo(file, o, pos, pos + 1)
      BY <1>1, <1>2, <1>6, <2>4, <2>6, LocationBegins
    <3>2. Depth(file, pos + 1) = 2
      <4>1. Opens(file[pos])
        BY <1>12 DEF Opens
      <4>2. Depth(file, pos + 1) = Depth(file, pos) + 1
        BY <1>1, <1>6, <4>1, DepthStep
      <4> QED
        BY <1>2, <4>2
    <3>3. pos \in Begins(file, o)
      BY <1>3, <1>6, <1>12 DEF Begins, Marked
    <3>4. Inside(file, pos, pos + 1)
      <4>1. \A i \in pos + 1 .. pos + 1 : i = pos + 1
        BY <1>1
      <4> QED
        BY <1>2, <3>2, <4>1 DEF Inside
    <3>5. pos < pos + 1
      BY <1>1
    <3>6. InLocation(file, o, pos, pos + 1)
      BY <1>2, <3>3, <3>4, <3>5 DEF InLocation
    <3> QED
      BY <1>2, <1>6, <2>4, <2>6, <3>1, <3>2, <3>6 DEF ReadSoFar
  <2> QED
    BY <2>5, <2>6
<1>13. CASE file[pos].mark = "}"
  <2>1. CloseServer
    BY <1>5, <1>13 DEF SkipLine, IgnoreInServer, ServerDirective, OpenLocation, IsDirective, Read
  <2>2. context' = "file" /\ servers' = Append(BlocksUpTo(file, o), ServerUpTo(file, o, pos))
    BY <1>2, <2>1 DEF CloseServer
  <2>3. Depth(file, pos + 1) = 0
    <3>1. Closes(file[pos]) /\ ~Opens(file[pos])
      BY <1>13 DEF Closes, Opens
    <3>2. Depth(file, pos + 1) = Depth(file, pos) - 1
      BY <1>1, <1>6, <3>1, DepthStep
    <3> QED
      BY <1>2, <3>2
  <2>4. EndOf(file, o) = pos
    BY <1>1, <1>3, <1>6, <2>3, EndFound
  <2>5. BlocksUpTo(file, o + 1) = Append(BlocksUpTo(file, o), ServerUpTo(file, o, pos))
    BY <1>1, <1>3, <2>4, BlocksStep
  <2>6. BlocksUpTo(file, pos + 1) = BlocksUpTo(file, o + 1)
    <3>1. \A i \in o + 1 .. (pos + 1) - 1 : i \in DOMAIN file /\ i \in o + 1 .. pos
      BY <1>1, <1>3, <1>6, LinesOf
    <3>2. \A i \in o + 1 .. (pos + 1) - 1 : Depth(file, i) > 0
      BY <1>3, <3>1 DEF Inside
    <3>3. \A i \in o + 1 .. (pos + 1) - 1 : file[i].mark # "server {"
      BY <1>1, <3>1, <3>2, NothingBegins
    <3>4. o + 1 \in Nat /\ pos + 1 \in Nat /\ o + 1 <= pos + 1
      BY <1>1, <1>3
    <3> QED
      BY <1>1, <3>3, <3>4, BlocksStay
  <2> QED
    BY <1>6, <2>2, <2>3, <2>5, <2>6 DEF ReadSoFar
<1> QED
  BY <1>7, <1>10, <1>11, <1>12, <1>13

(* In a location: a setting, or the end.                                   *)
LEMMA FromLocation ==
    ASSUME ParserTypes, Tidy(file), ReadSoFar, context = "location", ReadConfiguration
    PROVE  ReadSoFar'
<1>1. file \in Seq(Line) /\ pos \in Nat /\ pos \in 1 .. Len(file) + 1
  BY DEF ParserTypes
<1>2. PICK o \in DOMAIN file, p \in DOMAIN file :
         /\ InLocation(file, o, p, pos) /\ Depth(file, pos) = 2
         /\ servers = BlocksUpTo(file, o) /\ server = ServerUpTo(file, o, p)
         /\ location = LocationUpTo(file, o, p, pos)
  BY DEF ReadSoFar
<1>3. /\ o \in Nat /\ p \in Nat /\ o < p /\ p < pos
      /\ Depth(file, o) = 0 /\ Depth(file, p) = 1
      /\ Inside(file, o, p) /\ Inside(file, p, pos)
      /\ o \in Starts(file) /\ p \in Begins(file, o)
  BY <1>1, <1>2, LinesOf DEF InServer, InLocation
<1>4. ~EndOfFile
  <2>1. EndOfFile => pos = Len(file) + 1
    BY <1>1 DEF EndOfFile
  <2>2. Depth(file, Len(file) + 1) = 0
    BY DEF Tidy
  <2> QED
    BY <1>2, <2>1, <2>2
<1>5. SkipLine \/ LocationDirective \/ IgnoreInLocation \/ CloseLocation
  BY <1>4 DEF ReadConfiguration, StrayLine, OpenServer, ServerDirective, IgnoreInServer,
              CloseServer, OpenLocation, AtLine
<1>6. pos \in DOMAIN file /\ pos' = pos + 1 /\ file' = file
  <2>1. pos <= Len(file) /\ pos' = pos + 1 /\ file' = file
    BY <1>5 DEF SkipLine, LocationDirective, IgnoreInLocation, CloseLocation, AtLine, NextLine
  <2> QED
    BY <1>1, <2>1, LinesOf
<1>7. \/ file[pos].mark = "skip"
      \/ file[pos].mark = "}"
      \/ /\ file[pos].mark \in {"value", "nothing"}
         /\ \E k \in LocationKey : file[pos].words = {k}
  <2>1. TidyLine(file[pos], Depth(file, pos)) /\ Depth(file, pos) \in Int
    BY <1>2, <1>6, TidyAt
  <2> QED
    BY <1>2, <2>1, TidyLines
<1>8. ASSUME file[pos].mark \in {"skip", "value", "nothing"}
      PROVE  /\ InLocation(file, o, p, pos + 1) /\ Depth(file, pos + 1) = 2
             /\ file[pos].mark # "value" => LocationUpTo(file, o, p, pos + 1) = location
  <2>1. ~Opens(file[pos]) /\ ~Closes(file[pos])
    BY <1>8 DEF Opens, Closes
  <2>2. Inside(file, p, pos + 1) /\ Depth(file, pos + 1) = 2
    BY <1>1, <1>2, <1>3, <1>6, <2>1, BlockGoesOn
  <2>3. p < pos + 1
    BY <1>1, <1>3
  <2>4. file[pos].mark # "value" => \A k : ~Sets(file, p, pos, k)
    BY DEF Sets
  <2>5. file[pos].mark # "value" => LocationUpTo(file, o, p, pos + 1) = location
    BY <1>1, <1>2, <1>3, <1>6, <2>4, LocationStays
  <2> QED
    BY <1>2, <2>2, <2>3, <2>5 DEF InLocation
<1>9. ASSUME context' = "location", servers' = servers, server' = server,
             InLocation(file, o, p, pos + 1), Depth(file, pos + 1) = 2,
             location' = LocationUpTo(file, o, p, pos + 1)
      PROVE  ReadSoFar'
  BY <1>2, <1>6, <1>9 DEF ReadSoFar
<1>10. CASE file[pos].mark = "skip"
  <2>1. context' = "location" /\ UNCHANGED <<servers, server, location>>
    BY <1>5, <1>10 DEF SkipLine, LocationDirective, IgnoreInLocation, CloseLocation,
                       IsDirective, Read
  <2> QED
    BY <1>8, <1>9, <1>10, <2>1
<1>11. CASE file[pos].mark \in {"value", "nothing"}
  <2>1. PICK k \in LocationKey : file[pos].words = {k}
    BY <1>7, <1>11
  <2>2. LocationDirective
    <3>1. HasKey(LocationKey)
      BY <2>1 DEF HasKey, Read
    <3> QED
      BY <1>5, <1>11, <3>1 DEF SkipLine, IgnoreInLocation, CloseLocation, Read
  <2>3. PICK i \in DOMAIN LocationOrder :
           /\ LocationOrder[i] \in Read.words
           /\ \/ context' = "refused"
              \/ /\ location' = IF Read.mark = "nothing" THEN location
                                ELSE SetLocation(location, LocationOrder[i], Read.value)
                 /\ UNCHANGED <<context, server, servers>>
    BY <2>2, Zenon DEF LocationDirective, IsFirst, Refuse
  <2>4. LocationOrder[i] = k
    BY <2>1, <2>3 DEF Read
  <2>5. CASE context' = "refused"
    BY <2>5 DEF ReadSoFar
  <2>6. CASE location' = location /\ UNCHANGED <<context, server, servers>>
             /\ file[pos].mark = "nothing"
    BY <1>8, <1>9, <1>11, <2>6
  <2>7. CASE /\ location' = SetLocation(location, k, file[pos].value)
             /\ UNCHANGED <<context, server, servers>> /\ file[pos].mark = "value"
    <3>1. Sets(file, p, pos, k)
      BY <1>2, <1>3, <2>1, <2>7 DEF Sets
    <3>2. location' = LocationUpTo(file, o, p, pos + 1)
      BY <1>1, <1>2, <1>3, <1>6, <2>1, <2>7, <3>1, LocationSet
    <3> QED
      BY <1>8, <1>9, <1>11, <2>7, <3>2
  <2>8. CASE context' # "refused" /\ file[pos].mark = "nothing"
    BY <2>3, <2>6, <2>8 DEF Read
  <2>9. CASE context' # "refused" /\ file[pos].mark = "value"
    BY <2>3, <2>4, <2>7, <2>9 DEF Read
  <2> QED
    BY <1>11, <2>5, <2>8, <2>9
<1>12. CASE file[pos].mark = "}"
  <2>1. CloseLocation
    BY <1>5, <1>12 DEF SkipLine, IgnoreInLocation, LocationDirective, IsDirective, Read
  <2>2. context' = "server" /\ servers' = servers
        /\ server' = [server EXCEPT !.locations = Append(server.locations, location)]
    BY <2>1 DEF CloseLocation
  <2>3. Depth(file, pos + 1) = 1
    <3>1. Closes(file[pos]) /\ ~Opens(file[pos])
      BY <1>12 DEF Closes, Opens
    <3>2. Depth(file, pos + 1) = Depth(file, pos) - 1
      BY <1>1, <1>6, <3>1, DepthStep
    <3> QED
      BY <1>2, <3>2
  <2>4. EndOf(file, p) = pos
    BY <1>1, <1>3, <1>6, <2>3, EndFound
  <2>5. LocationsUpTo(file, o, p + 1) = Append(LocationsUpTo(file, o, p), location)
    BY <1>1, <1>2, <1>3, <2>4, LocationsStep
  <2>6. \A i \in p + 1 .. (pos + 1) - 1 :
           i \in DOMAIN file /\ i \in p + 1 .. pos /\ Depth(file, i) > 1
    <3>1. \A i \in p + 1 .. (pos + 1) - 1 : i \in DOMAIN file /\ i \in p + 1 .. pos
      BY <1>1, <1>3, <1>6, LinesOf
    <3> QED
      BY <1>3, <3>1 DEF Inside
  <2>7. LocationsUpTo(file, o, pos + 1) = LocationsUpTo(file, o, p + 1)
    <3>1. \A i \in p + 1 .. (pos + 1) - 1 : file[i].mark # "{"
      BY <1>1, <2>6, NothingBegins
    <3>2. p + 1 \in Nat /\ pos + 1 \in Nat /\ p + 1 <= pos + 1
      BY <1>1, <1>3
    <3> QED
      BY <1>1, <3>1, <3>2, LocationsStay
  <2>8. ServerUpTo(file, o, pos + 1) =
           [ServerUpTo(file, o, p) EXCEPT !.locations = LocationsUpTo(file, o, pos + 1)]
    <3>1. \A i \in p .. (pos + 1) - 1 : i = p \/ i \in p + 1 .. (pos + 1) - 1
      BY <1>1, <1>3
    <3>2. \A k : ~Sets(file, o, p, k)
      BY <1>3 DEF Sets, Begins, Marked
    <3>3. \A i \in p + 1 .. (pos + 1) - 1 : Depth(file, i) # Depth(file, o) + 1
      BY <1>3, <2>6
    <3>4. \A i \in p + 1 .. (pos + 1) - 1 : \A k : ~Sets(file, o, i, k)
      BY <3>3 DEF Sets
    <3>5. \A i \in p .. (pos + 1) - 1 : \A k : ~Sets(file, o, i, k)
      BY <3>1, <3>2, <3>4
    <3>6. pos + 1 \in Nat /\ p <= pos + 1
      BY <1>1, <1>3
    <3> QED
      BY <1>1, <1>3, <3>5, <3>6, ServerStays
  <2>9. server.locations = LocationsUpTo(file, o, p)
    BY <1>2 DEF ServerUpTo
  <2>10. server' = ServerUpTo(file, o, pos + 1)
    BY <1>2, <2>2, <2>5, <2>7, <2>8, <2>9
  <2>11. Inside(file, o, pos + 1)
    <3>1. \A i \in o + 1 .. pos + 1 : i \in o + 1 .. p \/ i \in p + 1 .. pos \/ i = pos + 1
      BY <1>1, <1>3
    <3>2. \A i \in p + 1 .. pos : i \in p + 1 .. (pos + 1) - 1 /\ i \in DOMAIN file
      BY <1>1, <1>3, <1>6, LinesOf
    <3>3. \A i \in p + 1 .. pos : Depth(file, i) \in Int /\ Depth(file, i) > 1
      BY <1>1, <2>6, <3>2, DepthStep
    <3>4. \A i \in p + 1 .. pos : Depth(file, i) > 0
      BY <3>3
    <3> QED
      BY <1>3, <2>3, <3>1, <3>4 DEF Inside
  <2>12. InServer(file, o, pos + 1)
    <3>1. o < pos + 1
      BY <1>1, <1>3
    <3> QED
      BY <1>3, <2>11, <3>1 DEF InServer
  <2> QED
    BY <1>2, <1>6, <2>2, <2>3, <2>10, <2>12 DEF ReadSoFar
<1> QED
  BY <1>7, <1>10, <1>11, <1>12

(* Every line of a tidy file is read for what it says.                     *)
LEMMA ReadingIsFaithful ==
    ASSUME ParserTypes, Tidy(file), ReadSoFar, ReadConfiguration
    PROVE  ReadSoFar'
<1>1. context \in {"file", "server", "location"}
  BY DEF ReadConfiguration, SkipLine, StrayLine, EndOfFile, OpenServer, ServerDirective,
         IgnoreInServer, CloseServer, OpenLocation, LocationDirective, IgnoreInLocation,
         CloseLocation, AtLine
<1> QED
  BY <1>1, FromFile, FromServer, FromLocation

(* A file stays as it is.                                                  *)
LEMMA FileStays == ReadConfiguration => file' = file
BY DEF ReadConfiguration, SkipLine, StrayLine, EndOfFile, OpenServer, ServerDirective,
       IgnoreInServer, CloseServer, OpenLocation, LocationDirective, IgnoreInLocation,
       CloseLocation, NextLine

(* The blocks of the server are those of the file: the inductive invariant.*)
AsTheFileSays ==
    /\ Tidy(file) => ReadSoFar
    /\ phase \in {"opening", "waiting", "handling"} => context = "read"

(* Nothing has been read.                                                  *)
LEMMA InitAsTheFileSays == Init => AsTheFileSays
<1> SUFFICES ASSUME Init PROVE AsTheFileSays
  OBVIOUS
<1>1. file \in Seq(Line)
  BY FilesAssumption DEF Init, ParserInit
<1>2. Depth(file, 1) = 0
  BY <1>1, DepthAtFirst
<1>3. BlocksUpTo(file, 1) = <<>>
  <2>1. \A i \in Starts(file) : ~(i < 1)
    <3>1. \A i \in DOMAIN file : ~(i < 1)
      BY <1>1, LinesOf
    <3> QED
      BY <3>1 DEF Starts, Marked
  <2>2. Before(Starts(file), 1) = {}
    BY <2>1, Zenon DEF Before
  <2>3. Cardinality(Before(Starts(file), 1)) = 0
    BY <2>2, FS_EmptySet
  <2>4. 1 .. 0 = {}
    OBVIOUS
  <2> QED
    BY <2>3, <2>4 DEF BlocksUpTo
<1> QED
  BY <1>2, <1>3 DEF Init, ParserInit, AsTheFileSays, ReadSoFar

(* Only ReadFile reads, and the server starts when all has been read.      *)
LEMMA NextAsTheFileSays ==
    ASSUME ProgramInv, AsTheFileSays, [Next]_vars
    PROVE  AsTheFileSays'
<1>1. CASE ReadFile
  <2>1. ReadConfiguration /\ phase' = "reading" /\ file' = file
    BY <1>1, FileStays DEF ReadFile
  <2>2. Tidy(file) => ReadSoFar'
    BY <2>1, ReadingIsFaithful DEF ProgramInv, AsTheFileSays
  <2> QED
    BY <2>1, <2>2 DEF AsTheFileSays
<1>2. CASE UNCHANGED parser /\ (phase' \in {"opening", "waiting", "handling"} => context = "read")
  BY <1>2 DEF parser, AsTheFileSays, ReadSoFar
<1>3. CASE \/ NoConfiguration \/ FileRead \/ OpenSocket \/ RunServer \/ Signal \/ Loop
           \/ UNCHANGED vars
  <2>1. UNCHANGED parser
    BY <1>3 DEF NoConfiguration, FileRead, OpenSocket, RunServer, Signal, Loop, Kevent, BatchDone,
                NewClient, ParseHeader, StayOrClose, StaleEvent, NextEvent, vars
  <2>2. phase' \in {"opening", "waiting", "handling"} =>
           phase \in {"opening", "waiting", "handling"} \/ context = "read"
    BY <1>3 DEF NoConfiguration, FileRead, OpenSocket, RunServer, Signal, Loop, Kevent, BatchDone,
                NewClient, ParseHeader, StayOrClose, StaleEvent, NextEvent, vars
  <2> QED
    BY <1>2, <2>1, <2>2 DEF AsTheFileSays
<1> QED
  BY <1>1, <1>3 DEF Next

(* The invariant of every reachable state.                                 *)
LEMMA AlwaysAsTheFileSays == Spec => []AsTheFileSays
BY InitAsTheFileSays, NextAsTheFileSays, AlwaysProgramInv, PTL DEF Spec

-----------------------------------------------------------------------------
(* A file whose lines are in order                                          *)

(* The last of some lines is one of them.                                  *)
LEMMA LastIsIn ==
    ASSUME NEW m \in Nat, NEW S \in SUBSET (1 .. m), S # {}
    PROVE  Last(S) \in S
<1> DEFINE T == {n \in 0 .. m : m - n \in S}
<1>1. T \in SUBSET Nat /\ T # {}
  <2>1. PICK i \in S : TRUE
    OBVIOUS
  <2>2. PICK n \in 0 .. m : m - n = i
    <3>1. m - i \in 0 .. m /\ m - (m - i) = i
      BY <2>1
    <3> QED
      BY <3>1
  <2>3. n \in T /\ T \in SUBSET Nat
    BY <2>1, <2>2
  <2> HIDE DEF T
  <2> QED
    BY <2>3
<1>2. First(T) \in T /\ \A n \in T : First(T) <= n
  <2> HIDE DEF T
  <2> QED
    BY <1>1, FirstIsLeast
<1> DEFINE t == First(T)
           x == m - t
<1>3. x \in S /\ t \in Nat
  BY <1>2
<1>4. \A j \in S : j <= x
  <2> TAKE j \in S
  <2>1. j \in Nat /\ m - j \in 0 .. m /\ m - (m - j) = j
    OBVIOUS
  <2>2. t <= m - j
    BY <1>2, <2>1
  <2> HIDE DEF t
  <2> QED
    BY <1>3, <2>1, <2>2
<1> HIDE DEF x
<1> QED
  BY <1>3, <1>4 DEF Last

(* The n-th of the lines before e is one of them.                          *)
LEMMA NthIsIn ==
    ASSUME NEW m \in Nat, NEW S \in SUBSET (1 .. m), NEW e \in Nat,
           NEW n \in 1 .. Cardinality(Before(S, e))
    PROVE  Nth(S, n) \in Before(S, e)
<1> DEFINE count(d) == Cardinality(Before(S, d))
           T == {d \in 0 .. e : count(d) >= n}
<1>1. \A d \in Nat : count(d) \in Nat /\ count(d + 1) = count(d) + IF d \in S THEN 1 ELSE 0
  BY CountStep
<1>2. count(0) = 0
  <2>1. \A i \in S : ~(i < 0)
    OBVIOUS
  <2>2. Before(S, 0) = {}
    BY <2>1, Zenon DEF Before
  <2> QED
    BY <2>2, FS_EmptySet
<1>3. n \in Nat /\ n > 0 /\ n <= count(e)
  BY <1>1
<1> HIDE DEF count
<1>4. T \in SUBSET Nat /\ T # {}
  <2>1. e \in T
    BY <1>1, <1>3
  <2> QED
    BY <2>1
<1> DEFINE x == First(T)
<1>5. x \in T /\ \A d \in T : x <= d
  <2> HIDE DEF T
  <2> QED
    BY <1>4, FirstIsLeast
<1> HIDE DEF x
<1>6. x \in Nat /\ x <= e /\ count(x) >= n /\ x # 0
  BY <1>2, <1>3, <1>5
<1>7. PICK y \in Nat : x = y + 1
  BY <1>6
<1>8. y < e /\ count(y) < n
  <2>1. y \in 0 .. e /\ ~(x <= y)
    BY <1>6, <1>7
  <2> QED
    BY <1>1, <1>3, <1>5, <1>6, <1>7, <2>1
<1>9. y \in S /\ count(y) + 1 = n
  BY <1>1, <1>3, <1>6, <1>7, <1>8
<1>10. Nth(S, n) = y
  BY <1>9, NthOfCount DEF count
<1> QED
  BY <1>8, <1>9, <1>10 DEF Before

(* Where a block ends.                                                     *)
LEMMA EndIsLater ==
    ASSUME NEW f \in Seq(Line), NEW o \in DOMAIN f
    PROVE  EndOf(f, o) \in Nat /\ o <= EndOf(f, o) /\ EndOf(f, o) <= Len(f)
<1> DEFINE S == {j \in o .. Len(f) : Depth(f, j + 1) = Depth(f, o)} \cup {Len(f)}
<1>1. S \in SUBSET Nat /\ S # {} /\ \A j \in S : o <= j /\ j <= Len(f)
  BY LinesOf
<1> HIDE DEF S
<1>2. First(S) \in S
  BY <1>1, FirstIsLeast
<1> QED
  BY <1>1, <1>2 DEF EndOf, S

(* If all lines with k stand above a line, those above it are all.         *)
LEMMA AllAbove ==
    ASSUME NEW f, NEW o \in Nat, NEW e \in Nat, NEW i \in Nat, i <= e, NEW k,
           \A j \in LinesWith(f, o, e, k) : j < i
    PROVE  LinesWith(f, o, i, k) = LinesWith(f, o, e, k)
<1>1. \A j \in o + 1 .. e - 1 : j < i => j \in o + 1 .. i - 1
  OBVIOUS
<1>2. \A j \in o + 1 .. i - 1 : j \in o + 1 .. e - 1
  OBVIOUS
<1> QED
  BY <1>1, <1>2, Zenon DEF LinesWith

(* The lines with a keyword are in the block.                              *)
LEMMA OwnLines ==
    ASSUME NEW f \in Seq(Line), NEW o \in DOMAIN f, NEW k
    PROVE  \A i \in Own(f, o, k) : i \in 1 .. Len(f) /\ o < i /\ i < EndOf(f, o)
<1>1. o \in Nat /\ o >= 1 /\ EndOf(f, o) \in Nat /\ EndOf(f, o) <= Len(f) /\ Len(f) \in Nat
  BY LinesOf, EndIsLater
<1>2. \A i \in o + 1 .. EndOf(f, o) - 1 : i \in 1 .. Len(f) /\ o < i /\ i < EndOf(f, o)
  BY <1>1
<1> QED
  BY <1>2, Zenon DEF Own, LinesWith

(* In a block whose root is above what depends on it, it is the root of the*)
(* whole block for all of it, and so is the index file for the locations.  *)
LEMMA ServerInOrder ==
    ASSUME NEW f \in Seq(Line), NEW o \in Starts(f), InOrder(f)
    PROVE  /\ RootAt(f, o, EndOf(f, o)) = Setting(f, o, "root_directory")
           /\ Indices(f, o, EndOf(f, o)) = Found(f, o, Setting(f, o, "root_directory"), NoFolder)
           /\ \A k \in {"error_page", "upload_directory"} : Own(f, o, k) # {} =>
                 RootAt(f, o, Last(Own(f, o, k))) = Setting(f, o, "root_directory")
           /\ \A p \in LocationsOf(f, o) :
                 /\ RootAt(f, o, p) = Setting(f, o, "root_directory")
                 /\ Indices(f, o, p) = Indices(f, o, EndOf(f, o))
<1> DEFINE e == EndOf(f, o)
           root == Setting(f, o, "root_directory")
           R == Own(f, o, "root_directory")
           X == Own(f, o, "index_file")
<1>1. o \in DOMAIN f /\ o \in Nat /\ e \in Nat /\ Len(f) \in Nat
  BY LinesOf, EndIsLater DEF Starts, Marked
<1>2. /\ AllBefore(R, X) /\ AllBefore(R, LocationsOf(f, o)) /\ AllBefore(X, LocationsOf(f, o))
      /\ \A k \in {"error_page", "upload_directory"} : AllBefore(R, Own(f, o, k))
  <2>1. AllBefore(R \cup X, LocationsOf(f, o))
    BY DEF InOrder
  <2>2. \A k \in {"index_file", "error_page", "upload_directory"} : AllBefore(R, Own(f, o, k))
    BY DEF InOrder
  <2> QED
    BY <2>1, <2>2 DEF AllBefore
<1>3. R = LinesWith(f, o, e, "root_directory") /\ X = LinesWith(f, o, e, "index_file")
  BY DEF Own
<1>4. RootAt(f, o, e) = root
  BY DEF RootAt, Setting, Own
<1> HIDE DEF e, R, X, root
<1>5. ASSUME NEW i \in Nat, i <= e, \A j \in R : j < i
      PROVE  RootAt(f, o, i) = root
  <2>1. LinesWith(f, o, i, "root_directory") = LinesWith(f, o, e, "root_directory")
    BY <1>1, <1>3, <1>5, AllAbove
  <2> QED
    BY <1>4, <2>1 DEF RootAt
<1>6. ASSUME NEW k, AllBefore(R, Own(f, o, k)), NEW i \in Own(f, o, k)
      PROVE  RootAt(f, o, i) = root
  <2>1. i \in Nat /\ i <= e
    <3>1. i \in 1 .. Len(f) /\ i < e
      BY <1>1, OwnLines DEF e
    <3> QED
      BY <1>1, <3>1
  <2>2. \A j \in R : j < i
    BY <1>6 DEF AllBefore
  <2> QED
    BY <1>5, <2>1, <2>2
<1>7. Indices(f, o, e) = Found(f, o, root, NoFolder)
  <2>1. \A i \in X : RootAt(f, o, i) = root
    BY <1>2, <1>6 DEF X
  <2> QED
    BY <1>3, <2>1 DEF Indices, Found, IsMissing, X
<1>8. ASSUME NEW k \in {"error_page", "upload_directory"}, Own(f, o, k) # {}
      PROVE  RootAt(f, o, Last(Own(f, o, k))) = root
  <2>1. Own(f, o, k) \in SUBSET (1 .. Len(f))
    BY <1>1, OwnLines
  <2>2. Last(Own(f, o, k)) \in Own(f, o, k)
    BY <1>1, <1>8, <2>1, LastIsIn
  <2> QED
    BY <1>2, <1>6, <2>2
<1>9. ASSUME NEW p \in LocationsOf(f, o)
      PROVE  RootAt(f, o, p) = root /\ Indices(f, o, p) = Indices(f, o, e)
  <2>1. p \in Nat /\ p <= e
    <3>1. p \in DOMAIN f /\ p < e
      BY DEF LocationsOf, Before, Begins, Marked, e
    <3> QED
      BY <1>1, <3>1, LinesOf
  <2>2. (\A j \in R : j < p) /\ (\A j \in X : j < p)
    BY <1>2 DEF AllBefore
  <2>3. LinesWith(f, o, p, "index_file") = LinesWith(f, o, e, "index_file")
    BY <1>1, <1>3, <2>1, <2>2, AllAbove
  <2> QED
    BY <1>5, <2>1, <2>2, <2>3 DEF Indices
<1> QED
  BY <1>4, <1>7, <1>8, <1>9 DEF e, root

(* And in a location, which has what its server has in the end.            *)
LEMMA LocationInOrder ==
    ASSUME NEW f \in Seq(Line), NEW o \in Starts(f), InOrder(f), NEW p \in LocationsOf(f, o),
           NEW root, root = Setting(f, o, "root_directory"),
           NEW index, index = ValueOr(f, Found(f, o, root, NoFolder), ServerDefaults.index_file)
    PROVE  LocationUpTo(f, o, p, EndOf(f, p)) = LocationBlock(f, p, root, index)
<1> DEFINE e == EndOf(f, p)
           own == ValueOr(f, Own(f, p, "root_directory"), root)
<1>1. p \in DOMAIN f /\ p \in Nat /\ e \in Nat /\ Len(f) \in Nat
  BY LinesOf, EndIsLater DEF LocationsOf, Before, Begins, Marked
<1>2. RootAt(f, o, p) = root /\ IndexAt(f, o, p) = index
  BY ServerInOrder, IndexOf
<1>3. LocationRootAt(f, o, p, e) = own
  BY <1>2 DEF LocationRootAt, Own
<1>4. \A k : LinesWith(f, p, e, k) = Own(f, p, k)
  BY DEF Own
<1> HIDE DEF e, own
<1>5. AllBefore(Own(f, p, "root_directory"), Own(f, p, "index_file"))
  <2>1. p \in Marked(f, {"{"})
    BY DEF LocationsOf, Before, Begins
  <2> QED
    BY <2>1 DEF InOrder
<1>6. \A i \in Own(f, p, "index_file") : i \in Nat /\ i <= e
  <2>1. \A i \in Own(f, p, "index_file") : i \in 1 .. Len(f) /\ i < e
    BY <1>1, OwnLines DEF e
  <2>2. \A i \in 1 .. Len(f) : i < e => i \in Nat /\ i <= e
    BY <1>1
  <2> QED
    BY <2>1, <2>2, Zenon
<1>7. \A i \in Own(f, p, "index_file") : LocationRootAt(f, o, p, i) = own
  <2> TAKE i \in Own(f, p, "index_file")
  <2>1. i \in Nat /\ i <= e /\ \A j \in LinesWith(f, p, e, "root_directory") : j < i
    BY <1>4, <1>5, <1>6 DEF AllBefore
  <2>2. LinesWith(f, p, i, "root_directory") = LinesWith(f, p, e, "root_directory")
    <3>1. \A j \in LinesWith(f, p, e, "root_directory") : j < i
      BY <2>1
    <3>2. i \in Nat /\ i <= e
      BY <2>1
    <3> QED
      BY <1>1, <3>1, <3>2, AllAbove
  <2> QED
    BY <1>3, <2>2 DEF LocationRootAt
<1>8. LocationIndices(f, o, p, e) = Found(f, p, own, f[p].value)
  BY <1>4, <1>7 DEF LocationIndices, Found, IsMissing
<1>9. LocationUpTo(f, o, p, e) = LocationFields(f, o, p, e)
  BY LocationIs
<1> DEFINE found == Found(f, p, own, f[p].value)
           Plain(k) == ValueOr(f, Own(f, p, k), 0)
           Fields ==
             [uri |-> f[p].value, isCgi |-> f[p].value \in Extensions, root_directory |-> own,
              index_file |-> ValueOr(f, found, index), noIndexFile |-> found = {},
              allow_methods |-> Plain("allow_methods"), auto_index |-> Plain("auto_index"),
              interpreter_path |-> Plain("interpreter_path"),
              redirection |-> Plain("redirection"), set_cookies |-> Plain("set_cookies")]
<1>10. LocationBlock(f, p, root, index) = Fields
  BY Zenon DEF LocationBlock, own
<1>11. LocationFields(f, o, p, e) = Fields
  BY <1>2, <1>3, <1>4, <1>8 DEF LocationFields
<1> QED
  BY <1>9, <1>10, <1>11 DEF e

(* A block that is in order says the same in the order of its lines.       *)
LEMMA BlockInOrder ==
    ASSUME NEW f \in Seq(Line), NEW o \in Starts(f), InOrder(f)
    PROVE  ServerUpTo(f, o, EndOf(f, o)) = Block(f, o)
<1> DEFINE e == EndOf(f, o)
           root == Setting(f, o, "root_directory")
           index == ValueOr(f, Found(f, o, root, NoFolder), ServerDefaults.index_file)
           Path(k) == IF Own(f, o, k) = {} THEN ServerDefaults[k]
                      ELSE <<root, f[Last(Own(f, o, k))].value>>
           PathInOrder(k) == IF Own(f, o, k) = {} THEN ServerDefaults[k]
                      ELSE <<RootAt(f, o, Last(Own(f, o, k))), f[Last(Own(f, o, k))].value>>
           locations == [n \in 1 .. Cardinality(LocationsOf(f, o)) |->
                           LocationBlock(f, Nth(Begins(f, o), n), root, index)]
<1>1. \A k : LinesWith(f, o, e, k) = Own(f, o, k)
  BY DEF Own
<1>2. RootAt(f, o, e) = root /\ IndexAt(f, o, e) = index
  BY ServerInOrder, IndexOf
<1>3. \A k \in {"error_page", "upload_directory"} : PathInOrder(k) = Path(k)
  BY ServerInOrder
<1>4. LocationsUpTo(f, o, e) = locations
  <2>1. \A n \in 1 .. Cardinality(LocationsOf(f, o)) : Nth(Begins(f, o), n) \in LocationsOf(f, o)
    <3>1. o \in DOMAIN f /\ e \in Nat /\ Len(f) \in Nat
      BY LinesOf, EndIsLater DEF Starts, Marked
    <3>2. Begins(f, o) \in SUBSET (1 .. Len(f))
      BY LinesOf DEF Begins, Marked
    <3> QED
      BY <3>1, <3>2, NthIsIn DEF LocationsOf
  <2>2. \A p \in LocationsOf(f, o) :
           LocationUpTo(f, o, p, EndOf(f, p)) = LocationBlock(f, p, root, index)
    BY LocationInOrder
  <2>3. LocationsUpTo(f, o, e) =
           [n \in 1 .. Cardinality(LocationsOf(f, o)) |->
              LocationUpTo(f, o, Nth(Begins(f, o), n), EndOf(f, Nth(Begins(f, o), n)))]
    BY DEF LocationsUpTo, LocationsOf
  <2> HIDE DEF root, index, e
  <2> QED
    BY <2>1, <2>2, <2>3
<1> DEFINE Is(error, upload) ==
       [server_name |-> Setting(f, o, "server_name"), listens_to |-> Setting(f, o, "listens_to"),
        host |-> Setting(f, o, "host"), root_directory |-> root, index_file |-> index,
        client_max_body_size |-> Setting(f, o, "client_max_body_size"),
        error_page |-> error, upload_directory |-> upload, locations |-> locations]
<1>5. Block(f, o) = Is(Path("error_page"), Path("upload_directory"))
  BY Zenon DEF Block
<1> DEFINE Plain(k) == ValueOr(f, LinesWith(f, o, e, k), ServerDefaults[k])
           PathUpTo(k) == IF LinesWith(f, o, e, k) = {} THEN ServerDefaults[k]
                          ELSE <<RootAt(f, o, Last(LinesWith(f, o, e, k))),
                                 f[Last(LinesWith(f, o, e, k))].value>>
<1>6. ServerUpTo(f, o, e) =
         [server_name |-> Plain("server_name"), listens_to |-> Plain("listens_to"),
          host |-> Plain("host"), root_directory |-> RootAt(f, o, e),
          index_file |-> IndexAt(f, o, e),
          client_max_body_size |-> Plain("client_max_body_size"),
          error_page |-> PathUpTo("error_page"),
          upload_directory |-> PathUpTo("upload_directory"),
          locations |-> LocationsUpTo(f, o, e)]
  BY Zenon DEF ServerUpTo
<1>7. \A k : Plain(k) = Setting(f, o, k) /\ PathUpTo(k) = PathInOrder(k)
  BY <1>1 DEF Setting
<1> HIDE DEF Plain, Path, PathUpTo, PathInOrder, root, index, locations, e
<1>8. ServerUpTo(f, o, e) = Is(Path("error_page"), Path("upload_directory"))
  BY <1>2, <1>3, <1>4, <1>6, <1>7
<1> QED
  BY <1>5, <1>8 DEF e

(* A block is listed where it begins.                                      *)
LEMMA BlocksAre ==
    ASSUME NEW f \in Seq(Line)
    PROVE  BlocksInLineOrder(f) =
              [n \in 1 .. Cardinality(Starts(f)) |->
                 ServerUpTo(f, Nth(Starts(f), n), EndOf(f, Nth(Starts(f), n)))]
<1>1. Before(Starts(f), Len(f) + 1) = Starts(f)
  <2>1. \A i \in DOMAIN f : i < Len(f) + 1
    OBVIOUS
  <2> QED
    BY <2>1, Zenon DEF Before, Starts, Marked
<1> QED
  BY <1>1 DEF BlocksInLineOrder, BlocksUpTo

(* In a file in order, reading line by line is reading it as a whole.      *)
LEMMA OrderMakesNoDifference ==
    ASSUME NEW f \in Seq(Line), InOrder(f)
    PROVE  BlocksInLineOrder(f) = Blocks(f)
<1>1. \A n \in 1 .. Cardinality(Starts(f)) : Nth(Starts(f), n) \in Starts(f)
  <2>1. Starts(f) \in SUBSET (1 .. Len(f)) /\ Len(f) \in Nat /\ Len(f) + 1 \in Nat
    <3>1. DOMAIN f = 1 .. Len(f) /\ Len(f) \in Nat
      BY LinesOf
    <3>2. Starts(f) \in SUBSET DOMAIN f
      BY Zenon DEF Starts, Marked
    <3> QED
      BY <3>1, <3>2
  <2>2. Before(Starts(f), Len(f) + 1) = Starts(f)
    <3>1. \A i \in DOMAIN f : i < Len(f) + 1
      OBVIOUS
    <3> QED
      BY <3>1, Zenon DEF Before, Starts, Marked
  <2> QED
    BY <2>1, <2>2, NthIsIn
<1>2. \A o \in Starts(f) : ServerUpTo(f, o, EndOf(f, o)) = Block(f, o)
  BY BlockInOrder
<1> QED
  BY <1>1, <1>2, BlocksAre DEF Blocks

-----------------------------------------------------------------------------
(* The parser makes of every tidy file in order that it accepts exactly its*)
(* blocks, each with its own settings (ConfigFileParser.cpp, the setters). *)
THEOREM BlocksAsWritten == Spec => []BlocksRead
<1>1. ASSUME ProgramInv, AsTheFileSays PROVE BlocksRead
  <2> SUFFICES ASSUME context = "read", Tidy(file), InOrder(file)
               PROVE  servers = Blocks(file)
    BY DEF BlocksRead
  <2>1. file \in Seq(Line) /\ servers = BlocksInLineOrder(file)
    BY <1>1 DEF ProgramInv, ParserTypes, AsTheFileSays, ReadSoFar
  <2> QED
    BY <2>1, OrderMakesNoDifference
<1> QED
  BY <1>1, AlwaysProgramInv, AlwaysAsTheFileSays, PTL

(* A request is given the block that the file, read as a whole, says for   *)
(* the address it came to and the name it asks for, in whatever order the  *)
(* lines of the blocks are (setSpecificServer).                            *)
THEOREM ServerAsWritten == Spec => []RightServer
<1>1. ASSUME ProgramInv, AsTheFileSays, BlockOfItsAddress PROVE RightServer
  <2> DEFINE Meant(n, k) == Setting(file, Nth(Starts(file), n), k)
             a == AddressOf(servers[conn.via])
             here == {n \in 1 .. Cardinality(Starts(file)) :
                         <<Address[Meant(n, "host")], Meant(n, "listens_to")>> = a}
             named == {n \in here : Meant(n, "server_name") = HostName(conn.header)}
             hereRead == {n \in DOMAIN servers : AddressOf(servers[n]) = a}
             namedRead == {n \in hereRead : servers[n].server_name = HostName(conn.header)}
  <2> SUFFICES ASSUME Serving, conn.server # 0, Tidy(file), servers[conn.via].listens_to # 0
               PROVE  conn.server = First(IF named # {} THEN named ELSE here)
    BY Zenon DEF RightServer
  <2>1. file \in Seq(Line) /\ servers = BlocksInLineOrder(file)
    BY <1>1 DEF ProgramInv, ParserTypes, AsTheFileSays, ReadSoFar, Serving
  <2>2. DOMAIN servers = 1 .. Cardinality(Starts(file))
        /\ \A n \in DOMAIN servers :
              servers[n] = ServerUpTo(file, Nth(Starts(file), n), EndOf(file, Nth(Starts(file), n)))
    BY <2>1, BlocksAre
  <2>3. \A o, e : /\ ServerUpTo(file, o, e).host = ValueOr(file, LinesWith(file, o, e, "host"), ServerDefaults["host"])
                  /\ ServerUpTo(file, o, e).listens_to
                        = ValueOr(file, LinesWith(file, o, e, "listens_to"), ServerDefaults["listens_to"])
                  /\ ServerUpTo(file, o, e).server_name
                        = ValueOr(file, LinesWith(file, o, e, "server_name"), ServerDefaults["server_name"])
    BY DEF ServerUpTo
  <2>4. \A n \in DOMAIN servers : /\ servers[n].host = Meant(n, "host")
                                  /\ servers[n].listens_to = Meant(n, "listens_to")
                                  /\ servers[n].server_name = Meant(n, "server_name")
    BY <2>2, <2>3, Zenon DEF Setting, Own
  <2> HIDE DEF Meant
  <2>5. here = hereRead
    BY <2>2, <2>4, Zenon DEF AddressOf
  <2>6. named = namedRead
    BY <2>2, <2>4, <2>5, Zenon
  <2>7. conn.server = First(IF namedRead # {} THEN namedRead ELSE hereRead)
    BY <1>1, Zenon DEF BlockOfItsAddress
  <2> QED
    BY <2>5, <2>6, <2>7, Zenon
<1> QED
  BY <1>1, BlockByAddress, AlwaysProgramInv, AlwaysAsTheFileSays, PTL
=============================================================================
