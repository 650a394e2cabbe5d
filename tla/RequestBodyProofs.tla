-------------------------- MODULE RequestBodyProofs --------------------------
(***************************************************************************)
(* Proofs about RequestBody, for conversations of any length: a body that   *)
(* is sent has every line, call and result once and in order, and the       *)
(* commas separate what the counters say they separate.                     *)
(***************************************************************************)
EXTENDS RequestBody, FiniteSetTheorems, TLAPS

(* The types in full. *)
Id == Nat \X Nat
IdSeq == Seq(Id)
Type == Kind \cup {"textAndImage", "imageBlock", "textAndEmpty", "emptyBlock", "tool", "system", "comma", "function_call",
                   "function_call_output", "assistant", "input_image"}
ItemSet == [type : Type, line : Nat, calls : IdSeq, results : IdSeq]
Body == Seq(ItemSet)

(* The sequences in the list have these ids, each once and in order: another *)
(* form of InOrderOnce.                                                      *)
Once(list, ids) ==
    /\ \A k \in 1..Len(list) : \A n \in 1..Len(list[k]) : list[k][n] \in ids
    /\ \A x \in ids : \E k \in 1..Len(list) : \E n \in 1..Len(list[k]) : list[k][n] = x
    /\ \A k, m \in 1..Len(list) : \A n \in 1..Len(list[k]) : \A o \in 1..Len(list[m]) :
          k < m \/ (k = m /\ n < o) => Before(list[k][n], list[m][o])

CallList(s) == [k \in 1..Len(s) |-> s[k].calls]
ResultList(s) == [k \in 1..Len(s) |-> s[k].results]
LinesIn(a, b) == {l \in 1..Len(lines) : a < l /\ l <= b}
CallIds(a, b) == UNION {Calls(l) : l \in LinesIn(a, b)}
ResultIds(a, b) == UNION {Results(l) : l \in LinesIn(a, b)}

(* This part of a body is what the lines after a, up to b, become. *)
Part(s, a, b) ==
    /\ \A k \in 1..Len(s) : s[k] # Comma => a < s[k].line /\ s[k].line <= b
    /\ \A k, m \in 1..Len(s) :
          k < m /\ s[k] # Comma /\ s[m] # Comma => s[k].line <= s[m].line
    /\ \A l \in LinesIn(a, b) : Dropped(l) \/ \E k \in 1..Len(s) : s[k].line = l
    /\ Once(CallList(s), CallIds(a, b))
    /\ Once(ResultList(s), ResultIds(a, b))

(* h is f followed by g. *)
Cat(h, f, g) ==
    /\ Len(h) = Len(f) + Len(g)
    /\ \A k \in 1..Len(f) : h[k] = f[k]
    /\ \A k \in 1..Len(g) : h[Len(f) + k] = g[k]

------------------------------------------------------------------------------
(* Lists of sequences. *)

LEMMA CatIndex ==
    ASSUME NEW h, NEW f, NEW g, Cat(h, f, g), Len(f) \in Nat, Len(g) \in Nat, NEW k \in 1..Len(h)
    PROVE  \/ k \in 1..Len(f) /\ h[k] = f[k]
           \/ k - Len(f) \in 1..Len(g) /\ h[k] = g[k - Len(f)] /\ k > Len(f)
<1>1. CASE k <= Len(f)
    BY <1>1 DEF Cat
<1>2. CASE ~(k <= Len(f))
    <2>1. k - Len(f) \in 1..Len(g) /\ Len(f) + (k - Len(f)) = k /\ k > Len(f)
        BY <1>2 DEF Cat
    <2> QED
        BY <2>1 DEF Cat
<1> QED
    BY <1>1, <1>2

LEMMA OnceCat ==
    ASSUME NEW h, NEW f, NEW g, Cat(h, f, g), Len(f) \in Nat, Len(g) \in Nat, NEW S, NEW T,
           Once(f, S), Once(g, T), \A x \in S, y \in T : Before(x, y)
    PROVE  Once(h, S \cup T)
<1>1. ASSUME NEW k \in 1..Len(h), NEW n \in 1..Len(h[k]) PROVE h[k][n] \in S \cup T
    BY CatIndex DEF Once
<1>2. ASSUME NEW x \in S \cup T
      PROVE  \E k \in 1..Len(h) : \E n \in 1..Len(h[k]) : h[k][n] = x
    <2>1. CASE x \in S
        <3>1. PICK k \in 1..Len(f) : \E n \in 1..Len(f[k]) : f[k][n] = x
            BY <2>1 DEF Once
        <3>2. k \in 1..Len(h) /\ h[k] = f[k]
            BY DEF Cat
        <3> QED
            BY <3>1, <3>2
    <2>2. CASE x \in T
        <3>1. PICK k \in 1..Len(g) : \E n \in 1..Len(g[k]) : g[k][n] = x
            BY <2>2 DEF Once
        <3>2. Len(f) + k \in 1..Len(h) /\ h[Len(f) + k] = g[k]
            BY DEF Cat
        <3> QED
            BY <3>1, <3>2
    <2> QED
        BY <2>1, <2>2
<1>3. ASSUME NEW k \in 1..Len(h), NEW m \in 1..Len(h), NEW n \in 1..Len(h[k]), NEW o \in 1..Len(h[m]),
             k < m \/ (k = m /\ n < o)
      PROVE  Before(h[k][n], h[m][o])
    <2>0. Len(h) \in Nat
        BY DEF Cat
    <2>1. CASE k <= Len(f) /\ m <= Len(f)
        <3>1. k \in 1..Len(f) /\ m \in 1..Len(f) /\ h[k] = f[k] /\ h[m] = f[m]
            BY <2>0, <2>1 DEF Cat
        <3> QED
            BY <1>3, <3>1 DEF Once
    <2>2. CASE k <= Len(f) /\ m > Len(f)
        <3>1. k \in 1..Len(f) /\ h[k] = f[k]
            BY <2>0, <2>2 DEF Cat
        <3>2. m - Len(f) \in 1..Len(g) /\ h[m] = g[m - Len(f)]
            <4>1. \/ m \in 1..Len(f)
                  \/ m - Len(f) \in 1..Len(g) /\ h[m] = g[m - Len(f)]
                BY CatIndex
            <4> QED
                BY <2>0, <2>2, <4>1
        <3> QED
            BY <3>1, <3>2 DEF Once
    <2>3. CASE k > Len(f)
        <3> DEFINE k1 == k - Len(f)
                   m1 == m - Len(f)
        <3>1. k1 \in 1..Len(g) /\ h[k] = g[k1]
            BY <2>0, <2>3, CatIndex
        <3>2. m > Len(f)
            BY <1>3, <2>0, <2>3
        <3>3. m1 \in 1..Len(g) /\ h[m] = g[m1]
            BY <2>0, <3>2, CatIndex
        <3>4. k1 < m1 \/ (k1 = m1 /\ n < o)
            BY <1>3, <2>0
        <3> HIDE DEF k1, m1
        <3> QED
            BY <3>1, <3>3, <3>4 DEF Once
    <2> QED
        BY <2>0, <2>1, <2>2, <2>3
<1> QED
    BY <1>1, <1>2, <1>3 DEF Once

(* A list without any id. *)
LEMMA OnceNone ==
    ASSUME NEW list, \A k \in 1..Len(list) : list[k] = <<>>
    PROVE  Once(list, {})
    BY DEF Once

LEMMA ListFacts ==
    ASSUME NEW s \in Body
    PROVE  /\ Len(s) \in Nat
           /\ Len(CallList(s)) = Len(s) /\ Len(ResultList(s)) = Len(s)
           /\ \A k \in 1..Len(s) : /\ s[k] \in ItemSet
                                   /\ CallList(s)[k] = s[k].calls /\ ResultList(s)[k] = s[k].results
<1>1. Len(s) \in Nat /\ \A k \in 1..Len(s) : s[k] \in ItemSet
    BY DEF Body
<1> QED
    BY <1>1 DEF CallList, ResultList

LEMMA CatLists ==
    ASSUME NEW h \in Body, NEW s \in Body, NEW t \in Body, Cat(h, s, t)
    PROVE  Cat(CallList(h), CallList(s), CallList(t)) /\ Cat(ResultList(h), ResultList(s), ResultList(t))
<1>1. /\ Len(s) \in Nat /\ Len(t) \in Nat /\ Len(h) = Len(s) + Len(t)
      /\ Len(CallList(s)) = Len(s) /\ Len(ResultList(s)) = Len(s)
      /\ Len(CallList(t)) = Len(t) /\ Len(ResultList(t)) = Len(t)
      /\ Len(CallList(h)) = Len(h) /\ Len(ResultList(h)) = Len(h)
    BY ListFacts DEF Cat
<1>2. \A k \in 1..Len(s) : k \in 1..Len(h) /\ h[k] = s[k]
    BY <1>1 DEF Cat
<1>3. \A k \in 1..Len(t) : Len(s) + k \in 1..Len(h) /\ h[Len(s) + k] = t[k]
    BY <1>1 DEF Cat
<1> QED
    BY <1>1, <1>2, <1>3 DEF Cat, CallList, ResultList

------------------------------------------------------------------------------
(* Lines and their ids. *)

LEMMA LineFacts ==
    ASSUME lines \in Conversation
    PROVE  /\ Len(lines) \in Nat /\ Len(lines) > 0 /\ \A l \in 1..Len(lines) : lines[l] \in Kind
           /\ lines[1] \in UserKind \cup {"torn"}
           /\ \A l \in 1..Len(lines) : lines[l] = "results" =>
                 l - 1 \in 1..Len(lines) /\ CallsIn(lines[l - 1]) > 0
<1>1. PICK n \in 1..MaxLines : lines \in [1..n -> Kind]
    BY DEF Conversation
<1>2. n \in Nat /\ n > 0 /\ lines \in Seq(Kind) /\ Len(lines) = n
    BY <1>1, BoundAssumption
<1>3. lines[1] \in UserKind \cup {"torn"}
    BY DEF Conversation
<1>4. \A l \in 2..Len(lines) : lines[l] = "results" => CallsIn(lines[l - 1]) > 0
    BY DEF Conversation
<1>5. ASSUME NEW l \in 1..Len(lines), lines[l] = "results"
      PROVE  l - 1 \in 1..Len(lines) /\ CallsIn(lines[l - 1]) > 0
    <2>1. l # 1
        BY <1>3, <1>5 DEF UserKind
    <2>2. l \in 2..Len(lines) /\ l - 1 \in 1..Len(lines)
        BY <1>2, <2>1
    <2> QED
        BY <1>4, <1>5, <2>2
<1> QED
    BY <1>1, <1>2, <1>3, <1>5

LEMMA CallsInFacts == \A kind \in Kind : CallsIn(kind) \in {0, 1, 2}
    BY DEF Kind, CallsIn

LEMMA IdFacts ==
    ASSUME lines \in Conversation, NEW l \in 1..Len(lines)
    PROVE  /\ Ids(l) \in IdSeq /\ Len(Ids(l)) = CallsIn(lines[l]) /\ Len(Ids(l)) \in Nat
           /\ \A k \in 1..Len(Ids(l)) : Ids(l)[k] = <<l, k>>
           /\ Calls(l) = {<<l, k>> : k \in 1..Len(Ids(l))}
<1>1. l \in Nat /\ CallsIn(lines[l]) \in Nat
    BY LineFacts, CallsInFacts
<1>2. Ids(l) \in [1..CallsIn(lines[l]) -> Id]
    BY <1>1 DEF Ids, Id
<1>3. Ids(l) \in IdSeq /\ Len(Ids(l)) = CallsIn(lines[l])
    BY <1>1, <1>2 DEF IdSeq
<1> QED
    BY <1>1, <1>3 DEF Ids, Calls

(* The ids of earlier lines come first. *)
LEMMA IdOrder ==
    ASSUME lines \in Conversation, NEW a \in Int, NEW b \in Int, NEW c \in Int
    PROVE  /\ \A x \in CallIds(a, b), y \in CallIds(b, c) : Before(x, y)
           /\ \A x \in ResultIds(a, b), y \in ResultIds(b, c) : Before(x, y)
<1>0. Len(lines) \in Nat
    BY LineFacts
<1>1. ASSUME NEW x \in CallIds(a, b), NEW y \in CallIds(b, c) PROVE Before(x, y)
    <2>1. PICK l \in LinesIn(a, b) : x \in Calls(l)
        BY DEF CallIds
    <2>2. PICK m \in LinesIn(b, c) : y \in Calls(m)
        BY DEF CallIds
    <2>3. x[1] = l /\ y[1] = m
        BY <2>1, <2>2 DEF Calls
    <2>4. l < m
        BY <1>0 DEF LinesIn
    <2> QED
        BY <2>3, <2>4 DEF Before
<1>2. ASSUME NEW x \in ResultIds(a, b), NEW y \in ResultIds(b, c) PROVE Before(x, y)
    <2>1. PICK l \in LinesIn(a, b) : x \in Results(l)
        BY DEF ResultIds
    <2>2. PICK m \in LinesIn(b, c) : y \in Results(m)
        BY DEF ResultIds
    <2>3. x[1] = l - 1 /\ y[1] = m - 1
        BY <2>1, <2>2 DEF Calls, Results
    <2>4. l - 1 < m - 1
        BY <1>0 DEF LinesIn
    <2> QED
        BY <2>3, <2>4 DEF Before
<1> QED
    BY <1>1, <1>2

LEMMA IdUnion ==
    ASSUME lines \in Conversation, NEW a \in Int, NEW b \in Int, NEW c \in Int, a <= b, b <= c
    PROVE  /\ LinesIn(a, c) = LinesIn(a, b) \cup LinesIn(b, c)
           /\ CallIds(a, c) = CallIds(a, b) \cup CallIds(b, c)
           /\ ResultIds(a, c) = ResultIds(a, b) \cup ResultIds(b, c)
<1>0. Len(lines) \in Nat
    BY LineFacts
<1>1. LinesIn(a, c) = LinesIn(a, b) \cup LinesIn(b, c)
    BY <1>0 DEF LinesIn
<1> QED
    BY <1>1 DEF CallIds, ResultIds

(* Parts that follow each other. *)
LEMMA PartCat ==
    ASSUME lines \in Conversation, NEW h \in Body, NEW s \in Body, NEW t \in Body, Cat(h, s, t),
           NEW a \in Int, NEW b \in Int, NEW c \in Int, a <= b, b <= c, Part(s, a, b), Part(t, b, c)
    PROVE  Part(h, a, c)
<1>0. Len(s) \in Nat /\ Len(t) \in Nat /\ Len(h) = Len(s) + Len(t)
    BY ListFacts DEF Cat
<1>1. ASSUME NEW k \in 1..Len(h)
      PROVE  \/ k \in 1..Len(s) /\ h[k] = s[k]
             \/ k - Len(s) \in 1..Len(t) /\ h[k] = t[k - Len(s)] /\ k > Len(s)
    BY <1>0, CatIndex
<1>i. /\ \A k \in 1..Len(h) : h[k] \in ItemSet /\ h[k].line \in Nat
      /\ \A k \in 1..Len(s) : s[k].line \in Nat
      /\ \A k \in 1..Len(t) : t[k].line \in Nat
    BY ListFacts DEF ItemSet
<1>2. ASSUME NEW k \in 1..Len(h), h[k] # Comma PROVE a < h[k].line /\ h[k].line <= c
    BY <1>0, <1>1, <1>2, <1>i DEF Part
<1>3. ASSUME NEW k \in 1..Len(h), NEW m \in 1..Len(h), k < m, h[k] # Comma, h[m] # Comma
      PROVE  h[k].line <= h[m].line
    <2>1. CASE k \in 1..Len(s) /\ h[k] = s[k]
        <3>1. h[k].line <= b
            BY <1>3, <2>1 DEF Part
        <3>2. CASE m \in 1..Len(s) /\ h[m] = s[m]
            BY <1>3, <2>1, <3>2 DEF Part
        <3>3. CASE m - Len(s) \in 1..Len(t) /\ h[m] = t[m - Len(s)]
            <4>1. b < h[m].line
                BY <1>3, <3>3 DEF Part
            <4> QED
                BY <1>i, <3>1, <4>1
        <3> QED
            BY <1>1, <3>2, <3>3
    <2>2. CASE k - Len(s) \in 1..Len(t) /\ h[k] = t[k - Len(s)] /\ k > Len(s)
        <3>1. m - Len(s) \in 1..Len(t) /\ h[m] = t[m - Len(s)] /\ k - Len(s) < m - Len(s)
            BY <1>0, <1>1, <1>3, <2>2
        <3> DEFINE k1 == k - Len(s)
                   m1 == m - Len(s)
        <3>2. k1 \in 1..Len(t) /\ m1 \in 1..Len(t) /\ h[k] = t[k1] /\ h[m] = t[m1] /\ k1 < m1
            BY <2>2, <3>1
        <3> HIDE DEF k1, m1
        <3> QED
            BY <1>3, <3>2 DEF Part
    <2> QED
        BY <1>1, <2>1, <2>2
<1>4. ASSUME NEW l \in LinesIn(a, c), ~Dropped(l) PROVE \E k \in 1..Len(h) : h[k].line = l
    <2>1. CASE l \in LinesIn(a, b)
        <3>1. PICK k \in 1..Len(s) : s[k].line = l
            BY <1>4, <2>1 DEF Part
        <3>2. k \in 1..Len(h) /\ h[k] = s[k]
            BY <1>0 DEF Cat
        <3> QED
            BY <3>1, <3>2
    <2>2. CASE l \in LinesIn(b, c)
        <3>1. PICK k \in 1..Len(t) : t[k].line = l
            BY <1>4, <2>2 DEF Part
        <3>2. Len(s) + k \in 1..Len(h) /\ h[Len(s) + k] = t[k]
            BY <1>0 DEF Cat
        <3> QED
            BY <3>1, <3>2
    <2> QED
        BY <2>1, <2>2, IdUnion
<1>u. CallIds(a, c) = CallIds(a, b) \cup CallIds(b, c) /\ ResultIds(a, c) = ResultIds(a, b) \cup ResultIds(b, c)
    <2>1. lines \in Conversation /\ a \in Int /\ b \in Int /\ c \in Int /\ a <= b /\ b <= c
        OBVIOUS
    <2> QED
        BY ONLY <2>1, IdUnion
<1>5. Once(CallList(h), CallIds(a, c))
    <2>1. Cat(CallList(h), CallList(s), CallList(t)) /\ Len(CallList(s)) \in Nat /\ Len(CallList(t)) \in Nat
        BY CatLists, ListFacts
    <2>2. Once(CallList(s), CallIds(a, b)) /\ Once(CallList(t), CallIds(b, c))
        BY DEF Part
    <2>3. \A x \in CallIds(a, b), y \in CallIds(b, c) : Before(x, y)
        BY IdOrder
    <2>4. Once(CallList(h), CallIds(a, b) \cup CallIds(b, c))
        BY <2>1, <2>2, <2>3, OnceCat
    <2> QED
        BY <1>u, <2>4
<1>6. Once(ResultList(h), ResultIds(a, c))
    <2>1. Cat(ResultList(h), ResultList(s), ResultList(t)) /\ Len(ResultList(s)) \in Nat /\ Len(ResultList(t)) \in Nat
        BY CatLists, ListFacts
    <2>2. Once(ResultList(s), ResultIds(a, b)) /\ Once(ResultList(t), ResultIds(b, c))
        BY DEF Part
    <2>3. \A x \in ResultIds(a, b), y \in ResultIds(b, c) : Before(x, y)
        BY IdOrder
    <2>4. Once(ResultList(h), ResultIds(a, b) \cup ResultIds(b, c))
        BY <2>1, <2>2, <2>3, OnceCat
    <2> QED
        BY <1>u, <2>4
<1> QED
    BY <1>2, <1>3, <1>4, <1>5, <1>6 DEF Part

(* A comma belongs to no line. *)
LEMMA CommaFacts == Comma \in ItemSet /\ Comma.line = 0 /\ Comma.calls = <<>> /\ Comma.results = <<>>
<1>1. <<>> \in IdSeq /\ "comma" \in Type
    BY DEF IdSeq, Type
<1> QED
    BY <1>1 DEF Comma, Item, ItemSet

LEMMA NoIds ==
    ASSUME lines \in Conversation, NEW a \in Int
    PROVE  LinesIn(a, a) = {} /\ CallIds(a, a) = {} /\ ResultIds(a, a) = {}
<1>1. LinesIn(a, a) = {}
    BY LineFacts DEF LinesIn
<1> QED
    BY <1>1 DEF CallIds, ResultIds

LEMMA PartComma ==
    ASSUME lines \in Conversation, NEW a \in Int
    PROVE  <<Comma>> \in Body /\ Part(<<Comma>>, a, a)
<1> DEFINE s == <<Comma>>
<1>1. s \in Body /\ Len(s) = 1 /\ \A k \in 1..Len(s) : s[k] = Comma
    BY CommaFacts DEF Body
<1>2. /\ Len(CallList(s)) = 1 /\ Len(ResultList(s)) = 1
      /\ \A k \in 1..1 : CallList(s)[k] = <<>> /\ ResultList(s)[k] = <<>>
    BY <1>1, CommaFacts, ListFacts
<1> HIDE DEF s
<1>3. Once(CallList(s), {}) /\ Once(ResultList(s), {})
    BY <1>2, OnceNone
<1>4. Part(s, a, a)
    BY <1>1, <1>3, NoIds DEF Part
<1> QED
    BY <1>1, <1>4 DEF s

(* Nothing, for lines that become nothing. *)
LEMMA PartEmpty ==
    ASSUME NEW a \in Int, NEW b \in Int,
           \A l \in LinesIn(a, b) : Dropped(l) /\ Calls(l) = {} /\ Results(l) = {}
    PROVE  <<>> \in Body /\ Part(<<>>, a, b)
<1> DEFINE s == <<>>
<1>1. s \in Body /\ Len(s) = 0 /\ 1..0 = {}
    BY DEF Body
<1>2. Len(CallList(s)) = 0 /\ Len(ResultList(s)) = 0
    BY <1>1, ListFacts
<1>3. CallIds(a, b) = {} /\ ResultIds(a, b) = {}
    BY DEF CallIds, ResultIds
<1> HIDE DEF s
<1>4. Once(CallList(s), {}) /\ Once(ResultList(s), {})
    BY <1>1, <1>2, OnceNone
<1>5. Part(s, a, b)
    BY <1>1, <1>3, <1>4 DEF Part
<1> QED
    BY <1>1, <1>5 DEF s

(* Lines that become nothing may follow. *)
LEMMA PartSkip ==
    ASSUME lines \in Conversation, NEW s \in Body, NEW a \in Int, NEW b \in Int, NEW c \in Int,
           a <= b, b <= c, Part(s, a, b),
           \A l \in LinesIn(b, c) : Dropped(l) /\ Calls(l) = {} /\ Results(l) = {}
    PROVE  Part(s, a, c)
<1>1. <<>> \in Body /\ Part(<<>>, b, c)
    BY PartEmpty
<1>2. Cat(s, s, <<>>)
    <2>1. Len(s) \in Nat /\ Len(<<>>) = 0 /\ 1..0 = {}
        BY ListFacts
    <2> QED
        BY <2>1 DEF Cat
<1> QED
    BY <1>1, <1>2, PartCat

(* Items with commas between them. *)
LEMMA JoinedFacts ==
    ASSUME NEW items \in Body, items # <<>>, \A j \in 1..Len(items) : items[j] # Comma
    PROVE  /\ Joined(items) \in Body /\ Len(Joined(items)) = 2 * Len(items) - 1
           /\ \A j \in 1..Len(items) : Joined(items)[2 * j - 1] = items[j]
           /\ \A k \in 1..(2 * Len(items) - 1) :
                 \/ k % 2 = 0 /\ Joined(items)[k] = Comma
                 \/ k % 2 = 1 /\ \E j \in 1..Len(items) : k = 2 * j - 1
<1> DEFINE n == Len(items)
           J == Joined(items)
<1>0. n \in Nat /\ n > 0 /\ \A j \in 1..n : items[j] \in ItemSet
    <2>1. items \in Seq(ItemSet)
        BY DEF Body
    <2> QED
        BY <2>1
<1>1. 2 * n - 1 \in Nat
    BY <1>0
<1>2. ASSUME NEW k \in 1..(2 * n - 1)
      PROVE  /\ k % 2 = 0 \/ k % 2 = 1
             /\ k % 2 = 1 => (k + 1) \div 2 \in 1..n /\ k = 2 * ((k + 1) \div 2) - 1
    BY <1>0
<1>3. \A k \in 1..(2 * n - 1) : J[k] = IF k % 2 = 1 THEN items[(k + 1) \div 2] ELSE Comma
    BY DEF Joined
<1>4. J \in [1..(2 * n - 1) -> ItemSet]
    <2>1. J = [k \in 1..(2 * n - 1) |-> J[k]]
        BY DEF Joined
    <2>2. \A k \in 1..(2 * n - 1) : J[k] \in ItemSet
        BY <1>0, <1>2, <1>3, CommaFacts
    <2> HIDE DEF J
    <2> QED
        BY <2>1, <2>2
<1>5. J \in Body /\ Len(J) = 2 * n - 1
    BY <1>1, <1>4 DEF Body
<1>6. ASSUME NEW j \in 1..n PROVE J[2 * j - 1] = items[j]
    <2>1. 2 * j - 1 \in 1..(2 * n - 1) /\ (2 * j - 1) % 2 = 1 /\ ((2 * j - 1) + 1) \div 2 = j
        BY <1>0
    <2> QED
        BY <1>3, <2>1
<1>7. ASSUME NEW k \in 1..(2 * n - 1)
      PROVE  \/ k % 2 = 0 /\ J[k] = Comma
             \/ k % 2 = 1 /\ \E j \in 1..n : k = 2 * j - 1
    <2>1. CASE k % 2 = 1
        BY <1>2, <2>1
    <2>2. CASE k % 2 = 0
        BY <1>3, <2>2
    <2> QED
        BY <1>2, <2>1, <2>2
<1> QED
    BY <1>5, <1>6, <1>7

LEMMA OnceSpread ==
    ASSUME NEW list, NEW spread, NEW ids, Len(list) \in Nat, Len(list) > 0, Once(list, ids),
           Len(spread) = 2 * Len(list) - 1,
           \A j \in 1..Len(list) : spread[2 * j - 1] = list[j],
           \A k \in 1..Len(spread) : spread[k] = <<>> \/ \E j \in 1..Len(list) : k = 2 * j - 1
    PROVE  Once(spread, ids)
<1>0. \A j \in 1..Len(list) : 2 * j - 1 \in 1..Len(spread)
    OBVIOUS
<1>1. ASSUME NEW k \in 1..Len(spread), NEW n \in 1..Len(spread[k])
      PROVE  \E j \in 1..Len(list) : k = 2 * j - 1 /\ spread[k] = list[j]
    <2>1. spread[k] # <<>>
        BY <1>1
    <2> QED
        BY <2>1
<1>2. ASSUME NEW k \in 1..Len(spread), NEW n \in 1..Len(spread[k]) PROVE spread[k][n] \in ids
    <2>1. PICK j \in 1..Len(list) : k = 2 * j - 1 /\ spread[k] = list[j]
        BY <1>1
    <2> QED
        BY <2>1 DEF Once
<1>3. ASSUME NEW x \in ids PROVE \E k \in 1..Len(spread) : \E n \in 1..Len(spread[k]) : spread[k][n] = x
    <2>1. PICK j \in 1..Len(list) : \E n \in 1..Len(list[j]) : list[j][n] = x
        BY DEF Once
    <2>2. 2 * j - 1 \in 1..Len(spread) /\ spread[2 * j - 1] = list[j]
        BY <1>0
    <2> QED
        BY <2>1, <2>2
<1>4. ASSUME NEW k \in 1..Len(spread), NEW m \in 1..Len(spread), NEW n \in 1..Len(spread[k]),
             NEW o \in 1..Len(spread[m]), k < m \/ (k = m /\ n < o)
      PROVE  Before(spread[k][n], spread[m][o])
    <2>1. PICK j \in 1..Len(list) : k = 2 * j - 1 /\ spread[k] = list[j]
        BY <1>1
    <2>2. PICK q \in 1..Len(list) : m = 2 * q - 1 /\ spread[m] = list[q]
        BY <1>1
    <2>3. j < q \/ (j = q /\ n < o)
        BY <1>4, <2>1, <2>2
    <2> QED
        BY <2>1, <2>2, <2>3 DEF Once
<1> QED
    BY <1>2, <1>3, <1>4 DEF Once

LEMMA PartJoined ==
    ASSUME NEW items \in Body, items # <<>>, \A j \in 1..Len(items) : items[j] # Comma,
           NEW a \in Int, NEW b \in Int, Part(items, a, b)
    PROVE  Joined(items) \in Body /\ Part(Joined(items), a, b)
<1> DEFINE n == Len(items)
           J == Joined(items)
<1>0. n \in Nat /\ n > 0
    <2>1. items \in Seq(ItemSet)
        BY DEF Body
    <2> QED
        BY <2>1
<1>1. /\ J \in Body /\ Len(J) = 2 * n - 1
      /\ \A j \in 1..n : J[2 * j - 1] = items[j]
      /\ \A k \in 1..(2 * n - 1) : \/ k % 2 = 0 /\ J[k] = Comma
                                   \/ k % 2 = 1 /\ \E j \in 1..n : k = 2 * j - 1
    BY JoinedFacts
<1> HIDE DEF n, J
<1>2. \A k \in 1..Len(J) : J[k] # Comma => \E j \in 1..n : k = 2 * j - 1 /\ J[k] = items[j]
    BY <1>1
<1>3. ASSUME NEW k \in 1..Len(J), J[k] # Comma PROVE a < J[k].line /\ J[k].line <= b
    BY <1>2, <1>3 DEF Part, n
<1>4. ASSUME NEW k \in 1..Len(J), NEW m \in 1..Len(J), k < m, J[k] # Comma, J[m] # Comma
      PROVE  J[k].line <= J[m].line
    <2>1. PICK j \in 1..n : k = 2 * j - 1 /\ J[k] = items[j]
        BY <1>2, <1>4
    <2>2. PICK q \in 1..n : m = 2 * q - 1 /\ J[m] = items[q]
        BY <1>2, <1>4
    <2>3. j < q
        BY <1>0, <1>4, <2>1, <2>2
    <2> QED
        BY <1>4, <2>1, <2>2, <2>3 DEF Part, n
<1>5. ASSUME NEW l \in LinesIn(a, b), ~Dropped(l) PROVE \E k \in 1..Len(J) : J[k].line = l
    <2>1. PICK j \in 1..n : items[j].line = l
        BY <1>5 DEF Part, n
    <2>2. 2 * j - 1 \in 1..Len(J) /\ J[2 * j - 1] = items[j]
        BY <1>0, <1>1
    <2> QED
        BY <2>1, <2>2
<1>l. /\ Len(CallList(items)) = n /\ Len(ResultList(items)) = n
      /\ \A j \in 1..n : CallList(items)[j] = items[j].calls /\ ResultList(items)[j] = items[j].results
      /\ Len(CallList(J)) = Len(J) /\ Len(ResultList(J)) = Len(J)
      /\ \A k \in 1..Len(J) : CallList(J)[k] = J[k].calls /\ ResultList(J)[k] = J[k].results
    BY <1>1, ListFacts DEF n
<1>m. \A j \in 1..n : 2 * j - 1 \in 1..Len(J)
    BY <1>0, <1>1
<1>6. Once(CallList(J), CallIds(a, b))
    <2>1. Once(CallList(items), CallIds(a, b))
        BY DEF Part
    <2>2. \A j \in 1..n : CallList(J)[2 * j - 1] = CallList(items)[j]
        BY <1>1, <1>l, <1>m
    <2>3. \A k \in 1..Len(J) : CallList(J)[k] = <<>> \/ \E j \in 1..n : k = 2 * j - 1
        BY <1>1, <1>l, CommaFacts
    <2>4. PICK f, g : f = CallList(items) /\ g = CallList(J)
        OBVIOUS
    <2>5. /\ Len(f) \in Nat /\ Len(f) > 0 /\ Len(g) = 2 * Len(f) - 1
          /\ \A j \in 1..Len(f) : g[2 * j - 1] = f[j]
        BY <1>0, <1>1, <1>l, <2>2, <2>4
    <2>6. \A k \in 1..Len(g) : g[k] = <<>> \/ \E j \in 1..Len(f) : k = 2 * j - 1
        BY <1>l, <2>3, <2>4
    <2>7. Once(g, CallIds(a, b))
        BY <2>1, <2>4, <2>5, <2>6, OnceSpread
    <2> QED
        BY <2>4, <2>7
<1>7. Once(ResultList(J), ResultIds(a, b))
    <2>1. Once(ResultList(items), ResultIds(a, b))
        BY DEF Part
    <2>2. \A j \in 1..n : ResultList(J)[2 * j - 1] = ResultList(items)[j]
        BY <1>1, <1>l, <1>m
    <2>3. \A k \in 1..Len(J) : ResultList(J)[k] = <<>> \/ \E j \in 1..n : k = 2 * j - 1
        BY <1>1, <1>l, CommaFacts
    <2>4. PICK f, g : f = ResultList(items) /\ g = ResultList(J)
        OBVIOUS
    <2>5. /\ Len(f) \in Nat /\ Len(f) > 0 /\ Len(g) = 2 * Len(f) - 1
          /\ \A j \in 1..Len(f) : g[2 * j - 1] = f[j]
        BY <1>0, <1>1, <1>l, <2>2, <2>4
    <2>6. \A k \in 1..Len(g) : g[k] = <<>> \/ \E j \in 1..Len(f) : k = 2 * j - 1
        BY <1>l, <2>3, <2>4
    <2>7. Once(g, ResultIds(a, b))
        BY <2>1, <2>4, <2>5, <2>6, OnceSpread
    <2> QED
        BY <2>4, <2>7
<1>8. Part(J, a, b)
    BY <1>3, <1>4, <1>5, <1>6, <1>7 DEF Part
<1> QED
    BY <1>1, <1>8 DEF J

------------------------------------------------------------------------------
(* How many items there are. *)

ItemsAt(s) == {k \in 1..Len(s) : s[k] # Comma}
Written(s) == Cardinality(ItemsAt(s))

LEMMA WrittenFacts ==
    ASSUME NEW s \in Body
    PROVE  IsFiniteSet(ItemsAt(s)) /\ Written(s) \in Nat /\ (Written(s) = 0 <=> ItemsAt(s) = {})
<1>1. IsFiniteSet(1..Len(s))
    BY ListFacts, FS_Interval
<1>2. ItemsAt(s) \in SUBSET (1..Len(s))
    BY DEF ItemsAt
<1>3. IsFiniteSet(ItemsAt(s))
    BY <1>1, <1>2, FS_Subset
<1> QED
    BY <1>3, FS_CardinalityType, FS_EmptySet DEF Written

(* The same number on both sides of a one-to-one correspondence. *)
LEMMA SameCount ==
    ASSUME NEW S, NEW T, IsFiniteSet(S), NEW f \in [S -> T],
           \A x, y \in S : f[x] = f[y] => x = y, \A z \in T : \E x \in S : f[x] = z
    PROVE  IsFiniteSet(T) /\ Cardinality(T) = Cardinality(S)
<1>1. f \in Bijection(S, T)
    BY DEF Bijection, Injection, Surjection, IsInjective
<1>2. ExistsBijection(S, T)
    BY <1>1 DEF ExistsBijection
<1> QED
    BY <1>2, FS_Bijection

LEMMA CountCat ==
    ASSUME NEW h \in Body, NEW s \in Body, NEW t \in Body, Cat(h, s, t)
    PROVE  Written(h) = Written(s) + Written(t)
<1>0. Len(s) \in Nat /\ Len(t) \in Nat /\ Len(h) = Len(s) + Len(t)
    BY ListFacts DEF Cat
<1> DEFINE T == {k \in 1..Len(h) : k > Len(s) /\ h[k] # Comma}
           f == [j \in ItemsAt(t) |-> Len(s) + j]
<1>f. IsFiniteSet(ItemsAt(s)) /\ IsFiniteSet(ItemsAt(t)) /\ Written(s) \in Nat /\ Written(t) \in Nat
    BY WrittenFacts
<1>1. \A k \in 1..Len(h) : k <= Len(s) => k \in 1..Len(s) /\ h[k] = s[k]
    BY <1>0 DEF Cat
<1>2. \A k \in 1..Len(s) : k \in 1..Len(h) /\ h[k] = s[k]
    BY <1>0 DEF Cat
<1>3. \A j \in 1..Len(t) : Len(s) + j \in 1..Len(h) /\ h[Len(s) + j] = t[j] /\ Len(s) + j > Len(s)
    BY <1>0 DEF Cat
<1>4. \A k \in 1..Len(h) : k > Len(s) => \E j \in 1..Len(t) : k = Len(s) + j
    <2> SUFFICES ASSUME NEW k \in 1..Len(h), k > Len(s) PROVE \E j \in 1..Len(t) : k = Len(s) + j
        OBVIOUS
    <2>1. k - Len(s) \in 1..Len(t) /\ k = Len(s) + (k - Len(s))
        BY <1>0
    <2> QED
        BY <2>1
<1>5. ItemsAt(h) = ItemsAt(s) \cup T
    BY <1>0, <1>1, <1>2 DEF ItemsAt
<1>6. ItemsAt(s) \cap T = {}
    BY <1>0 DEF ItemsAt
<1>7. IsFiniteSet(T) /\ Cardinality(T) = Written(t)
    <2>1. f \in [ItemsAt(t) -> T]
        BY <1>3 DEF ItemsAt
    <2>2. \A x, y \in ItemsAt(t) : f[x] = f[y] => x = y
        BY <1>0 DEF ItemsAt
    <2>3. \A z \in T : \E x \in ItemsAt(t) : f[x] = z
        <3> SUFFICES ASSUME NEW z \in T PROVE \E x \in ItemsAt(t) : f[x] = z
            OBVIOUS
        <3>1. PICK j \in 1..Len(t) : z = Len(s) + j
            BY <1>4
        <3>2. j \in ItemsAt(t)
            BY <1>3, <3>1 DEF ItemsAt
        <3> QED
            BY <3>1, <3>2
    <2> HIDE DEF f, T
    <2> QED
        BY <1>f, <2>1, <2>2, <2>3, SameCount DEF Written
<1> HIDE DEF T
<1>8. Cardinality(ItemsAt(s) \cup T) = Cardinality(ItemsAt(s)) + Cardinality(T) - Cardinality(ItemsAt(s) \cap T)
    BY <1>f, <1>7, FS_Union
<1> QED
    <2>1. Cardinality({}) = 0
        BY FS_EmptySet
    <2>2. Written(h) = Written(s) + Written(t) - 0
        BY <1>5, <1>6, <1>7, <1>8, <2>1 DEF Written
    <2> QED
        BY <1>f, <2>2

LEMMA CountJoined ==
    ASSUME NEW items \in Body, items # <<>>, \A j \in 1..Len(items) : items[j] # Comma
    PROVE  Written(Joined(items)) = Len(items)
<1> DEFINE n == Len(items)
           J == Joined(items)
           f == [j \in 1..n |-> 2 * j - 1]
<1>0. n \in Nat
    BY ListFacts
<1>1. /\ J \in Body /\ Len(J) = 2 * n - 1
      /\ \A j \in 1..n : J[2 * j - 1] = items[j]
      /\ \A k \in 1..(2 * n - 1) : \/ k % 2 = 0 /\ J[k] = Comma
                                   \/ k % 2 = 1 /\ \E j \in 1..n : k = 2 * j - 1
    BY JoinedFacts
<1> HIDE DEF J
<1>2. \A j \in 1..n : 2 * j - 1 \in 1..Len(J)
    BY <1>0, <1>1
<1>3. f \in [1..n -> ItemsAt(J)]
    BY <1>1, <1>2 DEF ItemsAt
<1>4. \A x, y \in 1..n : f[x] = f[y] => x = y
    BY <1>0
<1>5. \A z \in ItemsAt(J) : \E x \in 1..n : f[x] = z
    BY <1>1 DEF ItemsAt
<1>6. IsFiniteSet(1..n) /\ Cardinality(1..n) = n
    BY <1>0, FS_Interval
<1> HIDE DEF f, n
<1>7. Cardinality(ItemsAt(J)) = n
    BY <1>3, <1>4, <1>5, <1>6, SameCount
<1> QED
    BY <1>7 DEF Written, J, n

(* The commas of a body, and the counter. *)
CommasOK(s, w) ==
    /\ w = Written(s)
    /\ s # <<>> =>
        /\ s[1] # Comma /\ s[Len(s)] # Comma
        /\ \A k \in 1..(Len(s) - 1) :
              (s[k] = Comma) = (s[k + 1] # Comma) \/ s[k + 1].type = "tool"

LEMMA WroteFacts ==
    ASSUME NEW s \in Body, NEW w, CommasOK(s, w)
    PROVE  w \in Nat /\ (w > 0 <=> s # <<>>)
<1>1. Written(s) \in Nat /\ (Written(s) = 0 <=> ItemsAt(s) = {}) /\ w = Written(s)
    BY WrittenFacts DEF CommasOK
<1>2. CASE s = <<>>
    <2>1. ItemsAt(s) = {}
        BY <1>2 DEF ItemsAt
    <2> QED
        BY <1>1, <1>2, <2>1
<1>3. CASE s # <<>>
    <2>1. 1 \in 1..Len(s)
        <3>1. s \in Seq(ItemSet)
            BY DEF Body
        <3> QED
            BY <1>3, <3>1
    <2>2. 1 \in ItemsAt(s)
        BY <1>3, <2>1 DEF CommasOK, ItemsAt
    <2> QED
        BY <1>1, <1>3, <2>2
<1> QED
    BY <1>2, <1>3

------------------------------------------------------------------------------
(* What is written. *)

LEMMA AppendCat ==
    ASSUME NEW s \in Body, NEW t \in ItemSet
    PROVE  Append(s, t) \in Body /\ <<t>> \in Body /\ Cat(Append(s, t), s, <<t>>)
<1>1. s \in Seq(ItemSet)
    BY DEF Body
<1>2. Append(s, t) \in Seq(ItemSet) /\ <<t>> \in Seq(ItemSet)
    BY <1>1
<1>3. /\ Len(Append(s, t)) = Len(s) + 1 /\ Len(<<t>>) = 1 /\ Append(s, t)[Len(s) + 1] = t /\ <<t>>[1] = t
      /\ \A k \in 1..Len(s) : Append(s, t)[k] = s[k]
    BY <1>1
<1>4. \A k \in 1..1 : k = 1
    OBVIOUS
<1> QED
    BY <1>2, <1>3, <1>4 DEF Cat, Body

LEMMA ConcatCat ==
    ASSUME NEW s \in Body, NEW t \in Body
    PROVE  s \o t \in Body /\ Cat(s \o t, s, t)
<1>1. s \in Seq(ItemSet) /\ t \in Seq(ItemSet)
    BY DEF Body
<1>2. s \o t \in Seq(ItemSet)
    BY <1>1
<1>3. /\ Len(s) \in Nat /\ Len(t) \in Nat /\ Len(s \o t) = Len(s) + Len(t)
      /\ \A k \in 1..Len(s) : (s \o t)[k] = s[k]
      /\ \A k \in 1..Len(t) : (s \o t)[Len(s) + k] = t[k]
    BY <1>1
<1> QED
    BY <1>2, <1>3 DEF Cat, Body

(* Joined items are a body of their own. *)
LEMMA JoinedCommas ==
    ASSUME NEW items \in Body, items # <<>>, \A j \in 1..Len(items) : items[j] # Comma
    PROVE  CommasOK(Joined(items), Len(items)) /\ Joined(items) # <<>> /\ Joined(items)[1] = items[1]
<1> DEFINE n == Len(items)
           J == Joined(items)
<1>0. n \in Nat /\ n > 0
    <2>1. items \in Seq(ItemSet)
        BY DEF Body
    <2> QED
        BY <2>1
<1>1. /\ J \in Body /\ Len(J) = 2 * n - 1
      /\ \A j \in 1..n : J[2 * j - 1] = items[j]
      /\ \A k \in 1..(2 * n - 1) : \/ k % 2 = 0 /\ J[k] = Comma
                                   \/ k % 2 = 1 /\ \E j \in 1..n : k = 2 * j - 1
    BY JoinedFacts
<1> HIDE DEF J
<1>2. ASSUME NEW k \in 1..Len(J) PROVE (J[k] = Comma) <=> ((k % 2) = 0)
    <2>1. k \in 1..(2 * n - 1)
        BY <1>1
    <2>2. CASE (k % 2) = 0 /\ J[k] = Comma
        BY <2>2
    <2>3. CASE (k % 2) = 1 /\ \E j \in 1..n : k = 2 * j - 1
        <3>1. PICK j \in 1..n : k = 2 * j - 1
            BY <2>3
        <3>2. J[k] = items[j] /\ items[j] # Comma
            BY <1>1, <3>1 DEF n
        <3>3. (k % 2) # 0
            BY <2>3
        <3> QED
            BY <3>2, <3>3
    <2> QED
        BY <1>1, <2>1, <2>2, <2>3
<1>3. 1 \in 1..n /\ 2 * 1 - 1 = 1 /\ 2 * n - 1 \in 1..Len(J) /\ n \in 1..n
    BY <1>0, <1>1
<1>4. J[1] = items[1] /\ J[Len(J)] = items[n] /\ J # <<>>
    <2>1. J[1] = items[1] /\ J[2 * n - 1] = items[n]
        BY <1>1, <1>3
    <2>2. Len(J) # 0
        BY <1>0, <1>1
    <2> QED
        BY <1>1, <2>1, <2>2
<1>5. J[1] # Comma /\ J[Len(J)] # Comma
    BY <1>3, <1>4 DEF n
<1>6. ASSUME NEW k \in 1..(Len(J) - 1) PROVE (J[k] = Comma) = (J[k + 1] # Comma)
    <2>1. k \in 1..Len(J) /\ k + 1 \in 1..Len(J) /\ k \in Nat
        BY <1>0, <1>1
    <2>2. \A j \in Nat : ((j % 2) = 0) <=> (((j + 1) % 2) # 0)
        OBVIOUS
    <2>3. ((k % 2) = 0) <=> (((k + 1) % 2) # 0)
        BY <2>1, <2>2
    <2>4. (J[k] = Comma) <=> ((k % 2) = 0)
        BY <1>2, <2>1
    <2>5. (J[k + 1] = Comma) <=> (((k + 1) % 2) = 0)
        BY <1>2, <2>1
    <2> QED
        BY <2>3, <2>4, <2>5
<1>7. Written(J) = n
    BY CountJoined DEF J
<1>8. CommasOK(J, n)
    BY <1>5, <1>6, <1>7 DEF CommasOK
<1> QED
    BY <1>4, <1>8 DEF J

(* Two bodies, with a comma between them or in front of a tool message. *)
LEMMA CommasCat ==
    ASSUME NEW h \in Body, NEW s \in Body, NEW t \in Body, s # <<>>, t # <<>>, Cat(h, s, t),
           NEW v, NEW w, CommasOK(t, w), v = Written(s), s[1] # Comma,
           \A k \in 1..(Len(s) - 1) : (s[k] = Comma) = (s[k + 1] # Comma) \/ s[k + 1].type = "tool",
           s[Len(s)] = Comma \/ (s[Len(s)] # Comma /\ t[1].type = "tool")
    PROVE  CommasOK(h, v + w)
<1>0. Len(s) \in Nat /\ Len(t) \in Nat /\ Len(s) > 0 /\ Len(t) > 0 /\ Len(h) = Len(s) + Len(t)
    <2>1. s \in Seq(ItemSet) /\ t \in Seq(ItemSet)
        BY DEF Body
    <2>2. Len(s) \in Nat /\ Len(t) \in Nat /\ Len(s) > 0 /\ Len(t) > 0
        BY <2>1
    <2> QED
        BY <2>2 DEF Cat
<1>1. /\ \A k \in 1..Len(s) : h[k] = s[k]
      /\ \A k \in 1..Len(t) : h[Len(s) + k] = t[k]
    BY DEF Cat
<1>2. t[1] # Comma /\ t[Len(t)] # Comma
      /\ \A k \in 1..(Len(t) - 1) : (t[k] = Comma) = (t[k + 1] # Comma) \/ t[k + 1].type = "tool"
    BY DEF CommasOK
<1>3. h[1] = s[1] /\ h[Len(h)] = t[Len(t)] /\ h # <<>>
    <2>1. 1 \in 1..Len(s) /\ Len(t) \in 1..Len(t) /\ Len(h) # 0
        BY <1>0
    <2> QED
        BY <1>0, <1>1, <2>1
<1>4. ASSUME NEW k \in 1..(Len(h) - 1)
      PROVE  (h[k] = Comma) = (h[k + 1] # Comma) \/ h[k + 1].type = "tool"
    <2>1. CASE k < Len(s)
        <3>1. k \in 1..Len(s) /\ k + 1 \in 1..Len(s) /\ k \in 1..(Len(s) - 1)
            BY <1>0, <2>1
        <3> QED
            BY <1>1, <3>1
    <2>2. CASE k = Len(s)
        <3>1. k \in 1..Len(s) /\ 1 \in 1..Len(t) /\ k + 1 = Len(s) + 1
            BY <1>0, <2>2
        <3>2. h[k] = s[Len(s)] /\ h[k + 1] = t[1]
            BY <1>1, <2>2, <3>1
        <3> QED
            BY <1>2, <3>2
    <2>3. CASE k > Len(s)
        <3> DEFINE j == k - Len(s)
        <3>1. j \in 1..Len(t) /\ j + 1 \in 1..Len(t) /\ j \in 1..(Len(t) - 1) /\ k = Len(s) + j /\ k + 1 = Len(s) + (j + 1)
            BY <1>0, <2>3
        <3>2. h[k] = t[j] /\ h[k + 1] = t[j + 1]
            <4> HIDE DEF j
            <4> QED
                BY <1>1, <3>1
        <3> HIDE DEF j
        <3> QED
            BY <1>2, <3>1, <3>2
    <2> QED
        BY <1>0, <2>1, <2>2, <2>3
<1>5. Written(h) = v + w
    BY CountCat DEF CommasOK
<1> QED
    BY <1>2, <1>3, <1>4, <1>5 DEF CommasOK

(* Write keeps the commas right and adds what the items stand for. *)
LEMMA WriteFacts ==
    ASSUME lines \in Conversation, out \in Body, CommasOK(out, wrote), NEW items \in Body,
           \A j \in 1..Len(items) : items[j] # Comma
    PROVE  Write(items) \in Body /\ CommasOK(Write(items), wrote + Len(items))
<1>0. wrote \in Nat /\ (wrote > 0 <=> out # <<>>) /\ wrote = Written(out)
    BY WroteFacts DEF CommasOK
<1>1. CASE items = <<>>
    BY <1>0, <1>1 DEF Write
<1>2. CASE items # <<>>
    <2> DEFINE J == Joined(items)
               pre == Append(out, Comma)
    <2>1. J \in Body /\ CommasOK(J, Len(items)) /\ J # <<>>
        BY <1>2, JoinedFacts, JoinedCommas
    <2>2. Len(items) \in Nat
        BY ListFacts
    <2>3. CASE wrote = 0
        <3>1. out = <<>>
            BY <1>0, <2>3
        <3>2. Write(items) = out \o J
            BY <1>2, <2>3 DEF Write
        <3>3. out \o J = J
            <4>1. J \in Seq(ItemSet)
                BY <2>1 DEF Body
            <4> HIDE DEF J
            <4> QED
                BY <3>1, <4>1
        <3> HIDE DEF J
        <3> QED
            BY <2>1, <2>2, <2>3, <3>2, <3>3
    <2>4. CASE wrote # 0
        <3>1. out # <<>> /\ Write(items) = pre \o J
            <4>1. wrote > 0
                BY <1>0, <2>4
            <4>2. Write(items) = pre \o J
                BY <1>2, <4>1 DEF Write
            <4> QED
                BY <1>0, <4>1, <4>2
        <3>2. pre \in Body /\ <<Comma>> \in Body /\ Cat(pre, out, <<Comma>>)
            BY CommaFacts, AppendCat
        <3> HIDE DEF J
        <3>3. Written(pre) = wrote
            <4>1. Written(pre) = Written(out) + Written(<<Comma>>)
                BY <3>2, CountCat
            <4>2. ItemsAt(<<Comma>>) = {}
                BY DEF ItemsAt
            <4>3. Written(<<Comma>>) = 0
                BY <4>2, FS_EmptySet DEF Written
            <4> QED
                BY <1>0, <4>1, <4>3
        <3>4. Len(out) \in Nat /\ Len(out) > 0 /\ Len(pre) = Len(out) + 1 /\ pre[Len(pre)] = Comma
              /\ \A k \in 1..Len(out) : pre[k] = out[k]
            <4>1. out \in Seq(ItemSet)
                BY DEF Body
            <4> QED
                BY <3>1, <4>1, CommaFacts
        <3> HIDE DEF pre
        <3>5. pre # <<>> /\ pre[1] # Comma
            <4>1. 1 \in 1..Len(out) /\ Len(pre) # 0
                BY <3>4
            <4> QED
                BY <3>1, <3>4, <4>1 DEF CommasOK
        <3>6. ASSUME NEW k \in 1..(Len(pre) - 1)
              PROVE  (pre[k] = Comma) = (pre[k + 1] # Comma) \/ pre[k + 1].type = "tool"
            <4>1. CASE k = Len(out)
                <5>1. pre[k] = out[Len(out)] /\ pre[k + 1] = Comma
                    BY <3>4, <4>1
                <5> QED
                    BY <3>1, <5>1 DEF CommasOK
            <4>2. CASE k # Len(out)
                <5>1. k \in 1..(Len(out) - 1) /\ k \in 1..Len(out) /\ k + 1 \in 1..Len(out)
                    BY <3>4, <4>2
                <5> QED
                    BY <3>1, <3>4, <5>1 DEF CommasOK
            <4> QED
                BY <4>1, <4>2
        <3>7. pre \o J \in Body /\ Cat(pre \o J, pre, J)
            BY <2>1, <3>2, ConcatCat
        <3>8. CommasOK(pre \o J, wrote + Len(items))
            BY <2>1, <3>2, <3>3, <3>4, <3>5, <3>6, <3>7, CommasCat
        <3> QED
            BY <3>1, <3>7, <3>8
    <2> QED
        BY <2>3, <2>4
<1> QED
    BY <1>1, <1>2

LEMMA WritePart ==
    ASSUME lines \in Conversation, out \in Body, NEW items \in Body,
           \A j \in 1..Len(items) : items[j] # Comma,
           NEW a \in Int, NEW b \in Int, NEW c \in Int, a <= b, b <= c, Part(out, a, b), Part(items, b, c)
    PROVE  Part(Write(items), a, c)
<1>1. CASE items = <<>>
    <2>1. Write(items) = out
        BY <1>1 DEF Write
    <2>2. Len(out) \in Nat /\ Len(<<>>) = 0 /\ 1..0 = {}
        BY ListFacts
    <2>3. Cat(out, out, items)
        BY <1>1, <2>2 DEF Cat
    <2> QED
        BY <2>1, <2>3, PartCat
<1>2. CASE items # <<>>
    <2> DEFINE J == Joined(items)
               pre == Append(out, Comma)
    <2>1. J \in Body /\ Part(J, b, c)
        BY <1>2, PartJoined
    <2>2. pre \in Body /\ Part(pre, a, b)
        <3>1. pre \in Body /\ <<Comma>> \in Body /\ Cat(pre, out, <<Comma>>) /\ Part(<<Comma>>, b, b)
            BY CommaFacts, AppendCat, PartComma
        <3> HIDE DEF pre
        <3> QED
            BY <3>1, PartCat
    <2>3. Write(items) = pre \o J \/ Write(items) = out \o J
        BY <1>2 DEF Write
    <2> HIDE DEF J, pre
    <2>4. /\ pre \o J \in Body /\ Cat(pre \o J, pre, J)
          /\ out \o J \in Body /\ Cat(out \o J, out, J)
        BY <2>1, <2>2, ConcatCat
    <2>5. Part(pre \o J, a, c)
        BY <2>1, <2>2, <2>4, PartCat
    <2>6. Part(out \o J, a, c)
        BY <2>1, <2>4, PartCat
    <2> QED
        BY <2>3, <2>5, <2>6
<1> QED
    BY <1>1, <1>2

------------------------------------------------------------------------------
(* What a line becomes. *)

(* One sequence with the ids of a line, or with none. *)
LEMMA OnceIds ==
    ASSUME NEW list, NEW l \in Int, NEW n \in Nat, Len(list) = 1, Len(list[1]) = n,
           \A k \in 1..n : list[1][k] = <<l, k>>
    PROVE  Once(list, {<<l, k>> : k \in 1..n})
<1>1. ASSUME NEW k \in 1..Len(list), NEW m \in 1..Len(list[k])
      PROVE  k = 1 /\ m \in 1..n /\ list[k][m] = <<l, m>>
    <2>1. k = 1
        OBVIOUS
    <2> QED
        BY <2>1
<1>2. ASSUME NEW k \in 1..n
      PROVE  1 \in 1..Len(list) /\ k \in 1..Len(list[1]) /\ list[1][k] = <<l, k>>
    OBVIOUS
<1>3. \A k, m \in 1..n : k < m => Before(<<l, k>>, <<l, m>>)
    BY DEF Before
<1>4. \A k \in 1..Len(list) : \A m \in 1..Len(list[k]) : list[k][m] \in {<<l, j>> : j \in 1..n}
    BY <1>1
<1>5. \A x \in {<<l, j>> : j \in 1..n} :
          \E k \in 1..Len(list) : \E m \in 1..Len(list[k]) : list[k][m] = x
    BY <1>2
<1>6. ASSUME NEW k \in 1..Len(list), NEW m \in 1..Len(list), NEW p \in 1..Len(list[k]),
             NEW o \in 1..Len(list[m]), k < m \/ (k = m /\ p < o)
      PROVE  Before(list[k][p], list[m][o])
    <2>1. k = 1 /\ m = 1 /\ p \in 1..n /\ o \in 1..n /\ list[k][p] = <<l, p>> /\ list[m][o] = <<l, o>>
        BY <1>1
    <2>2. p < o
        BY <1>6, <2>1
    <2> QED
        BY <1>3, <2>1, <2>2
<1> QED
    BY <1>4, <1>5, <1>6 DEF Once

(* One sequence per id, and empty ones after them. *)
LEMMA OnceEach ==
    ASSUME NEW list, NEW l \in Int, NEW n \in Nat, Len(list) \in Nat, n <= Len(list),
           \A k \in 1..n : list[k] = << <<l, k>> >>,
           \A k \in 1..Len(list) : k > n => list[k] = <<>>
    PROVE  Once(list, {<<l, k>> : k \in 1..n})
<1>1. ASSUME NEW k \in 1..Len(list), NEW m \in 1..Len(list[k])
      PROVE  k \in 1..n /\ m = 1 /\ list[k][m] = <<l, k>>
    <2>1. k \in 1..n
        <3>1. CASE k > n
            <4>1. list[k] = <<>>
                BY <3>1
            <4>2. Len(<<>>) = 0 /\ 1..0 = {}
                OBVIOUS
            <4> QED
                BY <1>1, <4>1, <4>2
        <3>2. CASE ~(k > n)
            BY <3>2
        <3> QED
            BY <3>1, <3>2
    <2>2. list[k] = << <<l, k>> >>
        BY <2>1
    <2>3. Len(<< <<l, k>> >>) = 1 /\ << <<l, k>> >>[1] = <<l, k>> /\ \A j \in 1..1 : j = 1
        OBVIOUS
    <2>4. m = 1
        BY <1>1, <2>2, <2>3
    <2> QED
        BY <2>1, <2>2, <2>3, <2>4
<1>2. ASSUME NEW k \in 1..n
      PROVE  k \in 1..Len(list) /\ 1 \in 1..Len(list[k]) /\ list[k][1] = <<l, k>>
    <2>1. list[k] = << <<l, k>> >>
        OBVIOUS
    <2>2. Len(<< <<l, k>> >>) = 1 /\ << <<l, k>> >>[1] = <<l, k>>
        OBVIOUS
    <2> QED
        BY <2>1, <2>2
<1>3. \A k, m \in 1..n : k < m => Before(<<l, k>>, <<l, m>>)
    BY DEF Before
<1>4. \A k \in 1..Len(list) : \A m \in 1..Len(list[k]) : list[k][m] \in {<<l, j>> : j \in 1..n}
    BY <1>1
<1>5. \A x \in {<<l, j>> : j \in 1..n} :
          \E k \in 1..Len(list) : \E m \in 1..Len(list[k]) : list[k][m] = x
    BY <1>2
<1>6. ASSUME NEW k \in 1..Len(list), NEW m \in 1..Len(list), NEW p \in 1..Len(list[k]),
             NEW o \in 1..Len(list[m]), k < m \/ (k = m /\ p < o)
      PROVE  Before(list[k][p], list[m][o])
    <2>1. k \in 1..n /\ p = 1 /\ list[k][p] = <<l, k>> /\ m \in 1..n /\ o = 1 /\ list[m][o] = <<l, m>>
        BY <1>1
    <2> QED
        BY <1>3, <1>6, <2>1
<1> QED
    BY <1>4, <1>5, <1>6 DEF Once

(* The items of one line. *)
LEMMA PartLine ==
    ASSUME lines \in Conversation, NEW l \in 1..Len(lines), NEW s \in Body,
           \A k \in 1..Len(s) : s[k].line = l, s # <<>> \/ Dropped(l),
           Once(CallList(s), Calls(l)), Once(ResultList(s), Results(l))
    PROVE  Part(s, l - 1, l)
<1>1. LinesIn(l - 1, l) = {l}
    BY LineFacts DEF LinesIn
<1>2. CallIds(l - 1, l) = Calls(l) /\ ResultIds(l - 1, l) = Results(l)
    BY <1>1 DEF CallIds, ResultIds
<1>3. s # <<>> => 1 \in 1..Len(s)
    <2>1. s \in Seq(ItemSet)
        BY DEF Body
    <2> QED
        BY <2>1
<1>4. Dropped(l) \/ \E k \in 1..Len(s) : s[k].line = l
    BY <1>3
<1>5. l \in Nat
    BY LineFacts
<1> QED
    BY <1>1, <1>2, <1>4, <1>5 DEF Part

LEMMA ItemFacts ==
    ASSUME NEW type \in Type, NEW l \in Nat, NEW calls \in IdSeq, NEW results \in IdSeq, type # "comma"
    PROVE  /\ Item(type, l, calls, results) \in ItemSet /\ Item(type, l, calls, results) # Comma
           /\ Item(type, l, calls, results).type = type /\ Item(type, l, calls, results).line = l
           /\ Item(type, l, calls, results).calls = calls
           /\ Item(type, l, calls, results).results = results
<1> DEFINE it == Item(type, l, calls, results)
<1>1. it.type = type /\ it.line = l /\ it.calls = calls /\ it.results = results
    BY DEF Item
<1>2. it \in ItemSet
    BY DEF Item, ItemSet
<1>3. Comma.type = "comma"
    BY DEF Comma, Item
<1> QED
    BY <1>1, <1>2, <1>3

LEMMA IdSeqFacts ==
    /\ <<>> \in IdSeq
    /\ \A l, k \in Nat : << <<l, k>> >> \in IdSeq
<1>1. \A l, k \in Nat : <<l, k>> \in Id
    BY DEF Id
<1> QED
    BY <1>1 DEF IdSeq

(* The calls and results of a line. *)
LEMMA CallFacts ==
    ASSUME lines \in Conversation, NEW l \in 1..Len(lines)
    PROVE  /\ Calls(l) = {<<l, k>> : k \in 1..CallsIn(lines[l])}
           /\ CallsIn(lines[l]) \in Nat
           /\ lines[l] \notin {"call", "badCall", "textCalls"} => CallsIn(lines[l]) = 0 /\ Calls(l) = {}
           /\ lines[l] = "results" =>
                 /\ CallsIn(lines[l - 1]) \in Nat /\ CallsIn(lines[l - 1]) > 0
                 /\ Results(l) = {<<l - 1, k>> : k \in 1..CallsIn(lines[l - 1])}
           /\ lines[l] # "results" => Results(l) = {}
<1>1. CallsIn(lines[l]) \in Nat /\ Calls(l) = {<<l, k>> : k \in 1..CallsIn(lines[l])}
    BY LineFacts, CallsInFacts DEF Calls
<1>2. lines[l] \notin {"call", "badCall", "textCalls"} => CallsIn(lines[l]) = 0 /\ Calls(l) = {}
    <2>1. lines[l] \notin {"call", "badCall", "textCalls"} => CallsIn(lines[l]) = 0
        BY DEF CallsIn
    <2>2. 1..0 = {}
        OBVIOUS
    <2> QED
        BY <1>1, <2>1, <2>2
<1>3. ASSUME lines[l] = "results"
      PROVE  /\ CallsIn(lines[l - 1]) \in Nat /\ CallsIn(lines[l - 1]) > 0
             /\ Results(l) = {<<l - 1, k>> : k \in 1..CallsIn(lines[l - 1])}
    <2>1. l - 1 \in 1..Len(lines) /\ CallsIn(lines[l - 1]) > 0
        BY <1>3, LineFacts
    <2>2. CallsIn(lines[l - 1]) \in Nat
        BY <2>1, LineFacts, CallsInFacts
    <2> QED
        BY <1>3, <2>1, <2>2 DEF Results, Calls
<1>4. lines[l] # "results" => Results(l) = {}
    BY DEF Results
<1> QED
    BY <1>1, <1>2, <1>3, <1>4

LEMMA MessageFacts ==
    ASSUME lines \in Conversation, NEW l \in 1..Len(lines)
    PROVE  /\ Message(l) \in ItemSet /\ Message(l) # Comma /\ Message(l).line = l
           /\ Message(l).type = expand_vision_line(l) /\ Message(l).calls = Ids(l)
           /\ Message(l).results = IF lines[l] = "results" THEN Ids(l - 1) ELSE <<>>
           /\ (Message(l).type = "results") <=> (lines[l] = "results")
<1>1. l \in Nat /\ lines[l] \in Kind
    BY LineFacts
<1>2. expand_vision_line(l) \in Type /\ expand_vision_line(l) # "comma"
    BY <1>1 DEF expand_vision_line, Kind, Type, UserKind
<1>3. (expand_vision_line(l) = "results") <=> (lines[l] = "results")
    BY DEF expand_vision_line, UserKind
<1>4. Ids(l) \in IdSeq
    BY IdFacts
<1>5. (IF lines[l] = "results" THEN Ids(l - 1) ELSE <<>>) \in IdSeq
    <2>1. CASE lines[l] = "results"
        <3>1. l - 1 \in 1..Len(lines)
            BY <2>1, LineFacts
        <3> QED
            BY <2>1, <3>1, IdFacts
    <2>2. CASE lines[l] # "results"
        BY <2>2, IdSeqFacts
    <2> QED
        BY <2>1, <2>2
<1> HIDE DEF Ids
<1> QED
    BY <1>1, <1>2, <1>3, <1>4, <1>5, ItemFacts DEF Message

(* A line's message stands for it. *)
LEMMA PartMessage ==
    ASSUME lines \in Conversation, NEW l \in 1..Len(lines)
    PROVE  <<Message(l)>> \in Body /\ Part(<<Message(l)>>, l - 1, l)
<1> DEFINE s == <<Message(l)>>
<1>0. l \in Nat /\ l - 1 \in Int
    BY LineFacts
<1>1. s \in Body /\ Len(s) = 1 /\ s[1] = Message(l) /\ s # <<>> /\ \A k \in 1..1 : k = 1
    BY MessageFacts DEF Body
<1>2. /\ Len(CallList(s)) = 1 /\ Len(ResultList(s)) = 1
      /\ CallList(s)[1] = Message(l).calls /\ ResultList(s)[1] = Message(l).results
    BY <1>1, ListFacts
<1> HIDE DEF s
<1>3. Once(CallList(s), Calls(l))
    <2>1. Len(Ids(l)) = CallsIn(lines[l]) /\ Len(Ids(l)) \in Nat /\ \A k \in 1..Len(Ids(l)) : Ids(l)[k] = <<l, k>>
        BY IdFacts
    <2>2. CallList(s)[1] = Ids(l)
        BY <1>2, MessageFacts
    <2>3. Once(CallList(s), {<<l, k>> : k \in 1..CallsIn(lines[l])})
        BY <1>0, <1>2, <2>1, <2>2, OnceIds
    <2> QED
        BY <2>3, CallFacts
<1>4. Once(ResultList(s), Results(l))
    <2>1. CASE lines[l] = "results"
        <3>0. l - 1 \in 1..Len(lines)
            BY <2>1, LineFacts
        <3>1. /\ Len(Ids(l - 1)) = CallsIn(lines[l - 1]) /\ Len(Ids(l - 1)) \in Nat
              /\ \A k \in 1..Len(Ids(l - 1)) : Ids(l - 1)[k] = <<l - 1, k>>
            BY <3>0, IdFacts
        <3>2. ResultList(s)[1] = Ids(l - 1)
            BY <1>2, <2>1, MessageFacts
        <3>3. Once(ResultList(s), {<<l - 1, k>> : k \in 1..CallsIn(lines[l - 1])})
            BY <1>0, <1>2, <3>1, <3>2, OnceIds
        <3> QED
            BY <2>1, <3>3, CallFacts
    <2>2. CASE lines[l] # "results"
        <3>1. ResultList(s)[1] = <<>>
            BY <1>2, <2>2, MessageFacts
        <3>2. Once(ResultList(s), {})
            BY <1>1, <1>2, <3>1, OnceNone
        <3> QED
            BY <2>2, <3>2, CallFacts
    <2> QED
        BY <2>1, <2>2
<1>5. \A k \in 1..Len(s) : s[k].line = l
    BY <1>1, MessageFacts
<1>6. Part(s, l - 1, l)
    BY <1>1, <1>3, <1>4, <1>5, PartLine
<1> QED
    BY <1>1, <1>6 DEF s

(* One item per result, without calls. *)
LEMMA PartResults ==
    ASSUME lines \in Conversation, NEW l \in 1..Len(lines), lines[l] = "results",
           NEW type \in Type, type # "comma", NEW s,
           s = [k \in DOMAIN Message(l).results |-> Item(type, l, <<>>, <<Message(l).results[k]>>)]
    PROVE  /\ s \in Body /\ Part(s, l - 1, l) /\ s # <<>>
           /\ \A k \in 1..Len(s) : s[k] # Comma /\ s[k].type = type
<1> DEFINE n == CallsIn(lines[l - 1])
<1>0. l \in Nat /\ l - 1 \in Int /\ l - 1 \in 1..Len(lines) /\ l - 1 \in Nat
    BY LineFacts
<1>1. Message(l).results = Ids(l - 1)
    BY MessageFacts
<1>2. n \in Nat /\ n > 0 /\ DOMAIN Ids(l - 1) = 1..n /\ \A k \in 1..n : Ids(l - 1)[k] = <<l - 1, k>>
    BY CallFacts DEF Ids
<1>3. s = [k \in 1..n |-> Item(type, l, <<>>, << <<l - 1, k>> >>)]
    BY <1>1, <1>2
<1>4. \A k \in 1..n : << <<l - 1, k>> >> \in IdSeq
    BY <1>0, <1>2, IdSeqFacts
<1>5. \A k \in 1..n : /\ Item(type, l, <<>>, << <<l - 1, k>> >>) \in ItemSet
                      /\ Item(type, l, <<>>, << <<l - 1, k>> >>) # Comma
                      /\ Item(type, l, <<>>, << <<l - 1, k>> >>).type = type
                      /\ Item(type, l, <<>>, << <<l - 1, k>> >>).line = l
                      /\ Item(type, l, <<>>, << <<l - 1, k>> >>).calls = <<>>
                      /\ Item(type, l, <<>>, << <<l - 1, k>> >>).results = << <<l - 1, k>> >>
    BY <1>0, <1>4, ItemFacts, IdSeqFacts
<1>6. \A k \in 1..n : /\ s[k] \in ItemSet /\ s[k] # Comma /\ s[k].type = type /\ s[k].line = l
                      /\ s[k].calls = <<>> /\ s[k].results = << <<l - 1, k>> >>
    BY <1>3, <1>5
<1>7. s \in Seq(ItemSet) /\ Len(s) = n
    <2>1. s \in [1..n -> ItemSet]
        BY <1>3, <1>5
    <2>2. n \in Nat
        BY <1>2
    <2> HIDE DEF n
    <2> QED
        BY ONLY <2>1, <2>2
<1> HIDE DEF n
<1>8. s \in Body /\ s # <<>>
    <2>1. s \in Body
        BY <1>7 DEF Body
    <2> QED
        BY <1>2, <1>7, <2>1
<1>9. /\ Len(CallList(s)) = n /\ Len(ResultList(s)) = n
      /\ \A k \in 1..n : CallList(s)[k] = <<>> /\ ResultList(s)[k] = << <<l - 1, k>> >>
    BY <1>6, <1>7, <1>8, ListFacts
<1>10. Once(CallList(s), Calls(l))
    <2>1. Once(CallList(s), {})
        BY <1>9, OnceNone
    <2> QED
        BY <2>1, CallFacts
<1>11. Once(ResultList(s), Results(l))
    <2>0. \A k \in 1..n : ~(k > n)
        BY <1>2
    <2>1. l - 1 \in Int /\ n \in Nat /\ n <= n
        BY <1>0, <1>2
    <2> DEFINE list == ResultList(s)
    <2>2. Len(list) = n /\ \A k \in 1..n : list[k] = << <<l - 1, k>> >>
        BY <1>9
    <2> HIDE DEF list
    <2>3. Len(list) \in Nat /\ n <= Len(list) /\ \A k \in 1..Len(list) : k > n => list[k] = <<>>
        BY <2>0, <2>1, <2>2
    <2>4. \A k \in 1..n : list[k] = << <<l - 1, k>> >>
        BY <2>2
    <2>5. Once(list, {<<l - 1, k>> : k \in 1..n})
        BY <2>1, <2>3, <2>4, OnceEach
    <2>6. Once(ResultList(s), {<<l - 1, k>> : k \in 1..n})
        BY <2>5 DEF list
    <2> QED
        BY <2>6, CallFacts DEF n
<1>12. Part(s, l - 1, l)
    BY <1>6, <1>7, <1>8, <1>10, <1>11, PartLine
<1> QED
    BY <1>6, <1>7, <1>8, <1>12

(* An answer: its calls, then its text. *)
LEMMA PartAssistant ==
    ASSUME lines \in Conversation, NEW l \in 1..Len(lines), provider = "responses",
           IsJson, lines[l] \in {"thinking", "text", "call", "textCalls"}
    PROVE  /\ AssistantItems(Message(l)) \in Body /\ Part(AssistantItems(Message(l)), l - 1, l)
           /\ \A k \in 1..Len(AssistantItems(Message(l))) : AssistantItems(Message(l))[k] # Comma
<1> DEFINE n == CallsIn(lines[l])
           F == [k \in 1..n |-> Item("function_call", l, << <<l, k>> >>, <<>>)]
           G == IF lines[l] \in {"text", "textCalls"} THEN <<Item("assistant", l, <<>>, <<>>)>> ELSE <<>>
           s == F \o G
<1>0. l \in Nat /\ n \in Nat /\ Calls(l) = {<<l, k>> : k \in 1..n} /\ Results(l) = {}
    BY LineFacts, CallFacts
<1>1. AssistantItems(Message(l)) = s
    <2>1. Message(l).type = lines[l] /\ Message(l).line = l /\ Message(l).calls = Ids(l)
        <3>1. expand_vision_line(l) = lines[l]
            BY DEF expand_vision_line, UserKind
        <3> QED
            BY <3>1, MessageFacts
    <2>2. DOMAIN Ids(l) = 1..n /\ \A k \in 1..n : Ids(l)[k] = <<l, k>>
        BY DEF Ids
    <2> QED
        BY <2>1, <2>2 DEF AssistantItems
<1>2. ASSUME NEW k \in 1..n
      PROVE  /\ F[k] \in ItemSet /\ F[k] # Comma /\ F[k].line = l
             /\ F[k].calls = << <<l, k>> >> /\ F[k].results = <<>>
    <2>1. << <<l, k>> >> \in IdSeq /\ <<>> \in IdSeq
        BY <1>0, IdSeqFacts
    <2>2. "function_call" \in Type /\ "function_call" # "comma"
        BY DEF Type
    <2>3. F[k] = Item("function_call", l, << <<l, k>> >>, <<>>)
        OBVIOUS
    <2> HIDE DEF F
    <2> QED
        BY <1>0, <2>1, <2>2, <2>3, ItemFacts
<1>3. F \in Body /\ Len(F) = n
    <2>1. F \in [1..n -> ItemSet]
        BY <1>2
    <2>2. n \in Nat
        BY <1>0
    <2> HIDE DEF n, F
    <2>3. F \in Seq(ItemSet) /\ Len(F) = n
        BY ONLY <2>1, <2>2
    <2> QED
        BY <2>3 DEF Body
<1>4. /\ Item("assistant", l, <<>>, <<>>) \in ItemSet /\ Item("assistant", l, <<>>, <<>>) # Comma
      /\ Item("assistant", l, <<>>, <<>>).line = l /\ Item("assistant", l, <<>>, <<>>).calls = <<>>
      /\ Item("assistant", l, <<>>, <<>>).results = <<>>
    <2>1. "assistant" \in Type /\ "assistant" # "comma"
        BY DEF Type
    <2> QED
        BY <1>0, <2>1, IdSeqFacts, ItemFacts
<1>5. /\ G \in Body
      /\ \A k \in 1..Len(G) : /\ G[k] # Comma /\ G[k].line = l /\ G[k].calls = <<>> /\ G[k].results = <<>>
      /\ Len(G) \in Nat
    <2>1. CASE lines[l] \in {"text", "textCalls"}
        <3>1. G = <<Item("assistant", l, <<>>, <<>>)>>
            BY <2>1
        <3>2. G \in Body /\ Len(G) = 1 /\ G[1] = Item("assistant", l, <<>>, <<>>) /\ \A k \in 1..1 : k = 1
            BY <1>4, <3>1 DEF Body
        <3> HIDE DEF G
        <3> QED
            BY <1>4, <3>2
    <2>2. CASE lines[l] \notin {"text", "textCalls"}
        <3>1. G = <<>>
            BY <2>2
        <3>2. G \in Body /\ Len(G) = 0 /\ 1..0 = {}
            BY <3>1 DEF Body
        <3> HIDE DEF G
        <3> QED
            BY <3>2
    <2> QED
        BY <2>1, <2>2
<1>6. s # <<>> \/ Dropped(l)
    <2>1. CASE lines[l] = "thinking"
        BY <2>1 DEF Dropped
    <2>2. CASE lines[l] \in {"call", "textCalls"}
        <3>1. n > 0
            BY <2>2 DEF CallsIn
        <3>2. Len(s) > 0
            <4>1. F \in Seq(ItemSet) /\ G \in Seq(ItemSet) /\ Len(F) > 0
                BY <1>0, <1>3, <1>5, <3>1 DEF Body
            <4> HIDE DEF F, G
            <4> QED
                BY <4>1
        <3>3. Len(<<>>) = 0
            OBVIOUS
        <3> HIDE DEF s
        <3> QED
            BY <3>2, <3>3
    <2>3. CASE lines[l] = "text"
        <3>1. Len(G) = 1
            BY <2>3
        <3>2. Len(s) > 0
            <4>1. F \in Seq(ItemSet) /\ G \in Seq(ItemSet) /\ Len(F) \in Nat
                BY <1>0, <1>3, <1>5 DEF Body
            <4>2. Len(G) > 0
                BY <3>1
            <4> HIDE DEF F, G
            <4>3. Len(F \o G) = Len(F) + Len(G) /\ Len(G) \in Nat
                BY <4>1
            <4> QED
                BY ONLY <4>1, <4>2, <4>3
        <3>3. Len(<<>>) = 0
            OBVIOUS
        <3> HIDE DEF s
        <3> QED
            BY <3>2, <3>3
    <2> QED
        BY <2>1, <2>2, <2>3
<1> HIDE DEF F, G
<1>7. s \in Body /\ Cat(s, F, G)
    BY <1>3, <1>5, ConcatCat
<1> HIDE DEF s
<1>8. ASSUME NEW k \in 1..Len(s)
      PROVE  /\ s[k] # Comma /\ s[k].line = l /\ s[k].results = <<>>
             /\ k \in 1..n => s[k].calls = << <<l, k>> >>
             /\ k > n => s[k].calls = <<>>
    <2>1. \/ k \in 1..Len(F) /\ s[k] = F[k]
          \/ k - Len(F) \in 1..Len(G) /\ s[k] = G[k - Len(F)] /\ k > Len(F)
        BY <1>0, <1>3, <1>5, <1>7, CatIndex
    <2>2. CASE k \in 1..Len(F) /\ s[k] = F[k]
        <3>1. k \in 1..n /\ ~(k > n)
            BY <1>0, <1>3, <2>2
        <3> QED
            BY <1>2, <2>2, <3>1
    <2>3. CASE k - Len(F) \in 1..Len(G) /\ s[k] = G[k - Len(F)] /\ k > Len(F)
        <3>1. k \notin 1..n
            BY <1>0, <1>3, <2>3
        <3> QED
            BY <1>5, <2>3, <3>1
    <2> QED
        BY <2>1, <2>2, <2>3
<1>9. /\ Len(s) \in Nat /\ n <= Len(s) /\ Len(CallList(s)) = Len(s) /\ Len(ResultList(s)) = Len(s)
      /\ \A k \in 1..Len(s) : CallList(s)[k] = s[k].calls /\ ResultList(s)[k] = s[k].results
    <2>1. Len(s) = n + Len(G)
        BY <1>3, <1>7 DEF Cat
    <2>2. n <= Len(s) /\ Len(s) \in Nat
        BY <1>0, <1>5, <2>1
    <2> QED
        BY <1>7, <2>2, ListFacts
<1> HIDE DEF n
<1>10. Once(CallList(s), Calls(l))
    <2>1. \A k \in 1..n : k \in 1..Len(s)
        BY <1>0, <1>9
    <2>2. \A k \in 1..n : CallList(s)[k] = << <<l, k>> >>
        BY <1>8, <1>9, <2>1
    <2>3. \A k \in 1..Len(CallList(s)) : k > n => CallList(s)[k] = <<>>
        BY <1>8, <1>9
    <2>4. l \in Int /\ n \in Nat /\ Len(CallList(s)) \in Nat /\ n <= Len(CallList(s))
        BY <1>0, <1>9
    <2> DEFINE list == CallList(s)
    <2> HIDE DEF list
    <2>5. Once(list, {<<l, k>> : k \in 1..n})
        BY <2>2, <2>3, <2>4, OnceEach DEF list
    <2> QED
        BY <1>0, <2>5 DEF list
<1>11. Once(ResultList(s), Results(l))
    <2>1. \A k \in 1..Len(ResultList(s)) : ResultList(s)[k] = <<>>
        BY <1>8, <1>9
    <2>2. Once(ResultList(s), {})
        BY <2>1, OnceNone
    <2> QED
        BY <1>0, <2>2
<1>12. \A k \in 1..Len(s) : s[k].line = l
    BY <1>8
<1>13. Part(s, l - 1, l)
    BY <1>6, <1>7, <1>10, <1>11, <1>12, PartLine
<1> QED
    BY <1>1, <1>7, <1>8, <1>13

(* Items without calls or results, for a line that has none. *)
LEMMA PartPlain ==
    ASSUME lines \in Conversation, NEW l \in 1..Len(lines), NEW s \in Body, s # <<>> \/ Dropped(l),
           lines[l] \notin {"call", "badCall", "textCalls", "results"},
           \A k \in 1..Len(s) : s[k].line = l /\ s[k].calls = <<>> /\ s[k].results = <<>>
    PROVE  Part(s, l - 1, l)
<1>1. /\ \A k \in 1..Len(CallList(s)) : CallList(s)[k] = <<>>
      /\ \A k \in 1..Len(ResultList(s)) : ResultList(s)[k] = <<>>
    BY ListFacts
<1>2. Once(CallList(s), {}) /\ Once(ResultList(s), {})
    BY <1>1, OnceNone
<1>3. Calls(l) = {} /\ Results(l) = {}
    BY CallFacts
<1> QED
    BY <1>2, <1>3, PartLine

(* Whatever a message becomes in the Responses format stands for its line. *)
LEMMA PartResponses ==
    ASSUME lines \in Conversation, NEW l \in 1..Len(lines), provider = "responses", IsJson
    PROVE  /\ ResponsesItems(Message(l)) \in Body /\ Part(ResponsesItems(Message(l)), l - 1, l)
           /\ \A k \in 1..Len(ResponsesItems(Message(l))) : ResponsesItems(Message(l))[k] # Comma
<1> DEFINE m == Message(l)
           user == Item("user", l, <<>>, <<>>)
           image == Item("input_image", l, <<>>, <<>>)
<1>0. /\ l \in Nat /\ lines[l] \in Kind /\ m \in ItemSet /\ m # Comma /\ m.line = l
      /\ m.type = expand_vision_line(l) /\ (m.type = "results" <=> lines[l] = "results")
    BY LineFacts, MessageFacts
<1>1. /\ user \in ItemSet /\ user # Comma /\ user.line = l /\ user.calls = <<>> /\ user.results = <<>>
      /\ image \in ItemSet /\ image # Comma /\ image.line = l /\ image.calls = <<>> /\ image.results = <<>>
    <2>1. "user" \in Type /\ "input_image" \in Type /\ "user" # "comma" /\ "input_image" # "comma"
        BY DEF Type, Kind
    <2> QED
        BY <1>0, <2>1, IdSeqFacts, ItemFacts
<1> HIDE DEF m, user, image
<1>2. CASE m.type \in {"thinking", "text", "call", "textCalls"}
    <2>1. lines[l] \in {"thinking", "text", "call", "textCalls"}
        BY <1>0, <1>2 DEF expand_vision_line, UserKind
    <2>2. ResponsesItems(m) = AssistantItems(m)
        BY <1>2 DEF ResponsesItems
    <2> QED
        BY <2>1, <2>2, PartAssistant DEF m
<1>3. CASE m.type = "results"
    <2> DEFINE s == [k \in DOMAIN m.results |-> Item("function_call_output", l, <<>>, <<m.results[k]>>)]
    <2>1. ResponsesItems(m) = s
        BY <1>0, <1>3 DEF ResponsesItems
    <2>2. "function_call_output" \in Type /\ "function_call_output" # "comma"
        BY DEF Type
    <2>3. lines[l] = "results"
        BY <1>0, <1>3
    <2>4. s = [k \in DOMAIN Message(l).results |-> Item("function_call_output", l, <<>>, <<Message(l).results[k]>>)]
        BY DEF m
    <2> HIDE DEF s
    <2>5. s \in Body /\ Part(s, l - 1, l) /\ \A k \in 1..Len(s) : s[k] # Comma
        BY <2>2, <2>3, <2>4, PartResults
    <2> QED
        BY <2>1, <2>5 DEF m
<1>4. CASE m.type = "textAndImage"
    <2> DEFINE s == <<user, image>>
    <2>1. ResponsesItems(m) = s
        BY <1>0, <1>4 DEF ResponsesItems, user, image
    <2>2. s \in Body /\ s # <<>> /\ \A k \in 1..Len(s) : s[k] = user \/ s[k] = image
        BY <1>1 DEF Body
    <2>3. lines[l] \notin {"call", "badCall", "textCalls", "results"}
        BY <1>0, <1>4 DEF expand_vision_line, UserKind
    <2> HIDE DEF s
    <2>4. Part(s, l - 1, l)
        BY <1>1, <2>2, <2>3, PartPlain
    <2> QED
        BY <1>1, <2>1, <2>2, <2>4 DEF m
<1>5. CASE m.type = "imageBlock"
    <2> DEFINE s == <<image>>
    <2>1. ResponsesItems(m) = s
        BY <1>0, <1>5 DEF ResponsesItems, image
    <2>2. s \in Body /\ s # <<>> /\ \A k \in 1..Len(s) : s[k] = image
        BY <1>1 DEF Body
    <2>3. lines[l] \notin {"call", "badCall", "textCalls", "results"}
        BY <1>0, <1>5 DEF expand_vision_line, UserKind
    <2> HIDE DEF s
    <2>4. Part(s, l - 1, l)
        BY <1>1, <2>2, <2>3, PartPlain
    <2> QED
        BY <1>1, <2>1, <2>2, <2>4 DEF m
<1>7. CASE m.type = "textAndEmpty"
    <2> DEFINE s == <<user>>
    <2>1. ResponsesItems(m) = s
        BY <1>0, <1>7 DEF ResponsesItems, user
    <2>2. s \in Body /\ s # <<>> /\ \A k \in 1..Len(s) : s[k] = user
        BY <1>1 DEF Body
    <2>3. lines[l] \notin {"call", "badCall", "textCalls", "results"}
        BY <1>0, <1>7 DEF expand_vision_line, UserKind
    <2> HIDE DEF s
    <2>4. Part(s, l - 1, l)
        BY <1>1, <2>2, <2>3, PartPlain
    <2> QED
        BY <1>1, <2>1, <2>2, <2>4 DEF m
<1>8. CASE m.type = "emptyBlock"
    <2> DEFINE s == <<>>
    <2>1. ResponsesItems(m) = s
        BY <1>0, <1>8 DEF ResponsesItems
    <2>2. s \in Body /\ 1..Len(s) = {}
        BY DEF Body
    <2>3. /\ lines[l] \notin {"call", "badCall", "textCalls", "results"}
          /\ vision /\ lines[l] = "emptyOnly"
        BY <1>0, <1>8 DEF expand_vision_line, UserKind, Kind
    <2>4. Dropped(l)
        BY <2>3 DEF Dropped
    <2> HIDE DEF s
    <2>5. Part(s, l - 1, l)
        BY <2>2, <2>3, <2>4, PartPlain
    <2> QED
        BY <2>1, <2>2, <2>5 DEF m
<1>6. CASE m.type \notin {"thinking", "text", "call", "textCalls", "results", "textAndImage", "imageBlock",
                          "textAndEmpty", "emptyBlock"}
    <2>1. ResponsesItems(m) = <<m>>
        BY <1>6 DEF ResponsesItems
    <2>2. <<m>> \in Body /\ Part(<<m>>, l - 1, l)
        BY PartMessage DEF m
    <2>3. \A k \in 1..Len(<<m>>) : <<m>>[k] = m
        OBVIOUS
    <2> QED
        BY <1>0, <2>1, <2>2, <2>3 DEF m
<1> QED
    BY <1>2, <1>3, <1>4, <1>5, <1>6, <1>7, <1>8

------------------------------------------------------------------------------
(* The inductive invariant. *)

Types ==
    /\ lines \in Conversation /\ messages \in Body /\ out \in Body
    /\ i \in Nat /\ i > 0
    /\ pc \in {"build", "convert", "done", "failed"}

(* These are the messages of the lines up to b. *)
MessagesOf(ms, b) ==
    /\ \A k \in 1..Len(ms) :
          /\ ms[k].line \in LinesIn(0, b) /\ lines[ms[k].line] # "blank"
          /\ ms[k] = Message(ms[k].line)
    /\ \A k, m \in 1..Len(ms) : k < m => ms[k].line < ms[m].line
    /\ \A l \in LinesIn(0, b) : lines[l] # "blank" => \E k \in 1..Len(ms) : ms[k].line = l

(* The Claude body under construction is the list of the messages so far. *)
BuildInv ==
    pc = "build" =>
        /\ i <= Len(lines) + 1
        /\ Part(out, 0, i - 1)
        /\ MessagesOf(Elements(out), i - 1)
        /\ out # <<>> => Len(out) = 2 * Len(Elements(out)) - 1

(* The last line that the first messages, up to n - 1, and the empty lines *)
(* after them, account for.                                                *)
Reached(n) == IF n > Len(messages) THEN Len(lines) ELSE messages[n].line - 1

ConvertInv ==
    pc = "convert" =>
        /\ i <= Len(messages) + 1
        /\ MessagesOf(messages, Len(lines))
        /\ Part(out, 0, Reached(i))
        /\ IsJson

IInv ==
    /\ Types
    /\ CommasOK(out, wrote)
    /\ BuildInv
    /\ ConvertInv
    /\ pc = "done" => Part(out, -1, Len(lines))

(* A line that is empty becomes nothing. *)
LEMMA BlankLine ==
    ASSUME lines \in Conversation, NEW l \in 1..Len(lines), lines[l] = "blank"
    PROVE  Dropped(l) /\ Calls(l) = {} /\ Results(l) = {}
    BY CallFacts DEF Dropped

(* Between two messages, and after the last, there are empty lines. *)
LEMMA ReachedFacts ==
    ASSUME lines \in Conversation, messages \in Body, MessagesOf(messages, Len(lines)),
           NEW n \in 1..Len(messages)
    PROVE  /\ messages[n].line \in 1..Len(lines) /\ messages[n] = Message(messages[n].line)
           /\ Reached(n) = messages[n].line - 1
           /\ Reached(n + 1) \in Int /\ messages[n].line <= Reached(n + 1)
           /\ \A l \in LinesIn(messages[n].line, Reached(n + 1)) :
                 Dropped(l) /\ Calls(l) = {} /\ Results(l) = {}
<1>0. Len(lines) \in Nat /\ Len(messages) \in Nat /\ n \in Nat /\ n + 1 \in Nat
    BY LineFacts, ListFacts
<1>1. \A k \in 1..Len(messages) :
          messages[k].line \in 1..Len(lines) /\ messages[k].line \in Nat /\ messages[k] = Message(messages[k].line)
    BY <1>0 DEF MessagesOf, LinesIn
<1>2. Reached(n) = messages[n].line - 1
    BY <1>0 DEF Reached
<1>3. n + 1 <= Len(messages) => n + 1 \in 1..Len(messages) /\ messages[n].line < messages[n + 1].line
    BY <1>0 DEF MessagesOf
<1>4. Reached(n + 1) \in Int /\ messages[n].line <= Reached(n + 1) /\ Reached(n + 1) <= Len(lines)
    <2>1. CASE n + 1 > Len(messages)
        BY <1>0, <1>1, <2>1 DEF Reached
    <2>2. CASE ~(n + 1 > Len(messages))
        <3>1. n + 1 \in 1..Len(messages) /\ messages[n].line < messages[n + 1].line
            BY <1>0, <1>3, <2>2
        <3>2. Reached(n + 1) = messages[n + 1].line - 1
            BY <2>2 DEF Reached
        <3> QED
            BY <1>0, <1>1, <3>1, <3>2
    <2> QED
        BY <2>1, <2>2
<1>5. ASSUME NEW l \in LinesIn(messages[n].line, Reached(n + 1)) PROVE lines[l] = "blank"
    <2>1. l \in 1..Len(lines) /\ messages[n].line < l /\ l <= Reached(n + 1) /\ l \in LinesIn(0, Len(lines))
        BY <1>0 DEF LinesIn
    <2>2. SUFFICES ASSUME NEW k \in 1..Len(messages), messages[k].line = l PROVE FALSE
        BY <2>1 DEF MessagesOf
    <2>3. k > n
        <3>1. CASE k = n
            BY <1>1, <2>1, <2>2, <3>1
        <3>2. CASE k < n
            <4>1. messages[k].line < messages[n].line
                BY <3>2 DEF MessagesOf
            <4> QED
                BY <1>0, <1>1, <2>1, <2>2, <4>1
        <3> QED
            BY <1>0, <3>1, <3>2
    <2>4. n + 1 \in 1..Len(messages) /\ Reached(n + 1) = messages[n + 1].line - 1
        BY <1>0, <2>3 DEF Reached
    <2>5. CASE k = n + 1
        BY <1>1, <2>1, <2>2, <2>4, <2>5
    <2>6. CASE k # n + 1
        <3>1. n + 1 < k
            BY <1>0, <2>3, <2>6
        <3>2. messages[n + 1].line < messages[k].line
            BY <2>4, <3>1 DEF MessagesOf
        <3>3. messages[n + 1].line \in Nat /\ messages[k].line \in Nat
            BY <1>1, <2>4
        <3> QED
            BY <2>1, <2>2, <2>4, <3>2, <3>3
    <2> QED
        BY <2>5, <2>6
<1>6. \A l \in LinesIn(messages[n].line, Reached(n + 1)) : l \in 1..Len(lines)
    BY DEF LinesIn
<1> QED
    BY <1>1, <1>2, <1>4, <1>5, <1>6, BlankLine

LEMMA ReachedFirst ==
    ASSUME lines \in Conversation, NEW ms \in Body, MessagesOf(ms, Len(lines)), NEW first,
           first = IF 1 > Len(ms) THEN Len(lines) ELSE ms[1].line - 1
    PROVE  <<>> \in Body /\ Part(<<>>, 0, first)
<1>0. Len(lines) \in Nat /\ Len(ms) \in Nat
    BY LineFacts, ListFacts
<1>1. \A k \in 1..Len(ms) : ms[k].line \in 1..Len(lines) /\ ms[k].line \in Nat
    BY <1>0 DEF MessagesOf, LinesIn
<1>2. first \in Int /\ first <= Len(lines) /\ (Len(ms) > 0 => first = ms[1].line - 1)
    BY <1>0, <1>1
<1>3. ASSUME NEW l \in LinesIn(0, first) PROVE lines[l] = "blank"
    <2>1. l \in 1..Len(lines) /\ l <= first /\ l \in LinesIn(0, Len(lines))
        BY <1>0, <1>2 DEF LinesIn
    <2>2. SUFFICES ASSUME NEW k \in 1..Len(ms), ms[k].line = l PROVE FALSE
        BY <2>1 DEF MessagesOf
    <2>3. 1 \in 1..Len(ms) /\ first = ms[1].line - 1
        BY <1>0, <1>2
    <2>4. ms[1].line <= ms[k].line
        <3>1. CASE k = 1
            BY <1>1, <3>1
        <3>2. CASE k # 1
            <4>1. 1 < k
                BY <1>0, <3>2
            <4>2. ms[1].line < ms[k].line
                BY <2>3, <4>1 DEF MessagesOf
            <4> QED
                BY <1>1, <2>3, <4>2
        <3> QED
            BY <3>1, <3>2
    <2> QED
        BY <1>1, <2>1, <2>2, <2>3, <2>4
<1>4. \A l \in LinesIn(0, first) : l \in 1..Len(lines)
    BY DEF LinesIn
<1>5. \A l \in LinesIn(0, first) : Dropped(l) /\ Calls(l) = {} /\ Results(l) = {}
    BY <1>3, <1>4, BlankLine
<1> QED
    BY <1>2, <1>5, PartEmpty

(* What the lines become stays the same as long as the lines do. *)
LEMMA Stable ==
    ASSUME UNCHANGED <<lines, provider, vision>>
    PROVE  /\ IsJson' <=> IsJson
           /\ \A s, a, b : Part(s, a, b)' <=> Part(s, a, b)
           /\ \A ms, b : MessagesOf(ms, b)' <=> MessagesOf(ms, b)
<1>1. \A a, b : LinesIn(a, b)' = LinesIn(a, b)
    BY DEF LinesIn
<1>2. \A l : Calls(l)' = Calls(l)
    BY DEF Calls
<1>3. \A l : Results(l)' = Results(l)
    BY <1>2 DEF Results
<1>4. \A l : Dropped(l)' <=> Dropped(l)
    BY DEF Dropped, IsJson
<1>5. \A a, b : CallIds(a, b)' = CallIds(a, b)
    BY <1>1, <1>2 DEF CallIds
<1>6. \A a, b : ResultIds(a, b)' = ResultIds(a, b)
    BY <1>1, <1>3 DEF ResultIds
<1>7. \A s, a, b : Part(s, a, b)' <=> Part(s, a, b)
    BY <1>1, <1>4, <1>5, <1>6 DEF Part
<1>8. \A l : Ids(l)' = Ids(l)
    BY DEF Ids
<1>9. \A l : expand_vision_line(l)' = expand_vision_line(l)
    BY DEF expand_vision_line
<1>10. \A l : Message(l)' = Message(l)
    BY <1>8, <1>9 DEF Message
<1>11. \A ms, b : MessagesOf(ms, b)' <=> MessagesOf(ms, b)
    BY <1>1, <1>10 DEF MessagesOf
<1>12. IsJson' <=> IsJson
    BY DEF IsJson
<1> QED
    BY <1>7, <1>11, <1>12

(* The elements of a list. *)
LEMMA ElementsFacts ==
    ASSUME NEW body \in Body
    PROVE  /\ Elements(body) \in Body
           /\ Len(Elements(body)) = (Len(body) + 1) \div 2
           /\ \A k \in 1..Len(Elements(body)) : Elements(body)[k] = body[2 * k - 1]
<1>1. Len(body) \in Nat /\ \A k \in 1..Len(body) : body[k] \in ItemSet
    BY ListFacts
<1> DEFINE n == (Len(body) + 1) \div 2
<1>2. n \in Nat /\ \A k \in 1..n : 2 * k - 1 \in 1..Len(body)
    BY <1>1
<1>3. Elements(body) = [k \in 1..n |-> body[2 * k - 1]]
    BY DEF Elements
<1>4. Elements(body) \in [1..n -> ItemSet]
    BY <1>1, <1>2, <1>3
<1> DEFINE e == Elements(body)
<1> HIDE DEF n, e
<1>5. e \in Seq(ItemSet) /\ Len(e) = n
    <2>1. n \in Nat /\ e \in [1..n -> ItemSet]
        BY <1>2, <1>4 DEF e
    <2> QED
        BY ONLY <2>1
<1> QED
    BY <1>3, <1>5 DEF n, e, Body

LEMMA SameBody ==
    ASSUME NEW s \in Body, NEW t \in Body, Len(s) = Len(t), \A k \in 1..Len(s) : s[k] = t[k]
    PROVE  s = t
<1>1. s \in Seq(ItemSet) /\ t \in Seq(ItemSet)
    BY DEF Body
<1> QED
    BY <1>1

LEMMA JoinedOne ==
    ASSUME NEW m \in ItemSet, m # Comma
    PROVE  Joined(<<m>>) \in Body /\ Len(Joined(<<m>>)) = 1 /\ Joined(<<m>>)[1] = m
<1>1. <<m>> \in Body /\ Len(<<m>>) = 1 /\ <<m>>[1] = m /\ <<m>> # <<>> /\ \A j \in 1..1 : j = 1
    BY DEF Body
<1> DEFINE s == <<m>>
<1> HIDE DEF s
<1>2. s \in Body /\ s # <<>> /\ Len(s) = 1 /\ s[1] = m /\ \A j \in 1..Len(s) : s[j] # Comma
    BY <1>1 DEF s
<1>3. Joined(s) \in Body /\ Len(Joined(s)) = 2 * 1 - 1 /\ \A j \in 1..1 : Joined(s)[2 * j - 1] = s[j]
    BY <1>2, JoinedFacts
<1>4. Joined(s)[2 * 1 - 1] = s[1] /\ 2 * 1 - 1 = 1
    BY <1>3
<1> QED
    BY <1>2, <1>3, <1>4 DEF s

(* One more message in the list is one more element. *)
LEMMA ElementsWrite ==
    ASSUME out \in Body, CommasOK(out, wrote), NEW m \in ItemSet, m # Comma,
           out # <<>> => Len(out) = 2 * Len(Elements(out)) - 1
    PROVE  /\ Elements(Write(<<m>>)) = Append(Elements(out), m)
           /\ Len(Write(<<m>>)) = 2 * Len(Elements(Write(<<m>>))) - 1
<1> DEFINE J == Joined(<<m>>)
           e == Len(Elements(out))
           h == Write(<<m>>)
           pre == Append(out, Comma)
<1>0. J \in Body /\ Len(J) = 1 /\ J[1] = m /\ <<m>> # <<>>
    BY JoinedOne
<1>1. Elements(out) \in Body /\ e \in Nat /\ Len(out) \in Nat /\ e = (Len(out) + 1) \div 2
      /\ \A k \in 1..e : Elements(out)[k] = out[2 * k - 1]
    BY ElementsFacts, ListFacts
<1>2. wrote \in Nat /\ (wrote > 0 <=> out # <<>>)
    BY WroteFacts
<1>3. h \in Body /\ Len(h) = 2 * e + 1 /\ h[2 * e + 1] = m /\ \A k \in 1..e : h[2 * k - 1] = out[2 * k - 1]
    <2>1. CASE out = <<>>
        <3>1. ~(wrote > 0)
            BY <1>2, <2>1
        <3>2. h = out \o J
            BY <1>0, <3>1 DEF Write
        <3> HIDE DEF J, h
        <3>3. h = J
            <4>1. J \in Seq(ItemSet)
                BY <1>0 DEF Body
            <4> QED
                BY <2>1, <3>2, <4>1
        <3>4. Len(out) = 0
            BY <2>1
        <3>5. e = 0 /\ 1..0 = {}
            BY <1>1, <3>4
        <3> HIDE DEF e
        <3> QED
            BY <1>0, <3>3, <3>5
    <2>2. CASE out # <<>>
        <3>1. wrote > 0
            BY <1>2, <2>2
        <3>2. h = pre \o J
            BY <1>0, <3>1 DEF Write
        <3>3. pre \in Body /\ <<Comma>> \in Body /\ Cat(pre, out, <<Comma>>)
            BY CommaFacts, AppendCat
        <3>4. Len(pre) = Len(out) + 1 /\ \A k \in 1..Len(out) : pre[k] = out[k]
            BY <3>3 DEF Cat
        <3> HIDE DEF J, h, pre, e
        <3>5. h \in Body /\ Cat(h, pre, J)
            BY <1>0, <3>2, <3>3, ConcatCat
        <3>6. Len(out) = 2 * e - 1
            BY <2>2 DEF e
        <3>7. Len(h) = Len(pre) + 1 /\ h[Len(pre) + 1] = m /\ \A k \in 1..Len(pre) : h[k] = pre[k]
            <4>1. 1 \in 1..Len(J)
                BY <1>0
            <4> QED
                BY <1>0, <3>5, <4>1 DEF Cat
        <3>8. Len(pre) + 1 = 2 * e + 1 /\ Len(pre) = 2 * e
            BY <1>1, <3>4, <3>6
        <3>9. \A k \in 1..e : 2 * k - 1 \in 1..Len(out) /\ 2 * k - 1 \in 1..Len(pre)
            BY <1>1, <3>6, <3>8
        <3> QED
            BY <3>4, <3>5, <3>7, <3>8, <3>9
    <2> QED
        BY <2>1, <2>2
<1> HIDE DEF h, J
<1>4. /\ Elements(h) \in Body /\ Len(Elements(h)) = e + 1
      /\ \A k \in 1..(e + 1) : Elements(h)[k] = h[2 * k - 1]
    <2>1. Elements(h) \in Body /\ Len(Elements(h)) = (Len(h) + 1) \div 2
          /\ \A k \in 1..Len(Elements(h)) : Elements(h)[k] = h[2 * k - 1]
        BY <1>3, ElementsFacts
    <2> HIDE DEF e
    <2>2. (2 * e + 1 + 1) \div 2 = e + 1
        BY <1>1
    <2>3. Len(Elements(h)) = e + 1
        BY <1>3, <2>1, <2>2
    <2> QED
        BY <2>1, <2>3
<1>5. /\ Append(Elements(out), m) \in Body /\ Len(Append(Elements(out), m)) = e + 1
      /\ \A k \in 1..e : Append(Elements(out), m)[k] = Elements(out)[k]
      /\ Append(Elements(out), m)[e + 1] = m
    <2>1. Elements(out) \in Seq(ItemSet)
        BY <1>1 DEF Body
    <2>2. Append(Elements(out), m) \in Seq(ItemSet)
        BY <2>1
    <2> QED
        BY <2>1, <2>2 DEF Body
<1> DEFINE f == Elements(h)
           g == Append(Elements(out), m)
<1>6. \A k \in 1..Len(f) : f[k] = g[k]
    <2> SUFFICES ASSUME NEW k \in 1..Len(f) PROVE f[k] = g[k]
        OBVIOUS
    <2> HIDE DEF e
    <2>1. CASE k = e + 1
        <3>1. 2 * k - 1 = 2 * e + 1
            BY <1>1, <2>1
        <3> QED
            BY <1>3, <1>4, <1>5, <2>1, <3>1
    <2>2. CASE k # e + 1
        <3>1. k \in 1..e /\ k \in 1..(e + 1)
            BY <1>1, <1>4, <2>2
        <3> QED
            BY <1>1, <1>3, <1>4, <1>5, <3>1
    <2> QED
        BY <2>1, <2>2
<1> HIDE DEF e, f, g
<1>7. f = g
    <2>1. f \in Body /\ g \in Body /\ Len(f) = Len(g)
        BY <1>4, <1>5 DEF f, g
    <2> QED
        BY <1>6, <2>1, SameBody
<1>8. Len(h) = 2 * (e + 1) - 1
    BY <1>1, <1>3
<1> QED
    BY <1>4, <1>7, <1>8 DEF f, g, h

(* A line that is not empty adds its message, an empty one adds nothing. *)
LEMMA MessagesNext ==
    ASSUME lines \in Conversation, NEW l \in 1..Len(lines), NEW ms \in Body, MessagesOf(ms, l - 1)
    PROVE  /\ lines[l] = "blank" => MessagesOf(ms, l)
           /\ lines[l] # "blank" => MessagesOf(Append(ms, Message(l)), l)
<1>0. l \in Nat /\ Len(ms) \in Nat /\ Len(lines) \in Nat
    BY LineFacts, ListFacts
<1>1. LinesIn(0, l) = LinesIn(0, l - 1) \cup {l} /\ \A j \in LinesIn(0, l - 1) : j < l /\ j \in Nat
    BY <1>0 DEF LinesIn
<1>2. ASSUME lines[l] = "blank" PROVE MessagesOf(ms, l)
    BY <1>1, <1>2 DEF MessagesOf
<1>3. ASSUME lines[l] # "blank" PROVE MessagesOf(Append(ms, Message(l)), l)
    <2> DEFINE t == Append(ms, Message(l))
               n == Len(ms)
    <2>1. /\ Len(t) = n + 1 /\ t[n + 1] = Message(l) /\ \A k \in 1..n : t[k] = ms[k]
        <3>1. ms \in Seq(ItemSet)
            BY DEF Body
        <3> QED
            BY <3>1
    <2> HIDE DEF t
    <2>2. Message(l).line = l
        BY MessageFacts
    <2>3. \A k \in 1..Len(t) : k \in 1..n \/ k = n + 1
        BY <1>0, <2>1
    <2>4. \A k \in 1..n : k \in 1..Len(t)
        BY <1>0, <2>1
    <2>5. \A k \in 1..Len(t) : t[k].line \in LinesIn(0, l) /\ lines[t[k].line] # "blank" /\ t[k] = Message(t[k].line)
        BY <1>1, <1>3, <2>1, <2>2, <2>3 DEF MessagesOf
    <2>6. ASSUME NEW k \in 1..Len(t), NEW m \in 1..Len(t), k < m PROVE t[k].line < t[m].line
        <3>1. k \in 1..n
            BY <1>0, <2>1, <2>6
        <3>2. CASE m = n + 1
            <4>1. t[k] = ms[k] /\ ms[k].line < l /\ t[m].line = l
                BY <1>1, <2>1, <2>2, <3>1, <3>2 DEF MessagesOf
            <4> QED
                BY <4>1
        <3>3. CASE m \in 1..n
            BY <2>1, <2>6, <3>1, <3>3 DEF MessagesOf
        <3> QED
            BY <2>3, <3>2, <3>3
    <2>7. ASSUME NEW j \in LinesIn(0, l), lines[j] # "blank" PROVE \E k \in 1..Len(t) : t[k].line = j
        <3>1. CASE j = l
            <4>1. n + 1 \in 1..Len(t)
                BY <1>0, <2>1
            <4> QED
                BY <2>1, <2>2, <3>1, <4>1
        <3>2. CASE j \in LinesIn(0, l - 1)
            <4>1. PICK k \in 1..n : ms[k].line = j
                BY <2>7, <3>2 DEF MessagesOf
            <4> QED
                BY <2>1, <2>4, <4>1
        <3> QED
            BY <1>1, <3>1, <3>2
    <2>8. MessagesOf(t, l)
        BY <2>5, <2>6, <2>7 DEF MessagesOf
    <2> QED
        BY <2>8 DEF t
<1> QED
    BY <1>2, <1>3

------------------------------------------------------------------------------
(* The invariant, step by step. *)

LEMMA InitInv == Init => IInv
<1> SUFFICES ASSUME Init PROVE IInv
    OBVIOUS
<1> USE DEF Init
<1>1. <<>> \in Body /\ Len(<<>>) = 0
    BY DEF Body
<1>2. Types
    BY <1>1 DEF Types
<1>3. CommasOK(<<>>, 0)
    <2>1. ItemsAt(<<>>) = {}
        BY DEF ItemsAt
    <2>2. Cardinality({}) = 0
        BY FS_EmptySet
    <2> QED
        BY <2>1, <2>2 DEF CommasOK, Written
<1>4. Part(<<>>, 0, 0)
    <2>1. LinesIn(0, 0) = {}
        BY NoIds
    <2>2. \A l \in LinesIn(0, 0) : Dropped(l) /\ Calls(l) = {} /\ Results(l) = {}
        BY <2>1
    <2> QED
        BY <2>2, PartEmpty
<1>5. MessagesOf(Elements(<<>>), 0)
    <2>1. Len(Elements(<<>>)) = (0 + 1) \div 2
        BY <1>1, ElementsFacts
    <2>2. 1..Len(Elements(<<>>)) = {}
        BY <2>1
    <2>3. LinesIn(0, 0) = {}
        BY NoIds
    <2> QED
        BY <2>2, <2>3 DEF MessagesOf
<1>6. BuildInv
    <2>1. i - 1 = 0 /\ i <= Len(lines) + 1
        BY LineFacts
    <2> QED
        BY <1>4, <1>5, <2>1 DEF BuildInv
<1> QED
    BY <1>2, <1>3, <1>6 DEF IInv, ConvertInv

LEMMA AddLineInv == IInv /\ AddLine => IInv'
<1> SUFFICES ASSUME IInv, AddLine PROVE IInv'
    OBVIOUS
<1> USE DEF AddLine
<1>0. /\ Types /\ CommasOK(out, wrote) /\ Part(out, 0, i - 1) /\ MessagesOf(Elements(out), i - 1)
      /\ out # <<>> => Len(out) = 2 * Len(Elements(out)) - 1
    BY DEF IInv, BuildInv
<1>1. /\ lines \in Conversation /\ out \in Body /\ messages \in Body /\ i \in Nat /\ i > 0
      /\ i \in 1..Len(lines) /\ Elements(out) \in Body /\ Len(lines) \in Nat
    <2>1. lines \in Conversation /\ out \in Body /\ messages \in Body /\ i \in Nat /\ i > 0
        BY <1>0 DEF Types
    <2> QED
        BY <2>1, LineFacts, ElementsFacts
<1>2. /\ \A s, a, b : Part(s, a, b)' <=> Part(s, a, b)
      /\ IsJson' <=> IsJson
      /\ \A ms, b : MessagesOf(ms, b)' <=> MessagesOf(ms, b)
    BY Stable
<1>3. i' = i + 1 /\ i' - 1 = i /\ i' \in Nat /\ i' > 0 /\ i' <= Len(lines') + 1
    BY <1>1
<1>4. CASE lines[i] = "blank"
    <2>1. UNCHANGED <<pc, out, wrote, lines, messages>>
        BY <1>4
    <2>2. Part(out, 0, i)
        <3>1. LinesIn(i - 1, i) = {i}
            BY <1>1 DEF LinesIn
        <3>2. \A l \in LinesIn(i - 1, i) : Dropped(l) /\ Calls(l) = {} /\ Results(l) = {}
            BY <1>1, <1>4, <3>1, BlankLine
        <3>3. 0 \in Int /\ i - 1 \in Int /\ i \in Int /\ 0 <= i - 1 /\ i - 1 <= i
            BY <1>1
        <3> QED
            BY <1>0, <1>1, <3>2, <3>3, PartSkip
    <2>3. MessagesOf(Elements(out), i)
        BY <1>0, <1>1, <1>4, MessagesNext
    <2>4. Types'
        BY <1>0, <1>3, <2>1 DEF Types
    <2>5. BuildInv'
        BY <1>0, <1>2, <1>3, <2>1, <2>2, <2>3 DEF BuildInv
    <2>6. CommasOK(out, wrote)'
        BY <1>0, <2>1
    <2> QED
        BY <2>1, <2>4, <2>5, <2>6 DEF IInv, ConvertInv
<1>5. CASE lines[i] # "blank" /\ lines[i] = "unreadable" /\ vision
    <2>1. pc' = "failed" /\ UNCHANGED <<out, wrote, lines, messages>>
        BY <1>5
    <2>2. Types'
        BY <1>0, <1>3, <2>1 DEF Types
    <2>3. CommasOK(out, wrote)'
        BY <1>0, <2>1
    <2> QED
        BY <2>1, <2>2, <2>3 DEF IInv, BuildInv, ConvertInv
<1>6. CASE lines[i] # "blank" /\ ~(lines[i] = "unreadable" /\ vision)
    <2> DEFINE m == Message(i)
               w == Write(<<m>>)
    <2>1. out' = w /\ wrote' = wrote + 1 /\ pc' = "build" /\ UNCHANGED <<lines, messages>>
        BY <1>6
    <2>2. <<m>> \in Body /\ Part(<<m>>, i - 1, i) /\ m \in ItemSet /\ m # Comma
        BY <1>1, PartMessage, MessageFacts
    <2>3. Len(<<m>>) = 1 /\ \A j \in 1..Len(<<m>>) : <<m>>[j] = m
        OBVIOUS
    <2>4. \A j \in 1..Len(<<m>>) : <<m>>[j] # Comma
        BY <2>2, <2>3
    <2> DEFINE s == <<m>>
    <2>5. Write(s) \in Body /\ CommasOK(Write(s), wrote + Len(s))
        <3>1. s \in Body /\ \A j \in 1..Len(s) : s[j] # Comma
            BY <2>2, <2>4
        <3> HIDE DEF s
        <3> QED
            BY <1>0, <1>1, <3>1, WriteFacts
    <2>6. Part(Write(s), 0, i)
        <3>1. s \in Body /\ (\A j \in 1..Len(s) : s[j] # Comma) /\ Part(s, i - 1, i)
            BY <2>2, <2>4
        <3>2. 0 \in Int /\ i - 1 \in Int /\ i \in Int /\ 0 <= i - 1 /\ i - 1 <= i
            BY <1>1
        <3> HIDE DEF s
        <3> QED
            BY <1>0, <1>1, <3>1, <3>2, WritePart
    <2>7. Elements(w) = Append(Elements(out), m) /\ Len(w) = 2 * Len(Elements(w)) - 1
        BY <1>0, <1>1, <2>2, ElementsWrite
    <2>8. MessagesOf(Elements(w), i)
        BY <1>0, <1>1, <1>6, <2>7, MessagesNext
    <2>9. w \in Body /\ CommasOK(w, wrote + 1) /\ Part(w, 0, i)
        BY <2>3, <2>5, <2>6
    <2> HIDE DEF w, m, s
    <2>10. Types'
        BY <1>0, <1>3, <2>1, <2>9 DEF Types
    <2>11. BuildInv'
        BY <1>2, <1>3, <2>1, <2>7, <2>8, <2>9 DEF BuildInv
    <2>12. CommasOK(out, wrote)'
        BY <2>1, <2>9
    <2> QED
        BY <2>1, <2>10, <2>11, <2>12 DEF IInv, ConvertInv
<1> QED
    BY <1>4, <1>5, <1>6

(* A list of the whole conversation is also one with line 0. *)
LEMMA PartWhole ==
    ASSUME lines \in Conversation, NEW s \in Body, NEW b \in Int, 0 <= b, Part(s, 0, b)
    PROVE  Part(s, -1, b)
<1>1. LinesIn(-1, b) = LinesIn(0, b)
    BY LineFacts DEF LinesIn
<1>2. CallIds(-1, b) = CallIds(0, b) /\ ResultIds(-1, b) = ResultIds(0, b)
    BY <1>1 DEF CallIds, ResultIds
<1>3. \A k \in 1..Len(s) : s[k].line \in Nat
    BY ListFacts DEF ItemSet
<1>4. \A k \in 1..Len(s) : s[k] # Comma => -1 < s[k].line /\ s[k].line <= b
    BY <1>3 DEF Part
<1> QED
    BY <1>1, <1>2, <1>4 DEF Part

LEMMA BuiltInv == IInv /\ Built => IInv'
<1> SUFFICES ASSUME IInv, Built PROVE IInv'
    OBVIOUS
<1> USE DEF Built
<1>0. /\ Types /\ CommasOK(out, wrote) /\ Part(out, 0, i - 1) /\ MessagesOf(Elements(out), i - 1)
      /\ i <= Len(lines) + 1
    BY DEF IInv, BuildInv
<1>1. /\ lines \in Conversation /\ out \in Body /\ i \in Nat /\ i > 0
      /\ i - 1 = Len(lines) /\ Elements(out) \in Body /\ Len(lines) \in Nat
    <2>1. lines \in Conversation /\ out \in Body /\ i \in Nat /\ i > 0
        BY <1>0 DEF Types
    <2>2. Len(lines) \in Nat
        BY <2>1, LineFacts
    <2> QED
        BY <1>0, <2>1, <2>2, ElementsFacts
<1>2. /\ \A s, a, b : Part(s, a, b)' <=> Part(s, a, b)
      /\ IsJson' <=> IsJson
      /\ \A ms, b : MessagesOf(ms, b)' <=> MessagesOf(ms, b)
    BY Stable
<1>3. CASE provider = "claude" \/ ~IsJson
    <2>1. pc' = "done" /\ UNCHANGED <<i, out, wrote, lines>> /\ messages' = Elements(out)
        BY <1>3
    <2>2. Part(out, -1, Len(lines))
        BY <1>0, <1>1, PartWhole
    <2>3. Types'
        BY <1>0, <1>1, <2>1 DEF Types
    <2>4. CommasOK(out, wrote)'
        BY <1>0, <2>1
    <2>5. (pc = "done" => Part(out, -1, Len(lines)))'
        BY <1>2, <2>1, <2>2
    <2> QED
        BY <2>1, <2>3, <2>4, <2>5 DEF IInv, BuildInv, ConvertInv
<1>4. CASE ~(provider = "claude" \/ ~IsJson)
    <2> DEFINE ms == Elements(out)
               first == IF 1 > Len(ms) THEN Len(lines) ELSE ms[1].line - 1
    <2>1. pc' = "convert" /\ i' = 1 /\ out' = <<>> /\ wrote' = 0 /\ messages' = ms /\ lines' = lines
        BY <1>4
    <2>2. ms \in Body /\ MessagesOf(ms, Len(lines))
        BY <1>0, <1>1
    <2> HIDE DEF ms
    <2>3. <<>> \in Body /\ Part(<<>>, 0, first)
        BY <1>1, <2>2, ReachedFirst
    <2>4. Reached(i)' = first
        BY <2>1 DEF Reached
    <2>5. CommasOK(<<>>, 0)
        <3>1. ItemsAt(<<>>) = {}
            BY DEF ItemsAt
        <3>2. Cardinality({}) = 0
            BY FS_EmptySet
        <3> QED
            BY <3>1, <3>2 DEF CommasOK, Written
    <2>6. Types'
        BY <1>0, <2>1, <2>2, <2>3 DEF Types
    <2>7. (i <= Len(messages) + 1)'
        <3>1. Len(ms) \in Nat
            BY <2>2, ListFacts
        <3> QED
            BY <2>1, <3>1
    <2> HIDE DEF first
    <2>8. ConvertInv'
        BY <1>2, <1>4, <2>1, <2>2, <2>3, <2>4, <2>7 DEF ConvertInv
    <2>9. CommasOK(out, wrote)'
        BY <2>1, <2>5
    <2> QED
        BY <2>1, <2>6, <2>8, <2>9 DEF IInv, BuildInv
<1> QED
    BY <1>3, <1>4

(* A message has been converted: the next one starts where it ends, or *)
(* after the empty lines that follow it.                               *)
LEMMA ConvertNext ==
    ASSUME IInv, pc = "convert", i \in 1..Len(messages), pc' = "convert", i' = i + 1,
           UNCHANGED <<provider, vision, lines, messages>>,
           NEW s \in Body, NEW w, out' = s, wrote' = w,
           CommasOK(s, w), Part(s, 0, messages[i].line)
    PROVE  IInv'
<1>0. /\ Types /\ MessagesOf(messages, Len(lines)) /\ lines \in Conversation /\ messages \in Body /\ i \in Nat
      /\ Len(messages) \in Nat /\ IsJson
    <2>1. Types /\ MessagesOf(messages, Len(lines)) /\ IsJson
        BY DEF IInv, ConvertInv
    <2> QED
        BY <2>1, ListFacts DEF Types
<1>1. /\ \A p, a, b : Part(p, a, b)' <=> Part(p, a, b)
      /\ IsJson' <=> IsJson
      /\ \A ms, b : MessagesOf(ms, b)' <=> MessagesOf(ms, b)
    BY Stable
<1>2. /\ messages[i].line \in 1..Len(lines)
      /\ Reached(i + 1) \in Int /\ messages[i].line <= Reached(i + 1)
      /\ \A l \in LinesIn(messages[i].line, Reached(i + 1)) :
            Dropped(l) /\ Calls(l) = {} /\ Results(l) = {}
    BY <1>0, ReachedFacts
<1>3. 0 \in Int /\ messages[i].line \in Int /\ 0 <= messages[i].line
    BY <1>2
<1>4. Part(s, 0, Reached(i + 1))
    BY <1>0, <1>2, <1>3, PartSkip
<1>5. Reached(i)' = Reached(i + 1)
    BY DEF Reached
<1>6. Types'
    BY <1>0 DEF Types
<1>7. (i <= Len(messages) + 1)'
    BY <1>0
<1>8. ConvertInv'
    BY <1>0, <1>1, <1>4, <1>5, <1>7 DEF ConvertInv
<1>9. CommasOK(out, wrote)'
    OBVIOUS
<1> QED
    BY <1>6, <1>8, <1>9 DEF IInv, BuildInv

(* The message to be converted, and where the list ends before it. *)
LEMMA ConvertNow ==
    ASSUME IInv, pc = "convert", i <= Len(messages), NEW l, l = messages[i].line
    PROVE  /\ lines \in Conversation /\ messages \in Body /\ out \in Body /\ CommasOK(out, wrote)
           /\ i \in 1..Len(messages) /\ l \in 1..Len(lines) /\ l \in Nat /\ messages[i] = Message(l)
           /\ l - 1 \in Int /\ 0 <= l - 1 /\ l - 1 <= l /\ Part(out, 0, l - 1) /\ IsJson
<1>1. /\ IsJson /\ lines \in Conversation /\ messages \in Body /\ out \in Body /\ i \in Nat /\ i > 0
      /\ MessagesOf(messages, Len(lines)) /\ Part(out, 0, Reached(i)) /\ CommasOK(out, wrote)
    BY DEF IInv, Types, ConvertInv
<1>2. i \in 1..Len(messages)
    BY <1>1, ListFacts
<1>3. messages[i].line \in 1..Len(lines) /\ messages[i] = Message(messages[i].line)
      /\ Reached(i) = messages[i].line - 1
    BY <1>1, <1>2, ReachedFacts
<1>4. l \in Nat /\ l > 0
    BY <1>3
<1> QED
    BY <1>1, <1>2, <1>3, <1>4

(* Items of one line, written after the ones before it. *)
LEMMA WriteLine ==
    ASSUME IInv, pc = "convert", i <= Len(messages), NEW l, l = messages[i].line, NEW items \in Body,
           \A k \in 1..Len(items) : items[k] # Comma, Part(items, l - 1, l)
    PROVE  /\ Write(items) \in Body /\ CommasOK(Write(items), wrote + Len(items))
           /\ Part(Write(items), 0, l)
<1>1. /\ lines \in Conversation /\ out \in Body /\ CommasOK(out, wrote) /\ 0 \in Int /\ l \in Int
      /\ l - 1 \in Int /\ 0 <= l - 1 /\ l - 1 <= l /\ Part(out, 0, l - 1)
    BY ConvertNow
<1>2. Write(items) \in Body /\ CommasOK(Write(items), wrote + Len(items))
    BY <1>1, WriteFacts
<1>3. Part(Write(items), 0, l)
    BY <1>1, WritePart
<1> QED
    BY <1>2, <1>3

(* The messages of results, without a comma in front of them. *)
LEMMA ToolsLine ==
    ASSUME IInv, pc = "convert", i <= Len(messages), messages[i].type = "results",
           NEW tools, tools = openai_convert_tool_results(messages[i]),
           NEW h, h = out \o Joined(tools)
    PROVE  h \in Body /\ CommasOK(h, wrote + Len(tools)) /\ Part(h, 0, messages[i].line)
<1> DEFINE l == messages[i].line
           J == Joined(tools)
<1>1. /\ lines \in Conversation /\ out \in Body /\ CommasOK(out, wrote) /\ messages[i] = Message(l)
      /\ l \in 1..Len(lines) /\ 0 \in Int /\ l \in Int
      /\ l - 1 \in Int /\ 0 <= l - 1 /\ l - 1 <= l /\ Part(out, 0, l - 1)
    BY ConvertNow
<1>2. lines[l] = "results" /\ Message(l).line = l
    BY <1>1, MessageFacts
<1> HIDE DEF l
<1>3. tools = [k \in DOMAIN Message(l).results |-> Item("tool", l, <<>>, <<Message(l).results[k]>>)]
    BY <1>1, <1>2 DEF openai_convert_tool_results
<1>4. /\ tools \in Body /\ Part(tools, l - 1, l) /\ tools # <<>>
      /\ \A k \in 1..Len(tools) : tools[k] # Comma /\ tools[k].type = "tool"
    <2>1. "tool" \in Type /\ "tool" # "comma"
        BY DEF Type
    <2> QED
        BY <1>1, <1>2, <1>3, <2>1, PartResults
<1>5. J \in Body /\ Part(J, l - 1, l)
    BY <1>1, <1>4, PartJoined
<1>6. CommasOK(J, Len(tools)) /\ J # <<>> /\ J[1] = tools[1]
    BY <1>4, JoinedCommas
<1>7. J[1].type = "tool" /\ Len(tools) \in Nat
    <2>1. 1 \in 1..Len(tools)
        <3>1. tools \in Seq(ItemSet)
            BY <1>4 DEF Body
        <3> QED
            BY <1>4, <3>1
    <2> QED
        BY <1>4, <1>6, <2>1, ListFacts
<1> HIDE DEF J
<1>8. h \in Body /\ Cat(h, out, J)
    BY <1>1, <1>5, ConcatCat DEF J
<1>9. Part(h, 0, l)
    BY <1>1, <1>5, <1>8, PartCat
<1>10. CommasOK(h, wrote + Len(tools))
    <2>0. wrote \in Nat /\ (wrote > 0 <=> out # <<>>) /\ wrote = Written(out)
        BY <1>1, WroteFacts DEF CommasOK
    <2>1. CASE out = <<>>
        <3>1. h = J
            <4>1. J \in Seq(ItemSet)
                BY <1>5 DEF Body
            <4> QED
                BY <2>1, <4>1 DEF J
        <3>2. wrote + Len(tools) = Len(tools)
            <4>1. wrote = 0
                BY <2>0, <2>1
            <4> QED
                BY <1>7, <4>1
        <3> QED
            BY <1>6, <3>1, <3>2
    <2>2. CASE out # <<>>
        <3>1. /\ out[1] # Comma /\ out[Len(out)] # Comma
              /\ \A k \in 1..(Len(out) - 1) : (out[k] = Comma) = (out[k + 1] # Comma) \/ out[k + 1].type = "tool"
            BY <1>1, <2>2 DEF CommasOK
        <3> QED
            BY <1>1, <1>5, <1>6, <1>7, <1>8, <2>0, <2>2, <3>1, CommasCat
    <2> QED
        BY <2>1, <2>2
<1> QED
    BY <1>8, <1>9, <1>10 DEF l

LEMMA OpenaiMessageInv == IInv /\ openai_convert_messages => IInv'
<1> SUFFICES ASSUME IInv, openai_convert_messages PROVE IInv'
    OBVIOUS
<1> USE DEF openai_convert_messages
<1> DEFINE l == messages[i].line
           tools == openai_convert_tool_results(messages[i])
           h == out \o Joined(tools)
           w == Write(<<messages[i]>>)
<1>1. /\ lines \in Conversation /\ messages[i] = Message(l) /\ l \in 1..Len(lines) /\ i \in 1..Len(messages)
    BY ConvertNow
<1>2. /\ pc = "convert" /\ i <= Len(messages) /\ pc' = "convert" /\ i' = i + 1
      /\ UNCHANGED <<provider, vision, lines, messages>>
    OBVIOUS
<1>3. CASE messages[i].type = "results"
    <2>1. out' = h /\ wrote' = wrote + Len(tools)
        BY <1>3
    <2>2. h \in Body /\ CommasOK(h, wrote + Len(tools)) /\ Part(h, 0, messages[i].line)
        BY <1>2, <1>3, ToolsLine
    <2> HIDE DEF h, tools
    <2> QED
        BY <1>1, <1>2, <2>1, <2>2, ConvertNext
<1>4. CASE messages[i].type # "results"
    <2> DEFINE m == messages[i]
               s == <<m>>
    <2>1. out' = w /\ wrote' = wrote + 1
        BY <1>4
    <2>2. <<Message(l)>> \in Body /\ Part(<<Message(l)>>, l - 1, l) /\ Message(l) # Comma
        BY <1>1, PartMessage, MessageFacts
    <2>3. s \in Body /\ Part(s, l - 1, l) /\ m # Comma
        BY <1>1, <2>2
    <2> HIDE DEF m
    <2>4. Len(s) = 1 /\ \A k \in 1..Len(s) : s[k] # Comma
        BY <2>3
    <2> HIDE DEF s
    <2>5. Write(s) \in Body /\ CommasOK(Write(s), wrote + Len(s)) /\ Part(Write(s), 0, messages[i].line)
        BY <1>2, <2>3, <2>4, WriteLine
    <2>6. w = Write(s)
        BY DEF s, m
    <2>7. w \in Body /\ CommasOK(w, wrote + 1) /\ Part(w, 0, messages[i].line)
        BY <2>4, <2>5, <2>6
    <2> HIDE DEF w, l
    <2> QED
        BY <1>1, <1>2, <2>1, <2>7, ConvertNext
<1> QED
    BY <1>3, <1>4

LEMMA ResponsesMessageInv == IInv /\ responses_convert_messages => IInv'
<1> SUFFICES ASSUME IInv, responses_convert_messages PROVE IInv'
    OBVIOUS
<1> USE DEF responses_convert_messages
<1> DEFINE l == messages[i].line
           items == ResponsesItems(messages[i])
<1>1. /\ lines \in Conversation /\ messages[i] = Message(l) /\ l \in 1..Len(lines) /\ i \in 1..Len(messages)
      /\ IsJson
    BY ConvertNow
<1>2. /\ pc = "convert" /\ i <= Len(messages) /\ pc' = "convert" /\ i' = i + 1
      /\ UNCHANGED <<provider, vision, lines, messages>> /\ out' = Write(items) /\ wrote' = wrote + Len(items)
    OBVIOUS
<1>3. /\ ResponsesItems(Message(l)) \in Body /\ Part(ResponsesItems(Message(l)), l - 1, l)
      /\ \A k \in 1..Len(ResponsesItems(Message(l))) : ResponsesItems(Message(l))[k] # Comma
    BY <1>1, PartResponses
<1>4. items \in Body /\ Part(items, l - 1, l) /\ \A k \in 1..Len(items) : items[k] # Comma
    BY <1>1, <1>3
<1> HIDE DEF items
<1>5. Write(items) \in Body /\ CommasOK(Write(items), wrote + Len(items)) /\ Part(Write(items), 0, messages[i].line)
    BY <1>2, <1>4, WriteLine
<1> HIDE DEF l
<1> QED
    BY <1>1, <1>2, <1>5, ConvertNext

(* All messages are converted: the list stands for the whole conversation. *)
LEMMA ConvertEnd ==
    ASSUME IInv, pc = "convert", i > Len(messages)
    PROVE  /\ lines \in Conversation /\ out \in Body /\ CommasOK(out, wrote) /\ Len(lines) \in Nat
           /\ Part(out, 0, Len(lines))
<1>1. lines \in Conversation /\ out \in Body /\ CommasOK(out, wrote) /\ Part(out, 0, Reached(i))
    BY DEF IInv, Types, ConvertInv
<1>2. Reached(i) = Len(lines)
    BY DEF Reached
<1> QED
    BY <1>1, <1>2, LineFacts

(* The body is finished. *)
LEMMA Finished ==
    ASSUME IInv, pc' = "done", UNCHANGED <<provider, vision, lines, i, messages>>,
           out' \in Body, CommasOK(out', wrote'), Part(out', -1, Len(lines))
    PROVE  IInv'
<1>1. \A s, a, b : Part(s, a, b)' <=> Part(s, a, b)
    BY Stable
<1>2. (pc = "done" => Part(out, -1, Len(lines)))'
    BY <1>1
<1>3. Types'
    BY DEF IInv, Types
<1>4. CommasOK(out, wrote)'
    OBVIOUS
<1> QED
    BY <1>2, <1>3, <1>4 DEF IInv, BuildInv, ConvertInv

LEMMA ResponsesEndInv == IInv /\ convert_to_responses => IInv'
<1> SUFFICES ASSUME IInv, convert_to_responses PROVE IInv'
    OBVIOUS
<1> USE DEF convert_to_responses
<1>1. /\ pc' = "done" /\ UNCHANGED <<provider, vision, lines, i, messages, out, wrote>>
      /\ lines \in Conversation /\ out \in Body /\ Part(out, 0, Len(lines)) /\ CommasOK(out, wrote)
      /\ Len(lines) \in Nat
    BY ConvertEnd
<1>2. Part(out, -1, Len(lines))
    BY <1>1, PartWhole
<1> QED
    BY <1>1, <1>2, Finished

LEMMA OpenaiEndInv == IInv /\ convert_to_openai => IInv'
<1> SUFFICES ASSUME IInv, convert_to_openai PROVE IInv'
    OBVIOUS
<1> USE DEF convert_to_openai
<1> DEFINE sys == Item("system", 0, <<>>, <<>>)
           one == <<sys>>
           pre == Append(one, Comma)
           b == Len(lines)
<1>1. /\ pc' = "done" /\ UNCHANGED <<provider, vision, lines, i, messages>> /\ wrote' = wrote + 1
      /\ out' = (IF out = <<>> THEN one ELSE pre \o out)
      /\ lines \in Conversation /\ out \in Body /\ Part(out, 0, b) /\ CommasOK(out, wrote)
      /\ b \in Nat
    BY ConvertEnd
<1>2. sys \in ItemSet /\ sys # Comma /\ sys.line = 0 /\ sys.calls = <<>> /\ sys.results = <<>>
    <2>1. "system" \in Type /\ "system" # "comma" /\ 0 \in Nat
        BY DEF Type
    <2> QED
        BY <2>1, IdSeqFacts, ItemFacts
<1> HIDE DEF sys
<1>3. one \in Body /\ Len(one) = 1 /\ one[1] = sys /\ one # <<>> /\ \A k \in 1..Len(one) : one[k] = sys
    BY <1>2 DEF Body
<1> HIDE DEF one
<1>4. Part(one, -1, 0)
    <2>1. LinesIn(-1, 0) = {} /\ CallIds(-1, 0) = {} /\ ResultIds(-1, 0) = {}
        <3>1. LinesIn(-1, 0) = {}
            BY <1>1, LineFacts DEF LinesIn
        <3> QED
            BY <3>1 DEF CallIds, ResultIds
    <2>2. /\ Len(CallList(one)) = 1 /\ Len(ResultList(one)) = 1
          /\ \A k \in 1..1 : CallList(one)[k] = <<>> /\ ResultList(one)[k] = <<>>
        BY <1>2, <1>3, ListFacts
    <2>3. Once(CallList(one), {}) /\ Once(ResultList(one), {})
        BY <2>2, OnceNone
    <2>4. \A k \in 1..Len(one) : -1 < one[k].line /\ one[k].line <= 0
        BY <1>2, <1>3
    <2>5. \A k, m \in 1..Len(one) : one[k].line <= one[m].line
        BY <1>2, <1>3
    <2> QED
        BY <2>1, <2>3, <2>4, <2>5 DEF Part
<1>5. Written(one) = 1
    <2>1. ItemsAt(one) = {1}
        BY <1>2, <1>3 DEF ItemsAt
    <2>2. Cardinality({1}) = 1
        BY FS_Singleton
    <2> QED
        BY <2>1, <2>2 DEF Written
<1>6. wrote \in Nat /\ (wrote > 0 <=> out # <<>>)
    BY <1>1, WroteFacts
<1>7. CASE out = <<>>
    <2>1. out' = one /\ wrote' = 1
        <3>1. wrote = 0
            BY <1>6, <1>7
        <3> QED
            BY <1>1, <1>7, <3>1
    <2>2. CommasOK(one, 1)
        BY <1>2, <1>3, <1>5 DEF CommasOK
    <2>3. Part(one, -1, b)
        <3>0. <<>> \in Body
            BY DEF Body
        <3>1. Cat(one, one, <<>>)
            <4>1. Len(<<>>) = 0 /\ 1..0 = {}
                OBVIOUS
            <4> QED
                BY <1>3, <4>1 DEF Cat
        <3>2. Part(<<>>, 0, b)
            BY <1>1, <1>7
        <3>3. -1 \in Int /\ 0 \in Int /\ b \in Int /\ -1 <= 0 /\ 0 <= b
            BY <1>1
        <3> HIDE DEF b
        <3> QED
            BY <1>1, <1>3, <1>4, <3>0, <3>1, <3>2, <3>3, PartCat
    <2>4. /\ out' \in Body /\ CommasOK(out', wrote') /\ Part(out', -1, b)
        BY <1>3, <2>1, <2>2, <2>3
    <2> QED
        BY <1>1, <2>4, Finished
<1>8. CASE out # <<>>
    <2> DEFINE h == pre \o out
    <2>1. out' = h
        BY <1>1, <1>8
    <2>2. pre \in Body /\ <<Comma>> \in Body /\ Cat(pre, one, <<Comma>>)
        BY <1>3, CommaFacts, AppendCat
    <2>3. Part(pre, -1, 0)
        <3>1. Part(<<Comma>>, 0, 0)
            BY <1>1, PartComma
        <3>2. -1 \in Int /\ 0 \in Int /\ -1 <= 0 /\ 0 <= 0
            OBVIOUS
        <3> HIDE DEF pre
        <3> QED
            BY <1>1, <1>3, <1>4, <2>2, <3>1, <3>2, PartCat
    <2>4. Len(pre) = 2 /\ pre[1] = sys /\ pre[2] = Comma /\ pre # <<>>
        <3>1. Len(<<Comma>>) = 1 /\ <<Comma>>[1] = Comma /\ 1 \in 1..1
            OBVIOUS
        <3>2. Len(pre) = Len(one) + 1 /\ pre[1] = one[1] /\ pre[Len(one) + 1] = Comma
            <4> HIDE DEF pre
            <4> QED
                BY <1>3, <2>2, <3>1 DEF Cat
        <3>3. Len(<<>>) = 0
            OBVIOUS
        <3> HIDE DEF pre
        <3> QED
            BY <1>3, <3>2, <3>3
    <2>5. Written(pre) = 1
        <3>1. Written(pre) = Written(one) + Written(<<Comma>>)
            BY <1>3, <2>2, CountCat
        <3>2. ItemsAt(<<Comma>>) = {}
            BY DEF ItemsAt
        <3>3. Written(<<Comma>>) = 0
            BY <3>2, FS_EmptySet DEF Written
        <3> QED
            BY <1>5, <3>1, <3>3
    <2> HIDE DEF pre
    <2>6. h \in Body /\ Cat(h, pre, out)
        BY <1>1, <2>2, ConcatCat
    <2> HIDE DEF h
    <2>7. Part(h, -1, b)
        <3>1. -1 \in Int /\ 0 \in Int /\ b \in Int /\ -1 <= 0 /\ 0 <= b
            BY <1>1
        <3> HIDE DEF b
        <3> QED
            BY <1>1, <2>2, <2>3, <2>6, <3>1, PartCat
    <2>8. CommasOK(h, 1 + wrote)
        <3>1. pre[1] # Comma /\ pre[Len(pre)] = Comma
            BY <1>2, <2>4
        <3>2. ASSUME NEW k \in 1..(Len(pre) - 1)
              PROVE  (pre[k] = Comma) = (pre[k + 1] # Comma) \/ pre[k + 1].type = "tool"
            <4>1. k = 1 /\ k + 1 = 2
                BY <2>4
            <4>2. (pre[1] = Comma) = FALSE /\ (pre[2] # Comma) = FALSE
                BY <1>2, <2>4
            <4> QED
                BY <4>1, <4>2
        <3> QED
            BY <1>1, <1>8, <2>2, <2>4, <2>5, <2>6, <3>1, <3>2, CommasCat
    <2>9. /\ out' \in Body /\ CommasOK(out', wrote') /\ Part(out', -1, b)
        <3>1. wrote' = 1 + wrote
            BY <1>1, <1>6
        <3> QED
            BY <2>1, <2>6, <2>7, <2>8, <3>1
    <2> QED
        BY <1>1, <2>9, Finished
<1> QED
    BY <1>7, <1>8

LEMMA StutterInv == IInv /\ UNCHANGED vars => IInv'
<1> SUFFICES ASSUME IInv, UNCHANGED vars PROVE IInv'
    OBVIOUS
<1> USE DEF vars
<1>1. /\ \A s, a, b : Part(s, a, b)' <=> Part(s, a, b)
      /\ IsJson' <=> IsJson
      /\ \A ms, b : MessagesOf(ms, b)' <=> MessagesOf(ms, b)
    BY Stable
<1>2. Types'
    BY DEF IInv, Types
<1>3. CommasOK(out, wrote)'
    BY DEF IInv
<1>4. (pc = "done" => Part(out, -1, Len(lines)))'
    BY <1>1 DEF IInv
<1>5. BuildInv'
    BY <1>1 DEF IInv, BuildInv
<1>6. ConvertInv'
    <2>1. Reached(i)' = Reached(i)
        BY DEF Reached
    <2> QED
        BY <1>1, <2>1 DEF IInv, ConvertInv
<1> QED
    BY <1>2, <1>3, <1>4, <1>5, <1>6 DEF IInv

LEMMA NextInv == IInv /\ [Next]_vars => IInv'
<1> SUFFICES ASSUME IInv, [Next]_vars PROVE IInv'
    OBVIOUS
<1>1. CASE AddLine
    BY <1>1, AddLineInv
<1>2. CASE Built
    BY <1>2, BuiltInv
<1>3. CASE openai_convert_messages
    BY <1>3, OpenaiMessageInv
<1>4. CASE convert_to_openai
    BY <1>4, OpenaiEndInv
<1>5. CASE responses_convert_messages
    BY <1>5, ResponsesMessageInv
<1>6. CASE convert_to_responses
    BY <1>6, ResponsesEndInv
<1>7. CASE Returned
    BY <1>7, StutterInv DEF Returned
<1>8. CASE UNCHANGED vars
    BY <1>8, StutterInv
<1> QED
    BY <1>1, <1>2, <1>3, <1>4, <1>5, <1>6, <1>7, <1>8 DEF Next

LEMMA InvHolds == Spec => []IInv
    BY InitInv, NextInv, PTL DEF Spec

------------------------------------------------------------------------------
(* The two forms of "each once and in order" say the same. *)
LEMMA OnceInOrder ==
    ASSUME NEW list \in Seq(IdSeq), NEW ids, Once(list, ids)
    PROVE  InOrderOnce(list, ids)
<1>1. DOMAIN list = 1..Len(list) /\ \A k \in 1..Len(list) : DOMAIN list[k] = 1..Len(list[k])
    <2>1. DOMAIN list = 1..Len(list) /\ \A k \in 1..Len(list) : list[k] \in IdSeq
        OBVIOUS
    <2>2. \A s \in IdSeq : DOMAIN s = 1..Len(s)
        BY DEF IdSeq
    <2> QED
        BY <2>1, <2>2
<1>2. \A k \in 1..Len(list) : \A n \in 1..Len(list[k]) : <<k, n>> \in Places(list)
    BY <1>1 DEF Places
<1>3. ASSUME NEW p \in Places(list)
      PROVE  p[1] \in 1..Len(list) /\ p[2] \in 1..Len(list[p[1]])
    BY <1>1 DEF Places
<1>4. \A p \in Places(list) : list[p[1]][p[2]] \in ids
    BY <1>3 DEF Once
<1>5. ASSUME NEW x \in ids PROVE \E p \in Places(list) : list[p[1]][p[2]] = x
    <2>1. PICK k \in 1..Len(list) : \E n \in 1..Len(list[k]) : list[k][n] = x
        BY DEF Once
    <2>2. PICK n \in 1..Len(list[k]) : list[k][n] = x
        BY <2>1
    <2>3. <<k, n>> \in Places(list) /\ <<k, n>>[1] = k /\ <<k, n>>[2] = n
        BY <1>2
    <2> QED
        BY <2>2, <2>3
<1>6. {list[p[1]][p[2]] : p \in Places(list)} = ids
    BY <1>4, <1>5
<1>7. ASSUME NEW p \in Places(list), NEW q \in Places(list), Before(p, q)
      PROVE  Before(list[p[1]][p[2]], list[q[1]][q[2]])
    <2>1. p[1] < q[1] \/ (p[1] = q[1] /\ p[2] < q[2])
        BY <1>7 DEF Before
    <2> QED
        BY <1>3, <2>1 DEF Once
<1> QED
    BY <1>6, <1>7 DEF InOrderOnce

LEMMA ListsInOrder ==
    ASSUME NEW s \in Body, NEW ids
    PROVE  /\ Once(CallList(s), ids) => InOrderOnce([k \in DOMAIN s |-> s[k].calls], ids)
           /\ Once(ResultList(s), ids) => InOrderOnce([k \in DOMAIN s |-> s[k].results], ids)
<1>1. DOMAIN s = 1..Len(s) /\ Len(s) \in Nat
    BY DEF Body
<1>2. \A k \in 1..Len(s) : s[k].calls \in IdSeq /\ s[k].results \in IdSeq
    BY ListFacts DEF ItemSet
<1>3. [k \in DOMAIN s |-> s[k].calls] = CallList(s) /\ [k \in DOMAIN s |-> s[k].results] = ResultList(s)
    BY <1>1 DEF CallList, ResultList
<1>4. CallList(s) \in Seq(IdSeq) /\ ResultList(s) \in Seq(IdSeq)
    BY <1>1, <1>2 DEF CallList, ResultList
<1> QED
    BY <1>3, <1>4, OnceInOrder

LEMMA InvComplete == IInv => BodyComplete
<1> SUFFICES ASSUME IInv, pc = "done" PROVE BodyComplete
    BY DEF BodyComplete
<1>1. /\ lines \in Conversation /\ out \in Body /\ Part(out, -1, Len(lines)) /\ Len(lines) \in Nat
    <2>1. lines \in Conversation /\ out \in Body /\ Part(out, -1, Len(lines))
        BY DEF IInv, Types
    <2> QED
        BY <2>1, LineFacts
<1>2. LinesIn(-1, Len(lines)) = 1..Len(lines)
    BY <1>1 DEF LinesIn
<1>3. /\ CallIds(-1, Len(lines)) = UNION {Calls(line) : line \in 1..Len(lines)}
      /\ ResultIds(-1, Len(lines)) = UNION {Results(line) : line \in 1..Len(lines)}
    BY <1>2 DEF CallIds, ResultIds
<1>4. /\ InOrderOnce([k \in DOMAIN out |-> out[k].calls], CallIds(-1, Len(lines)))
      /\ InOrderOnce([k \in DOMAIN out |-> out[k].results], ResultIds(-1, Len(lines)))
    BY <1>1, ListsInOrder DEF Part
<1>5. \A line \in 1..Len(lines) : Dropped(line) \/ \E k \in 1..Len(out) : out[k].line = line
    BY <1>1, <1>2 DEF Part
<1>6. \A k, m \in 1..Len(out) : k < m /\ out[k] # Comma /\ out[m] # Comma => out[k].line <= out[m].line
    BY <1>1 DEF Part
<1> QED
    BY <1>3, <1>4, <1>5, <1>6 DEF BodyComplete

LEMMA InvCommas == IInv => CommasSeparate
    BY DEF IInv, CommasOK, CommasSeparate, Written, ItemsAt

------------------------------------------------------------------------------
(* A body that is sent has every line of the conversation, in order, each of  *)
(* its calls and results exactly once, for every provider and any number of   *)
(* lines, converted or left as it was because a line is no JSON               *)
(* (build_claude_request, convert_to_openai, convert_to_responses); in the    *)
(* Responses format thoughts alone and empty images alone are no item.        *)
THEOREM NothingDropped == Spec => []BodyComplete
    BY InvHolds, InvComplete, PTL

(* The counters that decide about the commas count every item: the only place *)
(* where a comma is missing is in front of OpenAI's tool messages.            *)
THEOREM CommasInPlace == Spec => []CommasSeparate
    BY InvHolds, InvCommas, PTL
==============================================================================
