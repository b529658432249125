---------------------------- MODULE RequestsProofs ----------------------------
(***************************************************************************)
(* Proofs about Requests, for every TTL and any number of inserts and      *)
(* query handlers.  That keys keep requests apart is proved for every set  *)
(* of names that satisfies NamesApart, and used only where a theorem says  *)
(* so.                                                                     *)
(***************************************************************************)
EXTENDS Requests, SequenceTheorems, TLAPS

-----------------------------------------------------------------------------
(* When two keys are equal.                                                *)

\* What names and keys are made of.
Piece == STRING \cup {":", "conv_"}

LEMMA NamesOfPieces ==
    \A s \in Models \cup Scopes \cup Conversations : s \in Seq(Piece)
  BY RequestsAssumption, SeqMonotonic DEF Piece

Join(a, x) == (a \o Separator) \o x

Conv(c) == <<"conv_">> \o c

LEMMA SeparatorProperties ==
    /\ Separator \in Seq(Piece) /\ Len(Separator) = 2
    /\ Separator[1] = ":" /\ Separator[2] = ":"
  BY DEF Separator, Piece

LEMMA ConcatParts ==
    ASSUME NEW a \in Seq(Piece), NEW b \in Seq(Piece), NEW m \in Nat, NEW n \in Nat,
           Len(a) = m, Len(b) = n
    PROVE  /\ a \o b \in Seq(Piece) /\ Len(a \o b) = m + n
           /\ \A i \in 1..m : (a \o b)[i] = a[i]
           /\ \A i \in 1..n : (a \o b)[m + i] = b[i]
<1>1. PICK k : k = a \o b
  OBVIOUS
<1>2. /\ k \in Seq(Piece) /\ Len(k) = m + n
      /\ \A i \in 1..(m + n) : k[i] = IF i <= m THEN a[i] ELSE b[i - m]
  BY <1>1, ConcatProperties
<1>3. \A i \in 1..m : k[i] = a[i]
  BY <1>2
<1>4. ASSUME NEW i \in 1..n PROVE k[m + i] = b[i]
  <2>1. m + i \in 1..(m + n) /\ ~(m + i <= m) /\ m + i - m = i
    OBVIOUS
  <2> QED
    BY <1>2, <2>1
<1> QED
  BY <1>1, <1>2, <1>3, <1>4

\* A name and its separator.
LEMMA WithSeparator ==
    ASSUME NEW a \in Seq(Piece)
    PROVE  /\ a \o Separator \in Seq(Piece) /\ Len(a \o Separator) = Len(a) + 2
           /\ \A i \in 1..Len(a) : (a \o Separator)[i] = a[i]
           /\ (a \o Separator)[Len(a) + 1] = ":"
           /\ (a \o Separator)[Len(a) + 2] = ":"
<1>1. PICK sep : sep = Separator
  OBVIOUS
<1>2. PICK m \in Nat : m = Len(a)
  BY LenProperties
<1>3. sep \in Seq(Piece) /\ Len(sep) = 2 /\ sep[1] = ":" /\ sep[2] = ":"
  BY <1>1, SeparatorProperties
<1>4. /\ a \o sep \in Seq(Piece) /\ Len(a \o sep) = m + 2
      /\ \A i \in 1..m : (a \o sep)[i] = a[i]
      /\ \A i \in 1..2 : (a \o sep)[m + i] = sep[i]
  <2>1. PICK n \in Nat : n = Len(sep)
    BY <1>3
  <2>2. /\ a \o sep \in Seq(Piece) /\ Len(a \o sep) = m + n
        /\ \A i \in 1..m : (a \o sep)[i] = a[i]
        /\ \A i \in 1..n : (a \o sep)[m + i] = sep[i]
    <3> HIDE <1>3
    <3>1. sep \in Seq(Piece)
      BY <1>3
    <3> QED
      BY <1>2, <2>1, <3>1, ConcatParts
  <2> QED
    BY <1>3, <2>1, <2>2
<1>5. (a \o sep)[m + 1] = sep[1] /\ (a \o sep)[m + 2] = sep[2]
  BY <1>4
<1> QED
  BY <1>1, <1>2, <1>3, <1>4, <1>5

LEMMA JoinProperties ==
    ASSUME NEW a \in Seq(Piece), NEW x \in Seq(Piece)
    PROVE  /\ Join(a, x) \in Seq(Piece)
           /\ Len(Join(a, x)) = Len(a) + 2 + Len(x)
           /\ \A i \in 1..Len(a) : Join(a, x)[i] = a[i]
           /\ Join(a, x)[Len(a) + 1] = ":" /\ Join(a, x)[Len(a) + 2] = ":"
           /\ \A i \in 1..Len(x) : Join(a, x)[Len(a) + 2 + i] = x[i]
<1>1. PICK k : k = a \o Separator
  OBVIOUS
<1>2. PICK m \in Nat, n \in Nat : m = Len(a) /\ n = Len(x)
  BY LenProperties
<1>3. /\ k \in Seq(Piece) /\ Len(k) = m + 2
      /\ \A i \in 1..m : k[i] = a[i]
      /\ k[m + 1] = ":" /\ k[m + 2] = ":"
  BY <1>1, <1>2, WithSeparator
<1>4. PICK j : j = k \o x
  OBVIOUS
<1>5. /\ j \in Seq(Piece) /\ Len(j) = (m + 2) + n
      /\ \A i \in 1..(m + 2) : j[i] = k[i]
      /\ \A i \in 1..n : j[(m + 2) + i] = x[i]
  <2>1. PICK l \in Nat : l = m + 2
    OBVIOUS
  <2>2. k \in Seq(Piece) /\ x \in Seq(Piece) /\ Len(k) = l /\ Len(x) = n
        /\ l \in Nat /\ n \in Nat
    BY <1>2, <1>3, <2>1
  <2>3. /\ k \o x \in Seq(Piece) /\ Len(k \o x) = l + n
        /\ \A i \in 1..l : (k \o x)[i] = k[i]
        /\ \A i \in 1..n : (k \o x)[l + i] = x[i]
    <3>1. k \o x \in Seq(Piece) /\ Len(k \o x) = l + n
      BY <2>2, ConcatParts
    <3>2. \A i \in 1..l : (k \o x)[i] = k[i]
      BY <2>2, ConcatParts
    <3>3. \A i \in 1..n : (k \o x)[l + i] = x[i]
      BY <2>2, ConcatParts
    <3> QED
      BY <3>1, <3>2, <3>3
  <2> QED
    BY <1>4, <2>1, <2>3
<1>6. m + 1 \in 1..(m + 2) /\ m + 2 \in 1..(m + 2) /\ 1..m \subseteq 1..(m + 2)
  BY <1>2
<1>7. j[m + 1] = ":" /\ j[m + 2] = ":" /\ \A i \in 1..m : j[i] = a[i]
  BY <1>3, <1>5, <1>6
<1> QED
  BY <1>1, <1>2, <1>4, <1>5, <1>7 DEF Join

\* Of two beginnings of one sequence the longer starts with the shorter.
LEMMA LongerStartsWithShorter ==
    ASSUME NEW a \in Seq(Piece), NEW b \in Seq(Piece),
           NEW x \in Seq(Piece), NEW y \in Seq(Piece),
           a \o x = b \o y, Len(b) <= Len(a)
    PROVE  StartsWith(a, b)
<1>1. Len(a) \in Nat /\ Len(b) \in Nat /\ Len(x) \in Nat /\ Len(y) \in Nat
  BY LenProperties
<1>2. /\ \A i \in 1..Len(a) : (a \o x)[i] = a[i]
      /\ \A i \in 1..Len(b) : (b \o y)[i] = b[i]
  BY <1>1, ConcatProperties
<1>3. /\ SubSeq(a, 1, Len(b)) \in Seq(Piece)
      /\ Len(SubSeq(a, 1, Len(b))) = Len(b)
      /\ \A i \in 1..Len(b) : SubSeq(a, 1, Len(b))[i] = a[i]
  BY <1>1
<1>4. \A i \in 1..Len(b) : SubSeq(a, 1, Len(b))[i] = b[i]
  BY <1>1, <1>2, <1>3
<1>5. SubSeq(a, 1, Len(b)) = b
  BY <1>3, <1>4, SeqEqual
<1> QED
  BY <1>5 DEF StartsWith

\* Joined parts come apart where the first parts are equally long.
LEMMA JoinCancels ==
    ASSUME NEW a \in Seq(Piece), NEW b \in Seq(Piece),
           NEW x \in Seq(Piece), NEW y \in Seq(Piece),
           Join(a, x) = Join(b, y), Len(a) = Len(b)
    PROVE  a = b /\ x = y
<1>1. Len(a) \in Nat /\ Len(b) \in Nat /\ Len(x) \in Nat /\ Len(y) \in Nat
  BY LenProperties
<1>2. Len(x) = Len(y)
  <2>1. Len(Join(a, x)) = Len(a) + 2 + Len(x) /\ Len(Join(b, y)) = Len(b) + 2 + Len(y)
    BY JoinProperties
  <2> QED
    BY <1>1, <2>1
<1>3. \A i \in 1..Len(a) : a[i] = b[i]
  <2>1. /\ \A i \in 1..Len(a) : Join(a, x)[i] = a[i]
        /\ \A i \in 1..Len(b) : Join(b, y)[i] = b[i]
    BY JoinProperties
  <2> QED
    BY <2>1
<1>4. \A i \in 1..Len(x) : x[i] = y[i]
  <2>1. /\ \A i \in 1..Len(x) : Join(a, x)[Len(a) + 2 + i] = x[i]
        /\ \A i \in 1..Len(y) : Join(b, y)[Len(b) + 2 + i] = y[i]
    BY JoinProperties
  <2> QED
    BY <1>2, <2>1
<1> QED
  BY <1>2, <1>3, <1>4, SeqEqual

\* No model and its separator begin another's, so a key has one model.
LEMMA ModelSplits ==
    ASSUME ModelsApart, NEW m \in Models, NEW n \in Models,
           NEW x \in Seq(Piece), NEW y \in Seq(Piece),
           Join(m, x) = Join(n, y)
    PROVE  m = n /\ x = y
<1>1. m \in Seq(Piece) /\ n \in Seq(Piece) /\ Len(m) \in Nat /\ Len(n) \in Nat
  BY NamesOfPieces, LenProperties
<1>2. /\ m \o Separator \in Seq(Piece) /\ Len(m \o Separator) = Len(m) + 2
      /\ n \o Separator \in Seq(Piece) /\ Len(n \o Separator) = Len(n) + 2
  BY <1>1, WithSeparator
<1>3. CASE Len(n) <= Len(m)
  <2>1. Len(n \o Separator) <= Len(m \o Separator)
    BY <1>1, <1>2, <1>3
  <2>2. StartsWith(m \o Separator, n \o Separator)
    BY <1>2, <2>1, LongerStartsWithShorter DEF Join
  <2> QED
    BY <1>1, <2>2, JoinCancels DEF ModelsApart
<1>4. CASE Len(m) <= Len(n)
  <2>1. Len(m \o Separator) <= Len(n \o Separator)
    BY <1>1, <1>2, <1>4
  <2>2. StartsWith(n \o Separator, m \o Separator)
    BY <1>2, <2>1, LongerStartsWithShorter DEF Join
  <2> QED
    BY <1>1, <2>2, JoinCancels DEF ModelsApart
<1> QED
  BY <1>1, <1>3, <1>4

\* Nor is a model the key of another model's scope or conversation.
LEMMA ModelIsNoJoin ==
    ASSUME ModelsApart, NEW m \in Models, NEW n \in Models, NEW x \in Seq(Piece)
    PROVE  m # Join(n, x)
<1> SUFFICES ASSUME m = Join(n, x) PROVE FALSE
  OBVIOUS
<1>1. m \in Seq(Piece) /\ n \in Seq(Piece) /\ Len(n) \in Nat /\ Len(x) \in Nat
  BY NamesOfPieces, LenProperties
<1>2. Len(m) = Len(n) + 2 + Len(x)
  BY <1>1, JoinProperties
<1>3. PICK k : k = n \o Separator
  OBVIOUS
<1>4. /\ k \in Seq(Piece) /\ Len(k) = Len(n) + 2 /\ m = k \o x
      /\ x \o Separator \in Seq(Piece)
  BY <1>1, <1>3, WithSeparator DEF Join
<1>5. m \o Separator = k \o (x \o Separator)
  BY <1>4, SeparatorProperties, ConcatAssociative
<1>6. PICK l : l = m \o Separator
  OBVIOUS
<1>7. l \in Seq(Piece) /\ Len(l) = Len(m) + 2
  BY <1>1, <1>6, WithSeparator
<1>8. /\ <<>> \in Seq(Piece) /\ x \o Separator \in Seq(Piece)
      /\ l \o <<>> = l
  BY <1>4, <1>7, ConcatEmptySeq
<1>9. StartsWith(l, k)
  <2>1. l \o <<>> = k \o (x \o Separator) /\ Len(k) <= Len(l)
    BY <1>1, <1>2, <1>4, <1>5, <1>6, <1>7, <1>8
  <2> QED
    BY <1>4, <1>7, <1>8, <2>1, LongerStartsWithShorter
<1>10. m = n
  BY <1>3, <1>6, <1>9 DEF ModelsApart
<1> QED
  BY <1>1, <1>2, <1>10

LEMMA ConvProperties ==
    ASSUME NEW c \in Seq(Piece)
    PROVE  /\ Conv(c) \in Seq(Piece)
           /\ Len(Conv(c)) = 1 + Len(c)
           /\ Conv(c)[1] = "conv_"
           /\ \A i \in 1..Len(c) : Conv(c)[1 + i] = c[i]
<1> DEFINE p == <<"conv_">>
<1>1. p \in Seq(Piece) /\ Len(p) = 1 /\ p[1] = "conv_" /\ Len(c) \in Nat
  BY LenProperties DEF Piece
<1>2. /\ Conv(c) \in Seq(Piece)
      /\ Len(Conv(c)) = 1 + Len(c)
      /\ \A i \in 1..(1 + Len(c)) : Conv(c)[i] = IF i <= 1 THEN p[i] ELSE c[i - 1]
  BY <1>1, ConcatProperties DEF Conv
<1>3. ASSUME NEW i \in 1..Len(c) PROVE Conv(c)[1 + i] = c[i]
  <2>1. 1 + i \in 1..(1 + Len(c)) /\ ~(1 + i <= 1) /\ 1 + i - 1 = i
    BY <1>1
  <2> QED
    BY <1>2, <2>1
<1>4. 1 \in 1..(1 + Len(c)) /\ 1 <= 1
  BY <1>1
<1> QED
  BY <1>1, <1>2, <1>3, <1>4

LEMMA ConvCancels ==
    ASSUME NEW c \in Seq(Piece), NEW d \in Seq(Piece), Conv(c) = Conv(d)
    PROVE  c = d
<1>1. /\ Len(Conv(c)) = 1 + Len(c) /\ Len(c) \in Nat
      /\ Len(Conv(d)) = 1 + Len(d) /\ Len(d) \in Nat
      /\ \A i \in 1..Len(c) : Conv(c)[1 + i] = c[i]
      /\ \A i \in 1..Len(d) : Conv(d)[1 + i] = d[i]
  BY ConvProperties, LenProperties
<1>2. Len(c) = Len(d)
  BY <1>1
<1>3. \A i \in 1..Len(c) : c[i] = d[i]
  BY <1>1, <1>2
<1> QED
  BY <1>2, <1>3, SeqEqual

\* A scope that a request can name and that keeps apart.
ScopeName(s) == s \in Seq(Piece) /\ ~Blank(s) /\ CleanScope(s)

\* The conversation part of a key is no scope, and begins with none: the
\* "conv_" of a conversation has no place in a scope.
LEMMA ConvApart ==
    ASSUME NEW c \in Seq(Piece), NEW s, ScopeName(s)
    PROVE  /\ Conv(c) # s
           /\ \A z \in Seq(Piece) : Conv(c) # Join(s, z)
           /\ \A t : ScopeName(t) => Join(t, Conv(c)) # s
<1>1. /\ s \in Seq(Piece) /\ DOMAIN s = 1..Len(s) /\ Len(s) \in Nat
      /\ CleanScope(s) /\ Conv(c)[1] = "conv_" /\ Conv(c) \in Seq(Piece)
      /\ Len(Conv(c)) = 1 + Len(c) /\ Len(c) \in Nat
  BY ConvProperties, LenProperties DEF ScopeName
<1>2. 1 \in DOMAIN s
  <2>1. DOMAIN s # {}
    BY DEF ScopeName, Blank
  <2> QED
    BY <1>1, <2>1
<1>3. s[1] # "conv_"
  BY <1>1, <1>2 DEF CleanScope
<1>4. Conv(c) # s
  BY <1>1, <1>3
<1>5. ASSUME NEW z \in Seq(Piece) PROVE Conv(c) # Join(s, z)
  <2>1. \A i \in 1..Len(s) : Join(s, z)[i] = s[i]
    BY <1>1, JoinProperties
  <2> QED
    BY <1>1, <1>2, <1>3, <2>1
<1>6. ASSUME NEW t, ScopeName(t) PROVE Join(t, Conv(c)) # s
  <2> SUFFICES ASSUME Join(t, Conv(c)) = s PROVE FALSE
    OBVIOUS
  <2>1. t \in Seq(Piece) /\ Len(t) \in Nat
    BY <1>6, LenProperties DEF ScopeName
  <2>2. /\ Len(s) = Len(t) + 2 + (1 + Len(c))
        /\ s[Len(t) + 1] = ":" /\ s[Len(t) + 2] = ":"
        /\ \A i \in 1..(1 + Len(c)) : s[Len(t) + 2 + i] = Conv(c)[i]
    <3>1. PICK x : x = Conv(c)
      OBVIOUS
    <3>0. t \in Seq(Piece) /\ x \in Seq(Piece)
      BY <1>1, <2>1, <3>1
    <3>2. /\ Len(Join(t, x)) = Len(t) + 2 + Len(x)
          /\ Join(t, x)[Len(t) + 1] = ":" /\ Join(t, x)[Len(t) + 2] = ":"
          /\ \A i \in 1..Len(x) : Join(t, x)[Len(t) + 2 + i] = x[i]
      BY <3>0, JoinProperties
    <3> QED
      BY <1>1, <3>1, <3>2
  <2>3. PICK k \in Nat : k = Len(t) + 3
    BY <2>1
  <2>4. /\ k \in DOMAIN s /\ k > 2 /\ k - 1 = Len(t) + 2 /\ k - 2 = Len(t) + 1
        /\ 1 \in 1..(1 + Len(c)) /\ Len(t) + 2 + 1 = k
    BY <1>1, <2>1, <2>2, <2>3
  <2>5. s[k] = "conv_" /\ s[k - 1] = ":" /\ s[k - 2] = ":"
    BY <1>1, <2>2, <2>4
  <2> QED
    BY <1>1, <2>4, <2>5 DEF CleanScope
<1> QED
  BY <1>4, <1>5, <1>6

\* A scope and a conversation come apart at the first "conv_" that no scope
\* can have.
LEMMA ScopeSplits ==
    ASSUME NEW s, NEW t, ScopeName(s), ScopeName(t),
           NEW c \in Seq(Piece), NEW d \in Seq(Piece),
           Join(s, Conv(c)) = Join(t, Conv(d))
    PROVE  s = t /\ c = d
<1>1. ASSUME NEW a, NEW b, ScopeName(a), ScopeName(b),
             NEW x \in Seq(Piece), NEW y \in Seq(Piece),
             Join(a, Conv(x)) = Join(b, Conv(y))
      PROVE  ~(Len(a) < Len(b))
  <2> SUFFICES ASSUME Len(a) < Len(b) PROVE FALSE
    OBVIOUS
  <2>1. /\ a \in Seq(Piece) /\ Len(a) \in Nat
        /\ b \in Seq(Piece) /\ Len(b) \in Nat /\ DOMAIN b = 1..Len(b)
        /\ Conv(x) \in Seq(Piece) /\ Conv(y) \in Seq(Piece)
        /\ Conv(x)[1] = "conv_" /\ 1 \in 1..Len(Conv(x))
    <3>1. /\ a \in Seq(Piece) /\ Len(a) \in Nat
          /\ b \in Seq(Piece) /\ Len(b) \in Nat /\ DOMAIN b = 1..Len(b)
      BY <1>1, LenProperties DEF ScopeName
    <3>2. Len(Conv(x)) = 1 + Len(x) /\ Len(x) \in Nat
      BY <1>1, ConvProperties, LenProperties
    <3>3. /\ Conv(x) \in Seq(Piece) /\ Conv(y) \in Seq(Piece)
          /\ Conv(x)[1] = "conv_"
      BY <1>1, ConvProperties
    <3>4. 1 \in 1..Len(Conv(x))
      BY <3>2
    <3> QED
      BY <3>1, <3>3, <3>4
  <2>2. PICK k : k = Join(b, Conv(y))
    OBVIOUS
  <2>3. /\ k[Len(a) + 1] = ":" /\ k[Len(a) + 2] = ":"
        /\ k[Len(a) + 2 + 1] = "conv_"
    <3>1. PICK z : z = Conv(x)
      OBVIOUS
    <3>2. z \in Seq(Piece) /\ k = Join(a, z) /\ z[1] = "conv_" /\ 1 \in 1..Len(z)
      BY <1>1, <2>1, <2>2, <3>1
    <3>0. a \in Seq(Piece) /\ z \in Seq(Piece)
      BY <2>1, <3>2
    <3>4. /\ Join(a, z)[Len(a) + 1] = ":" /\ Join(a, z)[Len(a) + 2] = ":"
          /\ \A i \in 1..Len(z) : Join(a, z)[Len(a) + 2 + i] = z[i]
      BY <3>0, JoinProperties
    <3>3. /\ k[Len(a) + 1] = ":" /\ k[Len(a) + 2] = ":"
          /\ \A i \in 1..Len(z) : k[Len(a) + 2 + i] = z[i]
      BY <3>2, <3>4
    <3> QED
      BY <3>2, <3>3
  <2>4. /\ \A i \in 1..Len(b) : k[i] = b[i]
        /\ k[Len(b) + 1] = ":" /\ k[Len(b) + 2] = ":"
    <3>1. PICK z : z = Conv(y)
      OBVIOUS
    <3>2. z \in Seq(Piece) /\ k = Join(b, z)
      BY <2>1, <2>2, <3>1
    <3>0. b \in Seq(Piece) /\ z \in Seq(Piece)
      BY <2>1, <3>2
    <3>3. /\ \A i \in 1..Len(b) : Join(b, z)[i] = b[i]
          /\ Join(b, z)[Len(b) + 1] = ":" /\ Join(b, z)[Len(b) + 2] = ":"
      BY <3>0, JoinProperties
    <3> QED
      BY <3>2, <3>3
  <2>5. PICK j \in Nat : j = Len(a) + 3
    BY <2>1
  <2>6. /\ k[j] = "conv_" /\ k[j - 1] = ":" /\ k[j - 2] = ":"
        /\ j > 2 /\ j <= Len(b) + 2
    <3>1. /\ j - 1 = Len(a) + 2 /\ j - 2 = Len(a) + 1 /\ j = Len(a) + 2 + 1
          /\ j > 2 /\ j <= Len(b) + 2
      BY <2>1, <2>5
    <3> QED
      BY <2>3, <3>1
  <2>7. CASE j <= Len(b)
    <3>1. j \in 1..Len(b) /\ j - 1 \in 1..Len(b) /\ j - 2 \in 1..Len(b)
      BY <2>1, <2>6, <2>7
    <3>2. b[j] = "conv_" /\ b[j - 1] = ":" /\ b[j - 2] = ":" /\ j \in DOMAIN b
      BY <2>1, <2>4, <2>6, <3>1
    <3> QED
      BY <1>1, <2>6, <3>2 DEF ScopeName, CleanScope
  <2>8. CASE ~(j <= Len(b))
    <3>1. PICK n \in Nat : n = Len(b)
      BY <2>1
    <3>2. j <= n + 2 /\ ~(j <= n) /\ j \in Nat
      BY <2>6, <2>8, <3>1
    <3>3. j = n + 1 \/ j = n + 2
      BY <3>2
    <3>4. k[n + 1] = ":" /\ k[n + 2] = ":" /\ k[j] = "conv_"
      BY <2>4, <2>6, <3>1
    <3> QED
      BY <3>3, <3>4
  <2> QED
    BY <2>7, <2>8
<1>2. /\ s \in Seq(Piece) /\ Len(s) \in Nat /\ t \in Seq(Piece) /\ Len(t) \in Nat
      /\ Conv(c) \in Seq(Piece) /\ Conv(d) \in Seq(Piece)
  BY LenProperties, ConvProperties DEF ScopeName
<1>3. Len(s) = Len(t)
  <2>1. ~(Len(s) < Len(t)) /\ ~(Len(t) < Len(s))
    BY <1>1
  <2> QED
    BY <1>2, <2>1
<1>4. s = t /\ Conv(c) = Conv(d)
  BY <1>2, <1>3, JoinCancels
<1> QED
  BY <1>4, ConvCancels

\* An optional field that is given has one value, which is not blank.
LEMMA GivenField ==
    ASSUME NEW S, NEW o \in Options(S), Given(o) # None
    PROVE  /\ Unwrap(Given(o)) \in S /\ Given(o) = Some(Unwrap(Given(o)))
           /\ ~Blank(Unwrap(Given(o)))
<1>1. PICK x \in S : o = Some(x)
  BY DEF Options, Given, None, Some
<1>2. Given(o) = Some(x) /\ ~Blank(x)
  BY <1>1 DEF Given, None, Some
<1>3. Unwrap(Given(o)) = x
  BY <1>2 DEF Unwrap, Some
<1> QED
  BY <1>2, <1>3

\* The key of a scope is the model or the model joined with the scope.
LEMMA BaseForms ==
    ASSUME NEW m \in Models, NEW o \in Options(Scopes)
    PROVE  /\ m \in Seq(Piece)
           /\ Given(o) = None => effective_namespace(m, o) = m
           /\ Given(o) # None =>
                /\ Unwrap(Given(o)) \in Scopes /\ Unwrap(Given(o)) \in Seq(Piece)
                /\ ~Blank(Unwrap(Given(o)))
                /\ effective_namespace(m, o) = Join(m, Unwrap(Given(o)))
<1>1. ASSUME Given(o) # None
      PROVE  Unwrap(Given(o)) \in Scopes /\ ~Blank(Unwrap(Given(o)))
  BY <1>1, GivenField
<1> QED
  BY <1>1, NamesOfPieces DEF effective_namespace, Join

\* The key of a conversation is the model joined with the conversation, or with
\* the scope and the conversation.
LEMMA ConvForms ==
    ASSUME NEW m \in Models, NEW o \in Options(Scopes),
           NEW c \in Conversations
    PROVE  /\ c \in Seq(Piece)
           /\ Given(o) = None =>
                conversation_namespace(m, o, c) = Join(m, Conv(c))
           /\ Given(o) # None =>
                conversation_namespace(m, o, c) =
                     Join(m, Join(Unwrap(Given(o)), Conv(c)))
<1>1. /\ m \in Seq(Piece) /\ c \in Seq(Piece) /\ Conv(c) \in Seq(Piece)
      /\ conversation_namespace(m, o, c) = Join(effective_namespace(m, o), Conv(c))
  <2>1. m \in Seq(Piece) /\ c \in Seq(Piece)
    BY NamesOfPieces
  <2> QED
    BY <2>1, ConvProperties DEF conversation_namespace, Join, Conv
<1>2. CASE Given(o) = None
  BY <1>1, <1>2, BaseForms
<1>3. CASE Given(o) # None
  <2>1. PICK s : s = Unwrap(Given(o))
    OBVIOUS
  <2>2. s \in Seq(Piece) /\ effective_namespace(m, o) = Join(m, s)
    BY <1>3, <2>1, BaseForms
  <2>3. PICK a : a = m \o Separator
    OBVIOUS
  <2>4. PICK x : x = Conv(c)
    OBVIOUS
  <2>5. PICK sep : sep = Separator
    OBVIOUS
  <2>6. /\ a \in Seq(Piece) /\ x \in Seq(Piece) /\ sep \in Seq(Piece)
        /\ a \o s \in Seq(Piece) /\ s \o sep \in Seq(Piece)
    BY <1>1, <2>2, <2>3, <2>4, <2>5, SeparatorProperties, ConcatProperties
  <2>7. (a \o s) \o sep = a \o (s \o sep)
    BY <2>2, <2>6, ConcatAssociative
  <2>8. (a \o (s \o sep)) \o x = a \o ((s \o sep) \o x)
    BY <2>6, ConcatAssociative
  <2>9. Join(Join(m, s), x) = ((a \o s) \o sep) \o x
        /\ Join(m, Join(s, x)) = a \o ((s \o sep) \o x)
    BY <2>3, <2>5 DEF Join
  <2> QED
    BY <1>1, <1>3, <2>1, <2>2, <2>4, <2>7, <2>8, <2>9
<1> QED
  BY <1>1, <1>2, <1>3

\* A scope that is given keeps apart.
LEMMA ScopeNames ==
    ASSUME NamesApart, NEW o \in Options(Scopes), Given(o) # None
    PROVE  ScopeName(Unwrap(Given(o)))
<1>1. Unwrap(Given(o)) \in Scopes /\ ~Blank(Unwrap(Given(o)))
  BY GivenField
<1> QED
  BY <1>1, NamesOfPieces DEF NamesApart, ScopeName

\* Two scopes have one key only if they are the same scope of the same model.
LEMMA BaseKeys ==
    ASSUME NamesApart, NEW m \in Models, NEW o \in Options(Scopes),
           NEW n \in Models, NEW p \in Options(Scopes),
           effective_namespace(m, o) = effective_namespace(n, p)
    PROVE  m = n /\ Given(o) = Given(p)
<1> DEFINE s == Unwrap(Given(o))
           t == Unwrap(Given(p))
<1>1. ModelsApart
  BY DEF NamesApart
<1>2. CASE Given(o) = None /\ Given(p) = None
  BY <1>2, BaseForms
<1>3. CASE Given(o) # None /\ Given(p) = None
  <2>1. s \in Seq(Piece) /\ n = Join(m, s)
    BY <1>3, BaseForms
  <2> QED
    BY <1>1, <2>1, ModelIsNoJoin
<1>4. CASE Given(o) = None /\ Given(p) # None
  <2>1. t \in Seq(Piece) /\ m = Join(n, t)
    BY <1>4, BaseForms
  <2> QED
    BY <1>1, <2>1, ModelIsNoJoin
<1>5. CASE Given(o) # None /\ Given(p) # None
  <2>1. s \in Seq(Piece) /\ t \in Seq(Piece) /\ Join(m, s) = Join(n, t)
    BY <1>5, BaseForms
  <2>2. m = n /\ s = t
    BY <1>1, <2>1, ModelSplits
  <2> QED
    BY <1>5, <2>2, GivenField
<1> QED
  BY <1>2, <1>3, <1>4, <1>5

\* The key of a conversation is the key of no scope.
LEMMA ConvIsNoBase ==
    ASSUME NamesApart,
           NEW m \in Models, NEW o \in Options(Scopes), NEW c \in Conversations,
           NEW n \in Models, NEW p \in Options(Scopes)
    PROVE  conversation_namespace(m, o, c) # effective_namespace(n, p)
<1> SUFFICES ASSUME conversation_namespace(m, o, c) = effective_namespace(n, p)
             PROVE  FALSE
  OBVIOUS
<1> DEFINE s == Unwrap(Given(o))
           t == Unwrap(Given(p))
           x == IF Given(o) = None THEN Conv(c) ELSE Join(s, Conv(c))
<1>1. ModelsApart
  BY DEF NamesApart
<1>2. c \in Seq(Piece) /\ Conv(c) \in Seq(Piece)
  BY ConvForms, ConvProperties
<1>3. Given(o) # None => ScopeName(s) /\ s \in Seq(Piece)
  BY ScopeNames DEF ScopeName
<1>4. x \in Seq(Piece)
  BY <1>2, <1>3, JoinProperties
<1>5. Join(m, x) = effective_namespace(n, p)
  BY ConvForms
<1>6. CASE Given(p) = None
  <2>1. Join(m, x) = n
    BY <1>5, <1>6, BaseForms
  <2> QED
    BY <1>1, <1>4, <2>1, ModelIsNoJoin
<1>7. CASE Given(p) # None
  <2>1. ScopeName(t) /\ t \in Seq(Piece) /\ Join(m, x) = Join(n, t)
    BY <1>5, <1>7, BaseForms, ScopeNames
  <2>2. x = t
    BY <1>1, <1>4, <2>1, ModelSplits
  <2> QED
    BY <1>2, <1>3, <2>1, <2>2, ConvApart
<1> QED
  BY <1>6, <1>7

\* Two conversations have one key only if all three parts are the same.
LEMMA ConvKeys ==
    ASSUME NamesApart,
           NEW m \in Models, NEW o \in Options(Scopes), NEW c \in Conversations,
           NEW n \in Models, NEW p \in Options(Scopes), NEW d \in Conversations,
           conversation_namespace(m, o, c) = conversation_namespace(n, p, d)
    PROVE  m = n /\ Given(o) = Given(p) /\ c = d
<1> DEFINE s == Unwrap(Given(o))
           t == Unwrap(Given(p))
           x == IF Given(o) = None THEN Conv(c) ELSE Join(s, Conv(c))
           y == IF Given(p) = None THEN Conv(d) ELSE Join(t, Conv(d))
<1>1. ModelsApart
  BY DEF NamesApart
<1>2. /\ c \in Seq(Piece) /\ Conv(c) \in Seq(Piece)
      /\ d \in Seq(Piece) /\ Conv(d) \in Seq(Piece)
  BY ConvForms, ConvProperties
<1>3. /\ Given(o) # None => ScopeName(s) /\ s \in Seq(Piece)
      /\ Given(p) # None => ScopeName(t) /\ t \in Seq(Piece)
  BY ScopeNames DEF ScopeName
<1>4. x \in Seq(Piece) /\ y \in Seq(Piece)
  BY <1>2, <1>3, JoinProperties
<1>5. Join(m, x) = Join(n, y)
  BY ConvForms
<1>6. m = n /\ x = y
  BY <1>1, <1>4, <1>5, ModelSplits
<1>7. CASE Given(o) = None /\ Given(p) = None
  BY <1>2, <1>6, <1>7, ConvCancels
<1>8. CASE Given(o) # None /\ Given(p) = None
  BY <1>2, <1>3, <1>6, <1>8, ConvApart
<1>9. CASE Given(o) = None /\ Given(p) # None
  BY <1>2, <1>3, <1>6, <1>9, ConvApart
<1>10. CASE Given(o) # None /\ Given(p) # None
  <2>1. s = t /\ c = d
    BY <1>2, <1>3, <1>6, <1>10, ScopeSplits
  <2> QED
    BY <1>6, <1>10, <2>1, GivenField
<1> QED
  BY <1>7, <1>8, <1>9, <1>10

-----------------------------------------------------------------------------
(* The invariant.                                                          *)

\* Every entry is filed under the key of the request that inserted it.
FiledByRequest == \A e \in store \cup replica : e.ns = InsertNamespace(e.for)

\* A lookup is at the conversation only if it has one, and goes on to the base
\* namespace only if the conversation may be missed, then and until it is done.
LevelsInOrder ==
    \A q \in Queries :
        /\ lookup[q].pc = "conv" => Given(lookup[q].req.conv) # None
        /\ lookup[q].pc = "base" =>
             \/ Given(lookup[q].req.conv) = None
             \/ MayMiss(ConvKey(q), lookup[q].now, lookup[q].exact)

RequestsInv ==
    /\ NeverBornExpired
    /\ FiledByRequest
    /\ LevelsInOrder

\* A deadline is a second that can be represented and not in the past.
LEMMA DeadlineFits ==
    ASSUME NEW now \in 0..MaxTime, NEW r \in Request, NEW ttl \in Options(Ttls)
    PROVE  LET d == Deadline(now, EffectiveTtl(r, ttl))
           IN  d \in Options(0..LastSecond) /\ \A x \in d : now <= x
<1> DEFINE t == EffectiveTtl(r, ttl)
           sat(y) == IF now + y > LastSecond THEN LastSecond ELSE now + y
<1>1. t = None \/ \E x \in Nat : t = Some(x)
  BY RequestsAssumption DEF EffectiveTtl, Options
<1>2. CASE t = None
  BY <1>2 DEF Deadline, None, Options
<1>3. ASSUME NEW x \in Nat, t = Some(x)
      PROVE  Deadline(now, t) \in Options(0..LastSecond)
               /\ \A y \in Deadline(now, t) : now <= y
  <2>1. Deadline(now, t) = {sat(x)}
    BY <1>3 DEF Deadline, Some
  <2>2. sat(x) \in 0..LastSecond /\ now <= sat(x)
    BY RequestsAssumption
  <2> QED
    BY <2>1, <2>2 DEF Options, Some
<1> QED
  BY <1>1, <1>2, <1>3

LEMMA RequestsInit == Init => RequestsInv
<1> SUFFICES ASSUME Init PROVE RequestsInv
  OBVIOUS
<1>1. AnyRequest \in Request
  <2>1. PICK m \in Models : TRUE
    BY RequestsAssumption
  <2>2. [model |-> m, scope |-> None, conv |-> None] \in Request
    BY DEF Request, Options
  <2> QED
    BY <2>2 DEF AnyRequest
<1>2. Idle \in Lookup
  BY <1>1, RequestsAssumption DEF Idle, Lookup
<1>3. TypeOK
  BY <1>2, RequestsAssumption DEF Init, TypeOK
<1> QED
  BY <1>3 DEF Init, RequestsInv, NeverBornExpired, FiledByRequest, LevelsInOrder, Idle

\* What an entry of a table has to satisfy.
Sound(e) ==
    e \in Entry /\ Live(e, e.inserted_at) /\ e.ns = InsertNamespace(e.for)

\* A step that adds sound entries and leaves the queries alone keeps the
\* invariant, if no query holds the lock or the store does not change.
LEMMA Filing ==
    ASSUME RequestsInv, UNCHANGED lookup,
           clock' \in 0..MaxTime, inserts' \in 0..MaxInserts,
           \A e \in store' : e \in store \/ Sound(e),
           \A e \in replica' : e \in replica \/ Sound(e),
           WriteLock \/ UNCHANGED store
    PROVE  RequestsInv'
<1>1. \A e \in store \cup replica : Sound(e)
  BY DEF RequestsInv, NeverBornExpired, FiledByRequest, TypeOK, Sound
<1>2. \A e \in (store \cup replica)' : Sound(e)
  BY <1>1
<1>3. NeverBornExpired'
  BY <1>2 DEF RequestsInv, NeverBornExpired, TypeOK, Sound
<1>4. FiledByRequest'
  BY <1>2 DEF FiledByRequest, Sound
<1>5. LevelsInOrder'
  <2>1. CASE WriteLock
    BY <2>1 DEF LevelsInOrder, WriteLock
  <2>2. CASE UNCHANGED store
    BY <2>2 DEF RequestsInv, LevelsInOrder, MayMiss, ConvKey, Hits, Live
  <2> QED
    BY <2>1, <2>2
<1> QED
  BY <1>3, <1>4, <1>5 DEF RequestsInv

LEMMA RequestsStep ==
    ASSUME RequestsInv, [Next]_vars
    PROVE  RequestsInv'
<1>0. /\ store \subseteq Entry /\ replica \subseteq Entry
      /\ lookup \in [Queries -> Lookup]
      /\ clock \in 0..MaxTime /\ inserts \in 0..MaxInserts
      /\ \A e \in store \cup replica : Sound(e)
  BY DEF RequestsInv, NeverBornExpired, FiledByRequest, TypeOK, Sound
<1>1. ASSUME NEW r \in Request, NEW ttl \in Options(Ttls), NEW here \in BOOLEAN,
             Insert(r, ttl, here)
      PROVE  RequestsInv'
  <2> DEFINE e == [id |-> inserts + 1, ns |-> InsertNamespace(r), for |-> r,
                   inserted_at |-> clock,
                   expires_at |-> Deadline(clock, EffectiveTtl(r, ttl))]
  <2>1. /\ inserts < MaxInserts /\ inserts' = inserts + 1
        /\ replica' = replica \cup {e} /\ UNCHANGED <<lookup, clock>>
        /\ (WriteLock /\ store' = store \cup {e}) \/ UNCHANGED store
    BY <1>1 DEF Insert
  <2>2. inserts + 1 \in 1..MaxInserts
    BY <1>0, <2>1, RequestsAssumption
  <2>3. /\ e.expires_at \in Options(0..LastSecond)
        /\ \A d \in e.expires_at : e.inserted_at <= d
    BY <1>0, DeadlineFits
  <2>4. Sound(e)
    BY <1>0, <2>2, <2>3 DEF Sound, Entry, Namespaces, Live
  <2> QED
    BY <1>0, <2>1, <2>2, <2>4, Filing
<1>2. ASSUME NEW e \in replica, Repair(e)
      PROVE  RequestsInv'
  BY <1>0, <1>2, Filing DEF Repair, Put
<1>3. ASSUME NEW e \in replica, PushRepair(e)
      PROVE  RequestsInv'
  <2> DEFINE f == [e EXCEPT !.inserted_at = clock, !.expires_at = None]
  <2>1. Sound(e)
    BY <1>0
  <2>2. f \in Entry /\ f.expires_at = {} /\ f.ns = e.ns /\ f.for = e.for
    BY <1>0, <2>1 DEF Sound, Entry, Options, None
  <2>3. Sound(f)
    BY <2>1, <2>2 DEF Sound, Live
  <2> QED
    BY <1>0, <1>3, <2>3, Filing DEF PushRepair, Put
<1>4. ASSUME NEW r \in Request, Invalidate(r)
      PROVE  RequestsInv'
  BY <1>0, <1>4, Filing DEF Invalidate
<1>5. CASE Reap
  BY <1>0, <1>5, Filing DEF Reap
<1>6. CASE Tick
  <2>1. clock' \in 0..MaxTime
    BY <1>0, <1>6, RequestsAssumption DEF Tick
  <2> QED
    BY <1>0, <1>6, <2>1, Filing DEF Tick
<1>7. ASSUME NEW q \in Queries, UNCHANGED rest, NEW l \in Lookup,
             lookup' = [lookup EXCEPT ![q] = l],
             l.pc = "conv" => Given(l.req.conv) # None,
             l.pc = "base" =>
               \/ Given(l.req.conv) = None
               \/ MayMiss(ConvKey(q), lookup[q].now, lookup[q].exact)'
      PROVE  RequestsInv'
  <2>1. /\ lookup' \in [Queries -> Lookup] /\ lookup'[q] = l
        /\ \A p \in Queries \ {q} : lookup'[p] = lookup[p]
    BY <1>0, <1>7
  <2>2. NeverBornExpired' /\ FiledByRequest'
    BY <1>7, <2>1 DEF RequestsInv, NeverBornExpired, TypeOK, FiledByRequest, rest, Live
  <2>3. ASSUME NEW p \in Queries \ {q}
        PROVE  /\ lookup'[p].pc = "conv" => Given(lookup'[p].req.conv) # None
               /\ lookup'[p].pc = "base" =>
                    \/ Given(lookup'[p].req.conv) = None
                    \/ MayMiss(ConvKey(p), lookup[p].now, lookup[p].exact)'
    BY <1>7, <2>1 DEF RequestsInv, LevelsInOrder, MayMiss, ConvKey, Hits, Live, rest
  <2>4. LevelsInOrder'
    BY <1>7, <2>1, <2>3 DEF LevelsInOrder
  <2> QED
    BY <2>2, <2>4 DEF RequestsInv
<1>8. ASSUME NEW q \in Queries, NEW r \in Request, QueryBegin(q, r)
      PROVE  RequestsInv'
  <2> DEFINE l == [Idle EXCEPT !.pc = "lock", !.req = r, !.now = clock]
  <2>1. l \in Lookup /\ l.pc = "lock"
    BY <1>0 DEF Idle, Lookup
  <2> QED
    BY <1>7, <1>8, <2>1 DEF QueryBegin
<1>9. ASSUME NEW q \in Queries, QueryLock(q)
      PROVE  RequestsInv'
  <2>0. PICK exact \in BOOLEAN :
          lookup' = [lookup EXCEPT ![q].exact = exact,
                       ![q].pc = IF Given(lookup[q].req.conv) = None
                                 THEN "base" ELSE "conv"]
    BY <1>9 DEF QueryLock
  <2> DEFINE l == [lookup[q] EXCEPT !.exact = exact, !.pc =
                     IF Given(lookup[q].req.conv) = None THEN "base" ELSE "conv"]
  <2>1. /\ l \in Lookup /\ l.req = lookup[q].req
        /\ l.pc = IF Given(lookup[q].req.conv) = None THEN "base" ELSE "conv"
    BY <1>0 DEF Lookup
  <2>2. lookup' = [lookup EXCEPT ![q] = l] /\ UNCHANGED rest
    BY <1>0, <1>9, <2>0 DEF QueryLock, Lookup
  <2>3. /\ l.pc = "conv" => Given(l.req.conv) # None
        /\ l.pc = "base" => Given(l.req.conv) = None
    BY <2>1
  <2> HIDE DEF l
  <2> QED
    BY <1>7, <2>1, <2>2, <2>3
<1>10. ASSUME NEW q \in Queries, lookup' = [lookup EXCEPT ![q] = Idle],
              UNCHANGED rest, lookup[q] \in Lookup
       PROVE  RequestsInv'
  <2>1. Idle \in Lookup /\ Idle.pc = "idle"
    <3>1. PICK m \in Models : TRUE
      BY RequestsAssumption
    <3>2. [model |-> m, scope |-> None, conv |-> None] \in Request
      BY DEF Request, Options
    <3>3. AnyRequest \in Request
      BY <3>2 DEF AnyRequest
    <3> QED
      BY <3>3, RequestsAssumption DEF Idle, Lookup
  <2> QED
    BY <1>7, <1>10, <2>1
<1>11. ASSUME NEW q \in Queries, QueryConv(q)
       PROVE  RequestsInv'
  <2>1. CASE lookup' = [lookup EXCEPT ![q] = Idle]
    BY <1>0, <1>10, <1>11, <2>1 DEF QueryConv
  <2>2. CASE /\ MayMiss(ConvKey(q), lookup[q].now, lookup[q].exact)
             /\ lookup' = [lookup EXCEPT ![q].pc = "base"]
    <3> DEFINE l == [lookup[q] EXCEPT !.pc = "base"]
    <3>1. /\ l \in Lookup /\ l.req = lookup[q].req /\ l.now = lookup[q].now
          /\ l.exact = lookup[q].exact /\ l.pc = "base"
      BY <1>0 DEF Lookup
    <3>2. lookup' = [lookup EXCEPT ![q] = l] /\ lookup'[q] = l /\ UNCHANGED rest
      BY <1>0, <1>11, <2>2 DEF QueryConv
    <3>3. MayMiss(ConvKey(q), lookup[q].now, lookup[q].exact)'
      BY <2>2, <3>1, <3>2 DEF MayMiss, ConvKey, Hits, Live, rest
    <3> QED
      BY <1>7, <3>1, <3>2, <3>3
  <2> QED
    BY <1>11, <2>1, <2>2 DEF QueryConv
<1>12. ASSUME NEW q \in Queries, QueryBase(q)
       PROVE  RequestsInv'
  BY <1>0, <1>10, <1>12 DEF QueryBase
<1>13. CASE UNCHANGED vars
  BY <1>0, <1>13, Filing DEF vars
<1> QED
  BY <1>1, <1>2, <1>3, <1>4, <1>5, <1>6, <1>8, <1>9, <1>11, <1>12, <1>13 DEF Next

\* No entry is born expired, every entry is filed under the key of its request,
\* and the levels of a lookup follow each other (server.rs, local_insert_inner
\* and process_query_locally).
THEOREM RequestsInvariant == Spec => []RequestsInv
<1> QED
  BY RequestsInit, RequestsStep, PTL DEF Spec

\* However large a TTL, its deadline is a second that can be represented and
\* not before the insert (saturating_add in local_insert_inner).
THEOREM NeverBornExpiredHolds == Spec => []NeverBornExpired
<1>1. RequestsInv => NeverBornExpired
  BY DEF RequestsInv
<1> QED
  BY <1>1, RequestsInvariant, PTL

\* Requests of one meaning use one key, whatever their names: a blank field is
\* an absent one.
LEMMA SameMeaningSameKey ==
    ASSUME NEW r, NEW s, s.model = r.model, Given(s.scope) = Given(r.scope)
    PROVE  /\ Given(s.conv) = None =>
                InsertNamespace(s) = effective_namespace(r.model, r.scope)
           /\ Given(s.conv) # None /\ Given(s.conv) = Given(r.conv) =>
                InsertNamespace(s) =
                  conversation_namespace(r.model, r.scope, Unwrap(Given(r.conv)))
  BY DEF InsertNamespace, conversation_namespace, effective_namespace

\* Where names keep apart, the entries a key stands for are those inserted for
\* the same model, scope and conversation.
LEMMA SameKeySameMeaning ==
    ASSUME NamesApart, NEW r \in Request, NEW s \in Request
    PROVE  /\ InsertNamespace(s) = effective_namespace(r.model, r.scope) =>
                /\ s.model = r.model /\ Given(s.scope) = Given(r.scope)
                /\ Given(s.conv) = None
           /\ Given(r.conv) # None /\
              InsertNamespace(s) =
                conversation_namespace(r.model, r.scope, Unwrap(Given(r.conv))) =>
                /\ s.model = r.model /\ Given(s.scope) = Given(r.scope)
                /\ Given(s.conv) # None /\ Given(s.conv) = Given(r.conv)
<1>0. /\ r.model \in Models /\ r.scope \in Options(Scopes)
      /\ s.model \in Models /\ s.scope \in Options(Scopes)
      /\ r.conv \in Options(Conversations) /\ s.conv \in Options(Conversations)
  BY DEF Request
<1>1. /\ Given(r.conv) # None =>
           /\ Unwrap(Given(r.conv)) \in Conversations
           /\ Given(r.conv) = Some(Unwrap(Given(r.conv)))
      /\ Given(s.conv) # None =>
           /\ Unwrap(Given(s.conv)) \in Conversations
           /\ Given(s.conv) = Some(Unwrap(Given(s.conv)))
  BY <1>0, GivenField
<1>2. effective_namespace(s.model, s.scope) = effective_namespace(r.model, r.scope)
        => s.model = r.model /\ Given(s.scope) = Given(r.scope)
  BY <1>0, BaseKeys
<1>3. Given(s.conv) # None =>
        conversation_namespace(s.model, s.scope, Unwrap(Given(s.conv)))
          # effective_namespace(r.model, r.scope)
  BY <1>0, <1>1, ConvIsNoBase
<1>4. Given(r.conv) # None =>
        effective_namespace(s.model, s.scope)
          # conversation_namespace(r.model, r.scope, Unwrap(Given(r.conv)))
  BY <1>0, <1>1, ConvIsNoBase
<1>5. ASSUME Given(s.conv) # None, Given(r.conv) # None,
             conversation_namespace(s.model, s.scope, Unwrap(Given(s.conv)))
               = conversation_namespace(r.model, r.scope, Unwrap(Given(r.conv)))
      PROVE  /\ s.model = r.model /\ Given(s.scope) = Given(r.scope)
             /\ Given(s.conv) = Given(r.conv)
  BY <1>0, <1>1, <1>5, ConvKeys
<1> QED
  BY <1>2, <1>3, <1>4, <1>5 DEF InsertNamespace

\* Isolation: where the names of requests keep apart (models of the form
\* name::dimension do), no lookup is answered with an entry of another model,
\* scope or conversation, whatever is inserted, repaired and removed meanwhile.
THEOREM NoForeignAnswerHolds ==
    ASSUME NamesApart
    PROVE  Spec => []NoForeignAnswer
<1>1. RequestsInv => NoForeignAnswer
  <2> SUFFICES ASSUME RequestsInv, NEW q \in Queries
               PROVE  /\ lookup[q].pc = "conv" => ConvHits(q) \subseteq Own(q)
                      /\ lookup[q].pc = "base" => BaseHits(q) \subseteq Shared(q)
    BY DEF NoForeignAnswer
  <2>1. /\ lookup[q].req \in Request
        /\ \A e \in store : e.for \in Request /\ e.ns = InsertNamespace(e.for)
    BY DEF RequestsInv, NeverBornExpired, TypeOK, FiledByRequest, Lookup, Entry
  <2>2. lookup[q].pc = "conv" => Given(lookup[q].req.conv) # None
    BY DEF RequestsInv, LevelsInOrder
  <2> QED
    BY <2>1, <2>2, SameKeySameMeaning
       DEF ConvHits, ConvKey, BaseHits, Hits, Own, Shared, SameScope
<1> QED
  BY <1>1, RequestsInvariant, PTL

\* Completeness, whatever the names: a lookup passes over a live entry of its
\* conversation only if the search is inexact or an expired entry of it waits
\* for the reaper, and the base namespace has all entries of the scope.
THEOREM NothingOverlookedHolds == Spec => []NothingOverlooked
<1>1. RequestsInv => NothingOverlooked
  <2> SUFFICES ASSUME RequestsInv, NEW q \in Queries
               PROVE  /\ lookup[q].pc = "conv" => Own(q) \subseteq ConvHits(q)
                      /\ lookup[q].pc = "base" =>
                           /\ \/ Own(q) = {}
                              \/ ~lookup[q].exact
                              \/ \E e \in store :
                                   e.ns = ConvKey(q) /\ ~Live(e, lookup[q].now)
                           /\ Shared(q) \subseteq BaseHits(q)
    BY DEF NothingOverlooked
  <2>1. \A e \in store : e.ns = InsertNamespace(e.for)
    BY DEF RequestsInv, FiledByRequest
  <2>2. Own(q) # {} => Given(lookup[q].req.conv) # None
    BY DEF Own
  <2>3. Own(q) \subseteq ConvHits(q)
    BY <2>1, SameMeaningSameKey DEF ConvHits, ConvKey, Hits, Own, SameScope
  <2>4. Shared(q) \subseteq BaseHits(q)
    BY <2>1, SameMeaningSameKey DEF BaseHits, Hits, Shared, SameScope
  <2>5. lookup[q].pc = "base" =>
          \/ Given(lookup[q].req.conv) = None
          \/ MayMiss(ConvKey(q), lookup[q].now, lookup[q].exact)
    BY DEF RequestsInv, LevelsInOrder
  <2> QED
    BY <2>2, <2>3, <2>4, <2>5 DEF MayMiss, ConvHits
<1> QED
  BY <1>1, RequestsInvariant, PTL

\* Where the names of requests keep apart, an invalidation of a scope takes no
\* entry of another scope and none of a conversation (invalidate_handler).
THEOREM InvalidationStaysHomeHolds ==
    ASSUME NamesApart
    PROVE  Spec => InvalidationStaysHome
<1>1. RequestsInv /\ [Next]_vars =>
        [\A e \in store \ store' : \A r \in Request :
           Invalidate(r) => SameScope(e, r) /\ Given(e.for.conv) = None]_vars
  <2> SUFFICES ASSUME RequestsInv, NEW e \in store \ store', NEW r \in Request,
                      Invalidate(r)
               PROVE  SameScope(e, r) /\ Given(e.for.conv) = None
    OBVIOUS
  <2>1. e.for \in Request /\ e.ns = InsertNamespace(e.for)
    BY DEF RequestsInv, NeverBornExpired, TypeOK, FiledByRequest, Entry
  <2>2. e.ns = effective_namespace(r.model, r.scope)
    BY DEF Invalidate
  <2> QED
    BY <2>1, <2>2, SameKeySameMeaning DEF SameScope
<1> QED
  BY <1>1, RequestsInvariant, PTL DEF Spec, InvalidationStaysHome

=============================================================================
