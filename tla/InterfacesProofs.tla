--------------------------- MODULE InterfacesProofs ---------------------------
(***************************************************************************)
(* Proofs about the two interfaces, of any demands, any number of records, *)
(* lookups and operations under way, and whatever other processes do to    *)
(* the store: the terminal's candidates are those of the last question, a  *)
(* revocation is of what was shown, and a decision is announced with the   *)
(* rows that show it.                                                      *)
(***************************************************************************)
EXTENDS Interfaces, NaturalsLemmas, FiniteSetTheorems

-----------------------------------------------------------------------------
(* The terminal's lookups.                                                 *)

LookupType ==
  /\ seq \in Nat
  /\ running \subseteq [seq : Nat, demand : Demands \cup {Nil}]
  /\ form \in [demand : Demands \cup {Nil}, named : BOOLEAN]
  /\ asked \in Demands \cup {Nil}
  /\ typed \in BOOLEAN

(* A number is used once, and passed over when its lookup is abandoned; so *)
(* while the screen waits, only the last question has the current number.  *)
SequenceInv ==
  /\ \A l \in running : l.seq <= seq
  /\ screen = "wait" => \A l \in running : l.seq = seq => l.demand = asked
  /\ screen = "candidates" =>
       candidates \in [demand : Demands \cup {Nil}, offers : BOOLEAN]

LookupInv == LookupType /\ SequenceInv /\ CandidatesClearNoReview

(* The inductive invariant holds in the beginning.                         *)
LEMMA InitInv == ASSUME InitOwn PROVE LookupInv
  <1>1. form = [demand |-> Nil, named |-> FALSE] /\ screen = "list"
    BY DEF InitOwn, EmptyForm
  <1>2. form \in [demand : Demands \cup {Nil}, named : BOOLEAN] /\ ~form.named
    BY <1>1
  <1>3. typed \in BOOLEAN
    BY Zenon DEF InitOwn
  <1>4. LookupType
    BY <1>2, <1>3 DEF InitOwn, LookupType
  <1> QED BY <1>1, <1>2, <1>4 DEF InitOwn, LookupInv, SequenceInv, CandidatesClearNoReview

(* A step that leaves the lookups and the form alone, and enters neither   *)
(* the screen that waits nor that of the candidates.                       *)
LEMMA QuietInv ==
  ASSUME LookupInv, UNCHANGED <<lookupVars, form, typed>>,
         screen' = screen \/ screen' \notin {"wait", "candidates"}
  PROVE LookupInv'
  BY DEF LookupInv, LookupType, SequenceInv, CandidatesClearNoReview, lookupVars

(* A form is opened from the list.                                         *)
LEMMA OpenFormInv ==
  ASSUME LookupInv, NEW name \in {"approve", "revoke", "lookup"},
         OpenForm(name, EmptyForm), UNCHANGED lookupVars
  PROVE LookupInv'
  BY DEF LookupInv, LookupType, SequenceInv, CandidatesClearNoReview, lookupVars,
         OpenForm, Goto, EmptyForm

(* The way back to the list forgets the form and the question.             *)
LEMMA BackInv ==
  ASSUME LookupInv, BackToList, UNCHANGED <<seq, running>>
  PROVE LookupInv'
  BY DEF LookupInv, LookupType, SequenceInv, CandidatesClearNoReview, BackToList, Goto,
         EmptyForm

(* A key typed names a demand, or the person, and then the name is typed.  *)
LEMMA TypeInv == ASSUME LookupInv, Type PROVE LookupInv'
  <1> USE DEF LookupInv, LookupType
  <1>1. CASE \E d \in Demands : form' = [form EXCEPT !.demand = d] /\ UNCHANGED typed
    <2>1. form' \in [demand : Demands \cup {Nil}, named : BOOLEAN]
          /\ form'.named = form.named
      BY <1>1
    <2> QED BY <1>1, <2>1 DEF SequenceInv, CandidatesClearNoReview, lookupVars, Type
  <1>2. CASE form' = [form EXCEPT !.named = TRUE] /\ typed' = TRUE
    <2>1. form' \in [demand : Demands \cup {Nil}, named : BOOLEAN]
      BY <1>2
    <2> QED BY <1>2, <2>1 DEF SequenceInv, CandidatesClearNoReview, lookupVars, Type
  <1> QED BY <1>1, <1>2 DEF Type

(* A lookup takes the next number; every other one has a smaller one.      *)
LEMMA SubmitLookupInv == ASSUME LookupInv, SubmitLookup PROVE LookupInv'
  <1>1. CASE Refuse
    BY <1>1, QuietInv DEF Refuse
  <1>2. CASE ~Refuse
    <2> USE <1>2 DEF SubmitLookup, Goto, At
    <2>1. LookupType'
      BY DEF LookupInv, LookupType
    <2>2. SequenceInv'
      BY DEF LookupInv, LookupType, SequenceInv
    <2>3. CandidatesClearNoReview'
      BY DEF LookupInv, CandidatesClearNoReview
    <2> QED BY <2>1, <2>2, <2>3 DEF LookupInv
  <1> QED BY <1>1, <1>2

LEMMA AbandonLookupInv == ASSUME LookupInv, AbandonLookup PROVE LookupInv'
  BY DEF LookupInv, LookupType, SequenceInv, CandidatesClearNoReview, AbandonLookup, At, Goto

(* The candidates shown are those of the last question, because the        *)
(* lookup that answers is awaited.                                         *)
LEMMA LookupEndsInv ==
  ASSUME LookupInv, NEW n \in 1 .. MaxLookups, LookupEnds(n) PROVE LookupInv'
  <1>1. PICK l \in running :
          /\ l.seq = n
          /\ running' = running \ {l}
          /\ IF Awaited(l) THEN LookupFailed \/ LookupAnswered(l)
                           ELSE UNCHANGED <<screen, message, candidates>>
          /\ UNCHANGED <<records, listVars, form, seq, asked, pending, typed>>
    BY DEF LookupEnds
  <1>2. CASE Awaited(l) /\ LookupAnswered(l)
    <2>1. PICK offers \in BOOLEAN : candidates' = [demand |-> l.demand, offers |-> offers]
      BY <1>2 DEF LookupAnswered
    <2>2. l.demand = asked
      BY <1>2 DEF LookupInv, SequenceInv, Awaited
    <2>3. LookupType'
      BY <1>1, <2>1 DEF LookupInv, LookupType
    <2>4. candidates' \in [demand : Demands \cup {Nil}, offers : BOOLEAN]
      BY <1>1, <2>1 DEF LookupInv, LookupType
    <2> QED BY <1>1, <1>2, <2>1, <2>2, <2>3, <2>4
         DEF LookupInv, SequenceInv, CandidatesClearNoReview, LookupAnswered, Goto
  <1>3. CASE ~(Awaited(l) /\ LookupAnswered(l))
    BY <1>1, <1>3 DEF LookupInv, LookupType, SequenceInv, CandidatesClearNoReview,
                      LookupFailed, Goto
  <1> QED BY <1>2, <1>3

(* The prefilled form has no name in it.                                   *)
LEMMA ChooseOfferInv == ASSUME LookupInv, ChooseOffer PROVE LookupInv'
  <1>1. candidates \in [demand : Demands \cup {Nil}, offers : BOOLEAN]
    BY DEF ChooseOffer, At, LookupInv, LookupType, SequenceInv
  <1> QED BY <1>1 DEF LookupInv, LookupType, SequenceInv, CandidatesClearNoReview,
                      ChooseOffer, OpenForm, Prefill, Goto, At

LEMMA NextInv == ASSUME LookupInv, Next PROVE LookupInv'
  <1>1. CASE \/ MoveCursor \/ ToggleInactive \/ OpenView \/ Quit \/ PreviewRevoke
             \/ ReadRows \/ ShowRows \/ Others
    BY <1>1, QuietInv
       DEF MoveCursor, ToggleInactive, OpenView, Quit, PreviewRevoke, ReadRows, ShowRows,
           Refuse, Others, Goto, lookupVars
  <1>2. CASE OpenApprove \/ OpenRevoke \/ OpenLookup
    BY <1>2, OpenFormInv DEF OpenApprove, OpenRevoke, OpenLookup
  <1>3. CASE Leave
    BY <1>3, BackInv DEF Leave
  <1>4. CASE SubmitApprove
    <2>1. CASE Refuse
      BY <2>1, QuietInv DEF Refuse
    <2>2. CASE ~Refuse
      BY <1>4, <2>2, BackInv DEF SubmitApprove
    <2> QED BY <2>1, <2>2
  <1>5. CASE ApplyRevoke
    <2>1. CASE BackToList
      BY <1>5, <2>1, BackInv DEF ApplyRevoke
    <2>2. CASE ~BackToList
      BY <1>5, <2>2, QuietInv DEF ApplyRevoke, lookupVars
    <2> QED BY <2>1, <2>2
  <1> QED BY <1>1, <1>2, <1>3, <1>4, <1>5, TypeInv, SubmitLookupInv, AbandonLookupInv,
             LookupEndsInv, ChooseOfferInv
         DEF Next, Key

-----------------------------------------------------------------------------
(* The rows of a list.                                                     *)

Record == [demand : Nat, status : {"active", "superseded", "revoked"}, stamp : Nat]

Row == [id : Nat, demand : Nat, status : {"active", "superseded", "revoked"}, stamp : Nat]

SamePlace(a, b) == a.demand = b.demand /\ a.stamp = b.stamp

(* No two records of a demand have the same stamp.                         *)
Table == {r \in Seq(Record) : \A i, j \in DOMAIN r : SamePlace(r[i], r[j]) => i = j}

(* Finitely many rows with places of their own can be put in order.        *)
LEMMA OrderExists ==
  ASSUME NEW R \in SUBSET Row, IsFiniteSet(R), \A a, b \in R : SamePlace(a, b) => a = b
  PROVE  \E s \in [1 .. Cardinality(R) -> R] : InOrder(R, s)
<1> DEFINE Ordered(T) == \E s \in [1 .. Cardinality(T) -> T] : InOrder(T, s)
           Counter == {n \in Nat : \E T \in SUBSET R : Cardinality(T) = n /\ ~Ordered(T)}
<1>1. Cardinality(R) \in Nat
  BY FS_CardinalityType
<1>2. SUFFICES ASSUME Counter # {} PROVE FALSE
  BY <1>1
<1>3. PICK n \in Counter : \A k \in Counter : n <= k
  <2>1. Counter \subseteq Nat
    OBVIOUS
  <2> HIDE DEF Counter
  <2> QED
    BY <1>2, <2>1, LeastNat
<1>4. PICK T \in SUBSET R : Cardinality(T) = n /\ ~Ordered(T)
  OBVIOUS
<1>5. IsFiniteSet(T) /\ n \in Nat
  BY PartOfFinite
<1>6. CASE T = {}
  <2>1. n = 0
    BY <1>4, <1>6, FS_EmptySet
  <2>2. << >> \in [1 .. Cardinality(T) -> T]
    BY <1>4, <2>1
  <2>3. InOrder(T, << >>)
    BY <1>6 DEF InOrder, Range
  <2> QED
    BY <1>4, <2>2, <2>3
<1>7. CASE T # {}
  <2> DEFINE key == [x \in T |-> <<0 - x.demand, x.stamp>>]
  <2>1. \A x \in T : \A i \in 1 .. 2 : key[x][i] \in Int
    BY DEF Row
  <2>2. PICK x \in T : \A y \in T : ~Before(key[y], key[x], 2)
    <3> HIDE DEF key
    <3> QED
      BY <1>5, <1>7, <2>1, FirstExists
  <2>3. \A y \in T \ {x} : RowBefore(y, x)
    <3> SUFFICES ASSUME NEW y \in T, y # x PROVE RowBefore(y, x)
      OBVIOUS
    <3>1. /\ x.demand \in Nat /\ y.demand \in Nat /\ x.stamp \in Nat /\ y.stamp \in Nat
          /\ ~(x.demand = y.demand /\ x.stamp = y.stamp)
      BY DEF Row, SamePlace
    <3>2. ~Before(<<0 - y.demand, y.stamp>>, <<0 - x.demand, x.stamp>>, 2)
      BY <2>2
    <3>3. ~(0 - y.demand < 0 - x.demand)
      BY <3>2 DEF Before
    <3>4. ~(y.demand = x.demand /\ y.stamp < x.stamp)
      <4> SUFFICES ASSUME y.demand = x.demand, y.stamp < x.stamp PROVE FALSE
        OBVIOUS
      <4>1. \A j \in 1 .. 2 - 1 : <<0 - y.demand, y.stamp>>[j] = <<0 - x.demand, x.stamp>>[j]
        OBVIOUS
      <4> QED
        BY <3>2, <4>1 DEF Before
    <3> QED
      BY <3>1, <3>3, <3>4 DEF RowBefore
  <2>4. Cardinality(T \ {x}) = n - 1 /\ IsFiniteSet(T \ {x})
    BY <1>4, <1>5, FS_RemoveElement
  <2>5. n - 1 \in Nat
    BY <2>4, FS_CardinalityType
  <2>6. n - 1 \notin Counter
    BY <1>3, <1>5, <2>5
  <2>7. Ordered(T \ {x})
    BY <2>4, <2>5, <2>6
  <2>8. PICK s \in [1 .. n - 1 -> T \ {x}] : InOrder(T \ {x}, s)
    BY <2>4, <2>7
  <2> DEFINE t == [i \in 1 .. n |-> IF i = n THEN x ELSE s[i]]
  <2>9. t \in [1 .. n -> T]
    BY <1>5, <2>5
  <2>10. Range(t) = T
    <3>1. \A i \in 1 .. n - 1 : t[i] = s[i]
      BY <1>5
    <3>2. \A y \in T \ {x} : \E i \in 1 .. n - 1 : s[i] = y
      BY <2>8 DEF InOrder, Range
    <3>3. \A y \in T : \E i \in 1 .. n : t[i] = y
      BY <3>1, <3>2, <2>5, <1>5
    <3> QED
      BY <2>9, <3>3 DEF Range
  <2>11. \A i, j \in 1 .. n : i < j => RowBefore(t[i], t[j])
    <3> SUFFICES ASSUME NEW i \in 1 .. n, NEW j \in 1 .. n, i < j PROVE RowBefore(t[i], t[j])
      OBVIOUS
    <3>1. i \in 1 .. n - 1 /\ t[i] = s[i]
      BY <1>5
    <3>2. CASE j = n
      BY <2>3, <3>1, <3>2
    <3>3. CASE j # n
      BY <1>5, <2>8, <3>1, <3>3 DEF InOrder
    <3> QED
      BY <3>2, <3>3
  <2>12. InOrder(T, t)
    BY <2>9, <2>10, <2>11 DEF InOrder
  <2> QED
    BY <1>4, <2>9, <2>12
<1> QED
  BY <1>6, <1>7

(* What the store lists is the rows it has, each once.                     *)
LEMMA RowsAreRows ==
  ASSUME NEW r \in Table, NEW include
  PROVE  /\ Rows(r, include) \in SUBSET Row
         /\ IsFiniteSet(Rows(r, include))
         /\ \A a, b \in Rows(r, include) : SamePlace(a, b) => a = b
<1> DEFINE ids == {k \in DOMAIN r : include \/ r[k].status = "active"}
           row == [i \in ids |-> RowOf(r, i)]
<1>1. /\ r \in Seq(Record)
      /\ DOMAIN r = 1 .. Len(r) /\ Len(r) \in Nat
      /\ \A i, j \in DOMAIN r : SamePlace(r[i], r[j]) => i = j
  BY DEF Table
<1>2. IsFiniteSet(ids)
  BY <1>1, IntervalIsFinite, PartOfFinite
<1>3. Rows(r, include) = {row[i] : i \in ids}
  BY DEF Rows
<1>4. row \in Surjection(ids, Rows(r, include))
  BY <1>3 DEF Surjection
<1>5. IsFiniteSet(Rows(r, include))
  BY <1>2, <1>4, FS_Surjection
<1>6. \A i \in ids : row[i] \in Row /\ SamePlace(row[i], r[i])
  <2> SUFFICES ASSUME NEW i \in ids PROVE row[i] \in Row /\ SamePlace(row[i], r[i])
    OBVIOUS
  <2>1. i \in Nat /\ r[i] \in Record
    BY <1>1
  <2>2. row[i] = [id |-> i, demand |-> r[i].demand, status |-> r[i].status,
                  stamp |-> r[i].stamp]
    BY DEF RowOf
  <2> QED
    BY <2>1, <2>2 DEF Row, Record, SamePlace
<1>7. \A a, b \in Rows(r, include) : SamePlace(a, b) => a = b
  <2>1. ids \subseteq DOMAIN r
    OBVIOUS
  <2> HIDE DEF ids, row
  <2> QED
    BY <1>1, <1>3, <1>6, <2>1 DEF SamePlace
<1>8. Rows(r, include) \in SUBSET Row
  <2> HIDE DEF ids, row
  <2> QED
    BY <1>3, <1>6
<1> QED
  BY <1>5, <1>7, <1>8

(* The first of them are listed, and all of them when there is room.       *)
LEMMA ListedRows ==
  ASSUME NEW r \in Table, NEW include, NEW limit \in Nat \ {0}
  PROVE  /\ Listed(r, include, limit) \in Seq(Row)
         /\ Range(Listed(r, include, limit)) \subseteq Rows(r, include)
         /\ \/ Range(Listed(r, include, limit)) = Rows(r, include)
            \/ /\ Len(Listed(r, include, limit)) = limit
               /\ \A x \in Rows(r, include) \ Range(Listed(r, include, limit)) :
                    \A y \in Range(Listed(r, include, limit)) : RowBefore(y, x)
<1> DEFINE R == Rows(r, include)
           ordered == CHOOSE s \in [1 .. Cardinality(R) -> R] : InOrder(R, s)
           listed == Listed(r, include, limit)
<1>1. Cardinality(R) \in Nat
  BY RowsAreRows, FS_CardinalityType
<1>2. \E s \in [1 .. Cardinality(R) -> R] : InOrder(R, s)
  BY RowsAreRows, OrderExists
<1>3. ordered \in [1 .. Cardinality(R) -> R] /\ InOrder(R, ordered)
  BY <1>2
<1>4. R \subseteq Row
  BY RowsAreRows
<1>5. listed = IF Len(ordered) > limit THEN SubSeq(ordered, 1, limit) ELSE ordered
  BY DEF Listed
<1> HIDE DEF R, ordered, listed
<1>6. ordered \in Seq(R) /\ Range(ordered) = R
  BY <1>1, <1>3 DEF InOrder
<1>7. CASE Len(ordered) > limit
  <2>1. /\ listed \in Seq(R)
        /\ Len(listed) = limit
    BY <1>5, <1>6, <1>7
  <2>2. Range(listed) \subseteq R
    BY <2>1 DEF Range
  <2>3. listed \in Seq(Row)
    BY <1>4, <2>1
  <2>4. \A i \in 1 .. limit : i \in DOMAIN ordered /\ listed[i] = ordered[i]
    BY <1>5, <1>6, <1>7
  <2>5. ASSUME NEW x \in R \ Range(listed), NEW y \in Range(listed) PROVE RowBefore(y, x)
    <3>1. PICK i \in 1 .. limit : y = listed[i]
      BY <2>1 DEF Range
    <3>2. PICK j \in DOMAIN ordered : x = ordered[j]
      BY <1>6 DEF Range
    <3>3. j \notin 1 .. limit
      BY <2>1, <2>4, <3>2 DEF Range
    <3>4. i < j
      BY <1>6, <3>1, <3>2, <3>3
    <3> QED
      BY <1>3, <2>4, <3>1, <3>2, <3>4 DEF InOrder
  <2> QED
    BY <2>1, <2>2, <2>3, <2>5 DEF R, listed
<1>8. CASE ~(Len(ordered) > limit)
  <2>1. listed = ordered
    BY <1>5, <1>8
  <2>2. listed \in Seq(Row)
    BY <1>4, <1>6, <2>1
  <2> QED
    BY <1>6, <2>1, <2>2 DEF R, listed
<1> QED
  BY <1>7, <1>8

-----------------------------------------------------------------------------
(* The store.                                                              *)

(* What the records may become: more, and no decision is rewritten.        *)
Later(r, s) ==
  /\ DOMAIN r \subseteq DOMAIN s
  /\ \A i \in DOMAIN r : /\ SamePlace(s[i], r[i])
                         /\ r[i].status # "active" => s[i] = r[i]

LEMMA ApprovalIsLater ==
  ASSUME NEW r \in Table, NEW d \in Nat, NEW stamp \in Unused(r, d, Nat)
  PROVE  /\ WithApproval(r, d, stamp) \in Table
         /\ Later(r, WithApproval(r, d, stamp))
         /\ Len(WithApproval(r, d, stamp)) = Len(r) + 1
         /\ WithApproval(r, d, stamp)[Len(r) + 1] = Active(d, stamp)
<1> DEFINE s == [i \in DOMAIN r |->
                   IF r[i].demand = d /\ r[i].status = "active"
                     THEN [r[i] EXCEPT !.status = "superseded"] ELSE r[i]]
           n == Len(r) + 1
           t == Append(s, Active(d, stamp))
<1>1. /\ r \in Seq(Record)
      /\ DOMAIN r = 1 .. Len(r) /\ Len(r) \in Nat /\ \A i \in DOMAIN r : r[i] \in Record
      /\ \A i, j \in DOMAIN r : SamePlace(r[i], r[j]) => i = j
  BY DEF Table
<1>2. \A i \in DOMAIN r : /\ s[i] \in Record /\ SamePlace(s[i], r[i])
                          /\ r[i].status # "active" => s[i] = r[i]
  BY <1>1 DEF Record, SamePlace
<1>3. s \in Seq(Record) /\ Len(s) = Len(r) /\ DOMAIN s = DOMAIN r
  BY <1>1, <1>2
<1>4. Active(d, stamp) \in Record
  BY DEF Active, Record, Unused
<1>5. WithApproval(r, d, stamp) = t
  BY DEF WithApproval
<1>6. \A i \in DOMAIN r : ~SamePlace(r[i], Active(d, stamp))
  BY DEF Unused, Active, SamePlace
<1> HIDE DEF s
<1>7. /\ t \in Seq(Record)
      /\ Len(t) = n
      /\ t[n] = Active(d, stamp)
      /\ \A i \in 1 .. Len(r) : t[i] = s[i]
      /\ DOMAIN t = DOMAIN r \cup {n} /\ n \notin DOMAIN r
  BY <1>1, <1>3, <1>4
<1> HIDE DEF t, n
<1>8. \A i, j \in DOMAIN t : SamePlace(t[i], t[j]) => i = j
  BY <1>1, <1>2, <1>6, <1>7 DEF SamePlace
<1>9. t \in Table /\ Later(r, t)
  BY <1>1, <1>2, <1>7, <1>8 DEF Table, Later
<1> QED
  BY <1>5, <1>7, <1>9 DEF n

LEMMA RevocationIsLater ==
  ASSUME NEW r \in Table, NEW i, Revocable(r, i)
  PROVE  /\ WithRevocation(r, i) \in Table
         /\ Later(r, WithRevocation(r, i))
         /\ i \in DOMAIN WithRevocation(r, i)
         /\ WithRevocation(r, i)[i].status = "revoked"
<1> DEFINE s == WithRevocation(r, i)
<1>1. /\ r \in Seq(Record)
      /\ DOMAIN r = 1 .. Len(r) /\ Len(r) \in Nat /\ \A k \in DOMAIN r : r[k] \in Record
      /\ \A k, l \in DOMAIN r : SamePlace(r[k], r[l]) => k = l
  BY DEF Table
<1>2. i \in DOMAIN r /\ r[i].status = "active"
  BY DEF Revocable
<1>3. DOMAIN s = DOMAIN r /\ \A k \in DOMAIN r : k # i => s[k] = r[k]
  BY DEF WithRevocation
<1>4. s[i] = [r[i] EXCEPT !.status = "revoked"]
  BY <1>2 DEF WithRevocation
<1>5. s[i] \in Record /\ s[i].status = "revoked" /\ SamePlace(s[i], r[i])
  BY <1>1, <1>2, <1>4 DEF Record, SamePlace
<1>6. s = [k \in 1 .. Len(r) |-> s[k]]
  BY <1>1 DEF WithRevocation
<1>7. \A k \in 1 .. Len(r) : s[k] \in Record
  BY <1>1, <1>2, <1>3, <1>5
<1> HIDE DEF s
<1>8. s \in Seq(Record)
  BY <1>1, <1>6, <1>7
<1>9. \A k \in DOMAIN r : SamePlace(s[k], r[k])
  BY <1>3, <1>5 DEF SamePlace
<1>10. s \in Table
  BY <1>1, <1>3, <1>8, <1>9 DEF Table, SamePlace
<1> QED
  BY <1>2, <1>3, <1>5, <1>9, <1>10 DEF Later, s

(* What is said of a decision, and whether it is so.                       *)
Said == [kind : {"approved", "revoked"}, id : Nat]

Done(say) ==
  /\ say.id \in DOMAIN records
  /\ say.kind = "revoked" => records[say.id].status = "revoked"

(* The rows show what was decided, or what has become of it since.         *)
Shows(rows, say, limit) ==
  /\ say.kind = "approved" => Reflects(rows, limit, records, say.id)
  /\ say.kind = "revoked" => \A row \in Range(rows) : row.id = say.id => row.status = "revoked"

(* What a list says of a record.                                           *)
LEMMA ListSays ==
  ASSUME NEW r \in Table, NEW include, NEW limit \in Nat \ {0}, NEW i \in DOMAIN r
  PROVE  LET listed == Listed(r, include, limit)
         IN  /\ Reflects(listed, limit, r, i)
             /\ \A row \in Range(listed) : row.id = i => row.status = r[i].status
<1> DEFINE listed == Listed(r, include, limit)
           own == RowOf(r, i)
<1>1. \A row \in Rows(r, include) : row.id = i => row.status = r[i].status
  BY DEF Rows, RowOf
<1>2. \A row \in Range(listed) : row.id = i => row.status = r[i].status
  BY <1>1, ListedRows
<1>3. ASSUME r[i].status = "active", \A row \in Range(listed) : row.id # i
      PROVE  /\ Len(listed) = limit
             /\ \A row \in Range(listed) : RowBefore(row, r[i])
  <2>1. own \in Rows(r, include)
    BY <1>3 DEF Rows
  <2>2. own.id = i /\ own.demand = r[i].demand /\ own.stamp = r[i].stamp
    BY DEF RowOf
  <2> HIDE DEF own
  <2>3. own \in Rows(r, include) \ Range(listed)
    BY <1>3, <2>1, <2>2
  <2>4. Len(listed) = limit /\ \A row \in Range(listed) : RowBefore(row, own)
    BY <2>3, ListedRows
  <2> QED
    BY <2>2, <2>4 DEF RowBefore
<1> QED
  BY <1>2, <1>3 DEF Reflects

(* What a list reflects it reflects for good.                              *)
LEMMA ReflectedStays ==
  ASSUME NEW r, NEW s, Later(r, s), NEW i \in DOMAIN r, NEW rows, NEW limit,
         Reflects(rows, limit, r, i)
  PROVE  Reflects(rows, limit, s, i)
<1>1. s[i].demand = r[i].demand /\ s[i].stamp = r[i].stamp
  BY DEF Later, SamePlace
<1>2. r[i].status # "active" => s[i].status # "active"
  BY DEF Later
<1> QED
  BY <1>1, <1>2 DEF Reflects, RowBefore

(* What is so, and what is shown, stays so.                                *)
LEMMA SaidStays ==
  ASSUME NEW say, Done(say), records' = records \/ Later(records, records')
  PROVE  /\ Done(say)'
         /\ \A rows, limit : Shows(rows, say, limit) => Shows(rows, say, limit)'
<1>1. Done(say)'
  BY DEF Done, Later
<1>2. \A rows, limit : Shows(rows, say, limit) => Shows(rows, say, limit)'
  BY ReflectedStays DEF Done, Shows
<1> QED
  BY <1>1, <1>2

(* Rows read after a decision show it.                                     *)
LEMMA ListedShows ==
  ASSUME records \in Table, NEW include, NEW limit \in Nat \ {0}, NEW say, Done(say)
  PROVE  Shows(Listed(records, include, limit), say, limit)
BY ListSays DEF Done, Shows

(* A row has the place of its record, whatever happened since.             *)
Named(rows) ==
  /\ rows \in Seq(Row)
  /\ \A k \in DOMAIN rows : /\ rows[k].id \in DOMAIN records
                            /\ SamePlace(rows[k], records[rows[k].id])

LEMMA ListedNamed ==
  ASSUME records \in Table, NEW include, NEW limit \in Nat \ {0}
  PROVE  Named(Listed(records, include, limit))
<1> DEFINE listed == Listed(records, include, limit)
<1>1. listed \in Seq(Row) /\ Range(listed) \subseteq Rows(records, include)
  BY ListedRows
<1>2. ASSUME NEW k \in DOMAIN listed
      PROVE  listed[k].id \in DOMAIN records /\ SamePlace(listed[k], records[listed[k].id])
  <2>1. listed[k] \in Rows(records, include)
    BY <1>1 DEF Range
  <2> HIDE DEF listed
  <2> QED
    BY <2>1 DEF Rows, RowOf, SamePlace
<1> QED
  BY <1>1, <1>2 DEF Named

LEMMA NamedStays ==
  ASSUME NEW rows, Named(rows), records' = records \/ Later(records, records')
  PROVE  Named(rows)'
BY DEF Named, Later, SamePlace

-----------------------------------------------------------------------------
(* The terminal.                                                           *)

(* The form of a revocation is of an active row, and its second call is    *)
(* made while it is open.                                                  *)
RevokeInv ==
  /\ screen = "revoke" => HasSelection /\ Selected.status = "active"
  /\ Calls("apply") => screen = "revoke"

(* A reload that will end with the message of a decision comes after the   *)
(* decision, and what it has read was read after it.                       *)
ReloadInv ==
  /\ Calls("list") \/ Calls("status") =>
       /\ screen = "list"
       /\ pending.say # Nil => pending.say \in Said /\ Done(pending.say)
  /\ Calls("status") =>
       /\ Named(pending.rows)
       /\ pending.say # Nil => Shows(pending.rows, pending.say, ListLimit)

TerminalInv == records \in Table /\ Named(list) /\ RevokeInv /\ ReloadInv

(* Steps that touch neither the store nor the list, make no second call    *)
(* and open no form of a revocation.                                       *)
Quiet ==
  \/ OpenView \/ OpenApprove \/ OpenLookup \/ Leave \/ Quit \/ Type \/ SubmitLookup
  \/ AbandonLookup \/ ChooseOffer
  \/ \E n \in 1 .. MaxLookups : LookupEnds(n)
  \/ Refuse /\ pending = Nil

LEMMA QuietStep ==
  ASSUME Quiet
  PROVE  /\ UNCHANGED <<records, list, cursor>>
         /\ pending = Nil /\ pending' = Nil
         /\ screen' = screen \/ screen' # "revoke"
         /\ message' = message \/ message'.kind \in {"none", "error"}
<1> USE DEF Failure, NoMessage, Message, listVars, lookupVars, Goto, At
<1>1. CASE OpenView \/ OpenApprove \/ OpenLookup \/ Leave \/ Quit
  BY <1>1 DEF OpenView, OpenApprove, OpenLookup, Leave, Quit, OpenForm, BackToList
<1>2. CASE Type \/ SubmitLookup \/ AbandonLookup \/ ChooseOffer
  BY <1>2 DEF Type, SubmitLookup, AbandonLookup, ChooseOffer, OpenForm, Refuse
<1>3. CASE \E n \in 1 .. MaxLookups : LookupEnds(n)
  BY <1>3 DEF LookupEnds, LookupFailed, LookupAnswered
<1>4. CASE Refuse /\ pending = Nil
  BY <1>4 DEF Refuse
<1> QED
  BY <1>1, <1>2, <1>3, <1>4 DEF Quiet

LEMMA NextCases ==
  ASSUME Next
  PROVE  \/ Quiet \/ MoveCursor \/ ToggleInactive \/ OpenRevoke \/ Others
         \/ SubmitApprove /\ ~Refuse
         \/ PreviewRevoke /\ ~Refuse
         \/ ApplyRevoke \/ ReadRows \/ ShowRows
BY DEF Next, Key, Quiet, SubmitApprove, PreviewRevoke, At

(* What others do to the store.                                            *)
LEMMA OthersAreLater ==
  ASSUME InterfacesAssumption, records \in Table, Others
  PROVE  records' \in Table /\ Later(records, records')
<1>1. ASSUME NEW d \in Demands, NEW s \in Unused(records, d, Stamps),
             records' = WithApproval(records, d, s)
      PROVE  records' \in Table /\ Later(records, records')
  <2>1. d \in Nat /\ s \in Unused(records, d, Nat)
    BY DEF InterfacesAssumption, Unused
  <2> QED
    BY <1>1, <2>1, ApprovalIsLater
<1>2. ASSUME NEW i \in DOMAIN records, Revocable(records, i),
             records' = WithRevocation(records, i)
      PROVE  records' \in Table /\ Later(records, records')
  BY <1>2, RevocationIsLater
<1> QED
  BY <1>1, <1>2 DEF Others

(* The approval of a form.                                                 *)
LEMMA ApprovalStep ==
  ASSUME InterfacesAssumption, LookupType, records \in Table, SubmitApprove, ~Refuse
  PROVE  /\ form.demand \in Nat
         /\ \E s \in Unused(records, form.demand, Nat) :
              records' = WithApproval(records, form.demand, s)
         /\ records' \in Table
         /\ Later(records, records')
         /\ Len(records') \in DOMAIN records'
         /\ Len(records') \in Nat
<1>1. PICK s \in Unused(records, form.demand, Stamps) :
        records' = WithApproval(records, form.demand, s)
  BY DEF SubmitApprove
<1>2. form.demand \in Nat
  BY DEF SubmitApprove, LookupType, InterfacesAssumption
<1>3. s \in Unused(records, form.demand, Nat)
  BY DEF InterfacesAssumption, Unused
<1>4. records' \in Table /\ Later(records, records') /\ Len(records') = Len(records) + 1
  BY <1>1, <1>2, <1>3, ApprovalIsLater
<1>5. Len(records) \in Nat /\ records' \in Seq(Record)
  BY <1>4 DEF Table
<1> QED
  BY <1>1, <1>2, <1>3, <1>4, <1>5

LEMMA TerminalStep ==
  ASSUME InterfacesAssumption, LookupType, TerminalInv, Next
  PROVE  TerminalInv'
<1> USE DEF TerminalInv
<1>1. CASE Quiet
  <2>1. Named(list)'
    BY <1>1, QuietStep, NamedStays
  <2>2. RevokeInv'
    BY <1>1, QuietStep DEF RevokeInv, HasSelection, Selected, Calls
  <2>3. ReloadInv'
    BY <1>1, QuietStep DEF ReloadInv, Calls
  <2> QED
    BY <1>1, <2>1, <2>2, <2>3, QuietStep
<1>2. CASE MoveCursor
  <2>1. Named(list)' /\ UNCHANGED <<records, screen, pending>> /\ At("list")
    BY <1>2, NamedStays DEF MoveCursor
  <2> QED
    BY <2>1 DEF RevokeInv, ReloadInv, At, Calls
<1>3. CASE ToggleInactive
  <2>1. /\ UNCHANGED <<records, screen, list>> /\ At("list")
        /\ pending' = List(Nil)
    BY <1>3 DEF ToggleInactive
  <2>2. Named(list)'
    BY <2>1, NamedStays
  <2> QED
    BY <2>1, <2>2 DEF RevokeInv, ReloadInv, At, Calls, List
<1>4. CASE OpenRevoke
  <2>1. Named(list)' /\ UNCHANGED <<records, list, cursor, pending>> /\ pending = Nil
    BY <1>4, NamedStays DEF OpenRevoke, listVars, At
  <2> QED
    BY <1>4, <2>1
       DEF OpenRevoke, RevokeInv, ReloadInv, HasSelection, Selected, OpenForm, Goto, Calls
<1>5. CASE Others
  <2>1. records' \in Table /\ Later(records, records')
    BY <1>5, OthersAreLater
  <2>2. UNCHANGED <<screen, list, cursor, pending>>
    BY <1>5 DEF Others, listVars
  <2>3. Named(list)'
    BY <2>1, <2>2, NamedStays
  <2>4. RevokeInv'
    BY <2>2 DEF RevokeInv, HasSelection, Selected, Calls
  <2>5. ReloadInv'
    BY <2>1, <2>2, NamedStays, SaidStays DEF ReloadInv, Calls
  <2> QED
    BY <2>1, <2>3, <2>4, <2>5
<1>6. CASE SubmitApprove /\ ~Refuse
  <2>1. /\ UNCHANGED list
        /\ screen' = "list"
        /\ pending' = List(Message("approved", Len(records')))
    BY <1>6 DEF SubmitApprove, BackToList, Goto, listVars
  <2>2. PICK n \in Nat : /\ records' \in Table /\ Later(records, records')
                         /\ n \in DOMAIN records' /\ n = Len(records')
    BY <1>6, ApprovalStep
  <2>3. Named(list)'
    BY <2>1, <2>2, NamedStays
  <2>4. Message("approved", n) \in Said
    BY <2>2 DEF Message, Said
  <2>5. Done(Message("approved", n))'
    BY <2>2 DEF Done, Message
  <2>6. pending'.say = Message("approved", n) /\ pending'.call = "list"
    BY <2>1, <2>2 DEF List
  <2> QED
    BY <2>1, <2>2, <2>3, <2>4, <2>5, <2>6 DEF RevokeInv, ReloadInv, Calls
<1>7. CASE PreviewRevoke /\ ~Refuse
  <2>1. /\ At("revoke")
        /\ UNCHANGED <<records, screen, list, cursor>>
        /\ pending' = Apply(Selected.id)
    BY <1>7 DEF PreviewRevoke, listVars
  <2>2. Named(list)'
    BY <2>1, NamedStays
  <2> QED
    BY <2>1, <2>2 DEF RevokeInv, ReloadInv, HasSelection, Selected, At, Calls, Apply
<1>8. CASE ApplyRevoke
  <2>1. UNCHANGED <<list, cursor>> /\ Calls("apply")
    BY <1>8 DEF ApplyRevoke, listVars
  <2>2. CASE CallFails /\ UNCHANGED <<records, screen>>
    <3>1. Named(list)' /\ pending' = Nil
      BY <2>1, <2>2, NamedStays DEF CallFails
    <3> QED
      BY <2>1, <2>2, <3>1 DEF RevokeInv, ReloadInv, HasSelection, Selected, Calls
  <2>3. CASE ~(CallFails /\ UNCHANGED <<records, screen>>)
    <3>1. /\ Revocable(records, Selected.id)
          /\ records' = WithRevocation(records, Selected.id)
          /\ screen' = "list"
          /\ pending' = List(Message("revoked", Selected.id))
      BY <1>8, <2>3 DEF ApplyRevoke, BackToList, Goto
    <3>2. /\ records' \in Table /\ Later(records, records')
          /\ Selected.id \in DOMAIN records'
          /\ records'[Selected.id].status = "revoked"
      BY <3>1, RevocationIsLater
    <3>3. Selected.id \in Nat
      BY <3>1 DEF Revocable, Table
    <3>4. Message("revoked", Selected.id) \in Said
      BY <3>3 DEF Message, Said
    <3>5. Done(Message("revoked", Selected.id))'
      BY <2>1, <3>2 DEF Done, Message, Selected
    <3>6. Named(list)'
      BY <2>1, <3>2, NamedStays
    <3>7. pending'.say = Message("revoked", Selected.id) /\ pending'.call = "list"
      BY <3>1 DEF List
    <3> QED
      BY <2>1, <3>1, <3>2, <3>4, <3>5, <3>6, <3>7 DEF RevokeInv, ReloadInv, Calls, Selected
  <2> QED
    BY <2>2, <2>3
<1>9. CASE ReadRows
  <2>1. Calls("list") /\ UNCHANGED <<records, screen, list, cursor>>
    BY <1>9 DEF ReadRows, listVars
  <2>2. Named(list)' /\ screen = "list"
    BY <2>1, NamedStays DEF ReloadInv
  <2>3. CASE pending' = Nil
    BY <2>1, <2>2, <2>3 DEF RevokeInv, ReloadInv, Calls
  <2>4. CASE pending' = StoreStatus(pending.say, Listed(records, inactive, ListLimit))
    <3> DEFINE rows == Listed(records, inactive, ListLimit)
    <3>1. ListLimit \in Nat \ {0}
      BY DEF InterfacesAssumption
    <3>2. Named(rows)
      BY <3>1, ListedNamed
    <3>3. pending.say # Nil =>
            pending.say \in Said /\ Done(pending.say) /\ Shows(rows, pending.say, ListLimit)
      BY <2>1, <3>1, ListedShows DEF ReloadInv
    <3>4. /\ pending'.call = "status" /\ pending'.say = pending.say
          /\ pending'.rows = rows
      BY <2>4 DEF StoreStatus
    <3> HIDE DEF rows
    <3>5. Named(pending.rows)'
      BY <2>1, <3>2, <3>4 DEF Named
    <3>6. (pending.say # Nil => /\ pending.say \in Said /\ Done(pending.say)
                                /\ Shows(pending.rows, pending.say, ListLimit))'
      BY <2>1, <3>3, <3>4 DEF Done, Shows
    <3> QED
      BY <2>1, <2>2, <3>4, <3>5, <3>6 DEF RevokeInv, ReloadInv, Calls
  <2> QED
    BY <1>9, <2>3, <2>4 DEF ReadRows, CallFails
<1>10. CASE ShowRows
  <2>1. Calls("status") /\ UNCHANGED <<records, screen>> /\ pending' = Nil
    BY <1>10 DEF ShowRows, CallFails
  <2>2. screen = "list" /\ Named(pending.rows)
    BY <2>1 DEF ReloadInv
  <2>3. list' = list \/ list' = pending.rows
    BY <1>10 DEF ShowRows
  <2>4. Named(list)'
    BY <2>1, <2>2, <2>3 DEF Named
  <2> QED
    BY <2>1, <2>2, <2>4 DEF RevokeInv, ReloadInv, Calls
<1> QED
  BY <1>1, <1>2, <1>3, <1>4, <1>5, <1>6, <1>7, <1>8, <1>9, <1>10, NextCases

(* Nothing but the second call of a revocation ends one.                   *)
LEMMA TerminalRevokes ==
  ASSUME TerminalInv, Next
  PROVE  RetiresTheRowShown
<1> SUFFICES ASSUME Calls("apply"), pending' # pending, records' # records
             PROVE  /\ Selected.status = "active"
                    /\ records[Selected.id] = Active(Selected.demand, Selected.stamp)
                    /\ records' = WithRevocation(records, Selected.id)
  BY DEF RetiresTheRowShown
<1>1. ApplyRevoke
  BY NextCases, QuietStep
     DEF MoveCursor, ToggleInactive, OpenRevoke, Others, SubmitApprove, PreviewRevoke, At,
         ReadRows, ShowRows, Calls
<1>2. HasSelection /\ Selected.status = "active"
  BY DEF TerminalInv, RevokeInv
<1>3. Revocable(records, Selected.id) /\ records' = WithRevocation(records, Selected.id)
  BY <1>1 DEF ApplyRevoke
<1>4. records[Selected.id] \in Record /\ records[Selected.id].status = "active"
  BY <1>3 DEF Revocable, TerminalInv, Table
<1>5. SamePlace(Selected, records[Selected.id])
  BY <1>2 DEF TerminalInv, Named, HasSelection, Selected
<1>6. records[Selected.id] = Active(Selected.demand, Selected.stamp)
  BY <1>4, <1>5 DEF Record, Active, SamePlace
<1> QED
  BY <1>2, <1>3, <1>6

(* Nothing but the end of a reload announces a decision.                   *)
LEMMA TerminalSays ==
  ASSUME TerminalInv, Next
  PROVE  SaysWhatTheListShows
<1> SUFFICES ASSUME message' # message, message'.kind \in {"approved", "revoked"}
             PROVE  /\ message'.kind = "approved" =>
                         Reflects(list', ListLimit, records', message'.id)
                    /\ message'.kind = "revoked" =>
                         \A row \in Range(list') : row.id = message'.id => row.status = "revoked"
  BY DEF SaysWhatTheListShows
<1>1. /\ Calls("status") /\ pending.say # Nil
      /\ message' = pending.say /\ list' = pending.rows
      /\ UNCHANGED records
  <2>1. ~Quiet
    BY QuietStep
  <2>2. ~(MoveCursor \/ ToggleInactive \/ OpenRevoke \/ Others)
    BY DEF MoveCursor, ToggleInactive, OpenRevoke, Others, OpenForm, NoMessage, Message
  <2>3. ~(SubmitApprove /\ ~Refuse) /\ ~(PreviewRevoke /\ ~Refuse)
    BY DEF SubmitApprove, PreviewRevoke
  <2>4. ~CallFails
    BY DEF CallFails, Failure, Message
  <2>5. ~ApplyRevoke /\ ~ReadRows
    BY <2>4 DEF ApplyRevoke, ReadRows
  <2>6. ShowRows
    BY <2>1, <2>2, <2>3, <2>5, NextCases
  <2> QED
    BY <2>4, <2>6 DEF ShowRows
<1>2. Shows(pending.rows, pending.say, ListLimit)
  BY <1>1 DEF TerminalInv, ReloadInv
<1> QED
  BY <1>1, <1>2 DEF Shows

-----------------------------------------------------------------------------
(* The page.                                                               *)

LEMMA PageTable ==
  /\ \A r, include, limit : Page!Listed(r, include, limit) = Listed(r, include, limit)
  /\ \A r, d, stamp : Page!WithApproval(r, d, stamp) = WithApproval(r, d, stamp)
  /\ \A r, d, stamps : Page!Unused(r, d, stamps) = Unused(r, d, stamps)
  /\ \A r, i : Page!WithRevocation(r, i) = WithRevocation(r, i)
  /\ \A r, i : Page!Revocable(r, i) = Revocable(r, i)
  /\ \A s : Page!Range(s) = Range(s)
  /\ \A rows, limit, r, i : Page!Reflects(rows, limit, r, i) = Reflects(rows, limit, r, i)
<1>1. \A s : Page!Range(s) = Range(s)
  BY DEF Page!Range, Range
<1>2. \A r, include : Page!Rows(r, include) = Rows(r, include)
  BY DEF Page!Rows, Rows, Page!RowOf, RowOf
<1>3. \A rows, s : Page!InOrder(rows, s) = InOrder(rows, s)
  BY <1>1 DEF Page!InOrder, InOrder, Page!RowBefore, RowBefore
<1>4. \A r, include, limit : Page!Listed(r, include, limit) = Listed(r, include, limit)
  <2>1. \A S : Page!Cardinality(S) = Cardinality(S)
    BY DEF Page!Cardinality, Cardinality, Page!IsFiniteSet, IsFiniteSet
  <2> SUFFICES ASSUME NEW r, NEW include, NEW limit
               PROVE  Page!Listed(r, include, limit) = Listed(r, include, limit)
    OBVIOUS
  <2> DEFINE ordered == CHOOSE s \in [1 .. Cardinality(Rows(r, include)) -> Rows(r, include)] :
                          InOrder(Rows(r, include), s)
             pages == CHOOSE s \in [1 .. Page!Cardinality(Page!Rows(r, include))
                                       -> Page!Rows(r, include)] :
                        Page!InOrder(Page!Rows(r, include), s)
  <2>2. pages = ordered
    BY <2>1 DEF Page!Rows, Rows, Page!RowOf, RowOf, Page!InOrder, InOrder, Page!RowBefore, RowBefore, Page!Range,
                Range
  <2>3. /\ Listed(r, include, limit)
             = IF Len(ordered) > limit THEN SubSeq(ordered, 1, limit) ELSE ordered
        /\ Page!Listed(r, include, limit)
             = IF Len(pages) > limit THEN SubSeq(pages, 1, limit) ELSE pages
    BY DEF Listed, Page!Listed
  <2> HIDE DEF ordered, pages
  <2> QED
    BY <2>2, <2>3
<1>5. \A r, d, stamp : Page!WithApproval(r, d, stamp) = WithApproval(r, d, stamp)
  BY DEF Page!WithApproval, WithApproval, Page!Active, Active
<1>9. \A r, d, stamps : Page!Unused(r, d, stamps) = Unused(r, d, stamps)
  BY DEF Page!Unused, Unused
<1>6. \A r, i : Page!WithRevocation(r, i) = WithRevocation(r, i)
  BY DEF Page!WithRevocation, WithRevocation
<1>7. \A r, i : Page!Revocable(r, i) = Revocable(r, i)
  BY DEF Page!Revocable, Revocable
<1>8. \A rows, limit, r, i : Page!Reflects(rows, limit, r, i) = Reflects(rows, limit, r, i)
  BY <1>1 DEF Page!Reflects, Reflects, Page!RowBefore, RowBefore
<1> QED
  BY <1>1, <1>4, <1>5, <1>6, <1>7, <1>8, <1>9

Task == [n : Nat, at : {"list", "approve", "revoke"},
         arg : {Nil} \cup Nat \cup [id : Nat, token : Nat \cup {Nil}],
         say : {Nil} \cup Said, state : {"sent", "served"},
         answer : {Nil} \cup Nat \cup Seq(Row)]

(* What an operation under way knows: of a decision that was served, that  *)
(* it was made; of a list that will end it, that it was read after that.   *)
TaskInv(t) ==
  /\ t \in Task
  /\ t.at # "list" => t.say = Nil
  /\ t.at = "approve" => t.arg \in Nat
  /\ t.at = "revoke" => t.arg \in [id : Nat, token : Nat \cup {Nil}]
  /\ t.say # Nil => Done(t.say)
  /\ t.state = "served" =>
       CASE t.at = "approve" -> t.answer \in DOMAIN records
         [] t.at = "revoke"  -> /\ t.answer \in Nat
                                /\ t.arg.token # Nil => Done(Message("revoked", t.answer))
         [] t.at = "list"    -> /\ t.answer \in Seq(Row)
                                /\ t.say # Nil => Shows(t.answer, t.say, PageLimit)

PageInv ==
  /\ records \in Table
  /\ list \in Seq(Row)
  /\ selected \in {Nil} \cup Row
  /\ revokeToken \in {Nil} \cup Nat
  /\ \A t \in tasks : TaskInv(t)

LEMMA TaskStays ==
  ASSUME records \in Table, NEW t, TaskInv(t),
         records' = records \/ Later(records, records')
  PROVE  TaskInv(t)'
<1>1. \A say : Done(say) => /\ Done(say)'
                           /\ \A rows : Shows(rows, say, PageLimit) => Shows(rows, say, PageLimit)'
  BY SaidStays
<1>2. DOMAIN records \subseteq DOMAIN records'
  BY DEF Later
<1>3. t \in Task /\ t.at \in {"list", "approve", "revoke"}
  BY DEF TaskInv, Task
<1> QED
  BY <1>1, <1>2, <1>3 DEF TaskInv

(* A task is started, goes on or ends, and the others stay.                *)
LEMMA TasksStay ==
  ASSUME PageInv, records' = records \/ Later(records, records'),
         \A t \in tasks' \ tasks : TaskInv(t)'
  PROVE  \A t \in tasks' : TaskInv(t)'
BY TaskStays DEF PageInv

LEMMA Started ==
  ASSUME InterfacesAssumption, PageInv, NEW at \in {"list", "approve", "revoke"}, NEW arg,
         arg \in {Nil} \cup Nat \cup [id : Nat, token : Nat \cup {Nil}],
         at = "approve" => arg \in Nat,
         at = "revoke" => arg \in [id : Nat, token : Nat \cup {Nil}],
         Page!Start(at, arg), UNCHANGED records
  PROVE  \A t \in tasks' : TaskInv(t)'
<1>1. PICK n \in 1 .. MaxTasks : tasks' = tasks \cup {Page!Task(n, at, arg, Nil)}
  BY DEF Page!Start
<1>2. n \in Nat
  BY DEF InterfacesAssumption
<1>3. TaskInv(Page!Task(n, at, arg, Nil))'
  BY <1>2 DEF TaskInv, Task, Page!Task
<1> QED
  BY <1>1, <1>3, TasksStay

(* The store's handlers.                                                   *)
LEMMA ServedInv ==
  ASSUME InterfacesAssumption, PageInv, NEW t \in tasks, t.state = "sent",
         Page!HandleApprove(t) \/ Page!HandleRevoke(t) \/ Page!HandleList(t)
  PROVE  /\ records' \in Table
         /\ \A u \in tasks' : TaskInv(u)'
<1> DEFINE Served(answer) == [t EXCEPT !.state = "served", !.answer = answer]
<1>1. TaskInv(t) /\ records \in Table
  BY DEF PageInv
<1>2. t \in Task
  BY <1>1 DEF TaskInv
<1>3. \A answer \in {Nil} \cup Nat \cup Seq(Row) :
        /\ Served(answer) \in Task
        /\ Served(answer).at = t.at /\ Served(answer).arg = t.arg /\ Served(answer).say = t.say
        /\ Served(answer).answer = answer
  BY <1>2 DEF Task
<1>4. CASE Page!HandleApprove(t)
  <2>0. PICK s \in Unused(records, t.arg, Stamps) : records' = WithApproval(records, t.arg, s)
    BY <1>4, PageTable DEF Page!HandleApprove
  <2>1. /\ t.at = "approve" /\ t.arg \in Nat /\ t.say = Nil
        /\ s \in Unused(records, t.arg, Nat)
        /\ tasks' = (tasks \ {t}) \cup {Served(Len(records'))}
    BY <1>1, <1>4 DEF TaskInv, Page!HandleApprove, Page!Answered, InterfacesAssumption, Unused
  <2>2. /\ records' \in Table
        /\ Later(records, records')
        /\ Len(records') = Len(records) + 1
    BY <1>1, <2>0, <2>1, ApprovalIsLater
  <2>3. Len(records') \in DOMAIN records' /\ Len(records') \in Nat
    BY <1>1, <2>2 DEF Table
  <2>4. PICK u \in Task : /\ u.answer \in DOMAIN records'
                          /\ u.at = "approve" /\ u.arg \in Nat /\ u.say = Nil
                          /\ tasks' = (tasks \ {t}) \cup {u}
    <3> HIDE DEF Served
    <3> QED
      BY <1>3, <2>1, <2>3
  <2>5. TaskInv(u)'
    BY <2>4 DEF TaskInv
  <2> QED
    BY <2>2, <2>4, <2>5, TasksStay
<1>5. CASE Page!HandleRevoke(t)
  <2>1. /\ t.at = "revoke" /\ t.arg \in [id : Nat, token : Nat \cup {Nil}] /\ t.say = Nil
        /\ Revocable(records, t.arg.id)
        /\ \/ t.arg.token = Nil /\ UNCHANGED records
           \/ t.arg.token # Nil /\ records' = WithRevocation(records, t.arg.id)
        /\ tasks' = (tasks \ {t}) \cup {Served(t.arg.id)}
    BY <1>1, <1>5, PageTable DEF TaskInv, Page!HandleRevoke, Page!Answered
  <2>2. /\ records' \in Table
        /\ records' = records \/ Later(records, records')
        /\ t.arg.token # Nil =>
             t.arg.id \in DOMAIN records' /\ records'[t.arg.id].status = "revoked"
    BY <1>1, <2>1, RevocationIsLater
  <2>3. t.arg.id \in Nat
    BY <2>1
  <2>4. t.arg.token # Nil => Done(Message("revoked", t.arg.id))'
    BY <2>2 DEF Done, Message
  <2>5. TaskInv(Served(t.arg.id))'
    <3> HIDE DEF Served
    <3> QED
      BY <1>3, <2>1, <2>3, <2>4 DEF TaskInv
  <2> QED
    BY <2>1, <2>2, <2>5, TasksStay
<1>6. CASE Page!HandleList(t)
  <2>1. PICK include \in BOOLEAN :
          /\ t.at = "list"
          /\ tasks' = (tasks \ {t}) \cup {Served(Listed(records, include, PageLimit))}
          /\ UNCHANGED records
    BY <1>6, PageTable DEF Page!HandleList, Page!Answered
  <2> DEFINE rows == Listed(records, include, PageLimit)
  <2>limit. PageLimit \in Nat \ {0}
    BY DEF InterfacesAssumption
  <2>2. rows \in Seq(Row)
    BY <1>1, <2>limit, ListedRows
  <2>3. t.say # Nil => Done(t.say) /\ Shows(rows, t.say, PageLimit)
    BY <1>1, <2>limit, ListedShows DEF TaskInv
  <2>4. PICK u \in Task : /\ u.at = "list" /\ u.say = t.say /\ u.answer = rows
                          /\ tasks' = (tasks \ {t}) \cup {u}
    <3> HIDE DEF Served
    <3> QED
      BY <1>3, <2>1, <2>2
  <2>5. u.say # Nil => Done(u.say)' /\ Shows(u.answer, u.say, PageLimit)'
    <3> HIDE DEF rows
    <3> QED
      BY <2>1, <2>3, <2>4 DEF Done, Shows
  <2>6. u.answer \in Seq(Row)
    BY <2>2, <2>4
  <2>7. TaskInv(u)'
    BY <2>4, <2>5, <2>6 DEF TaskInv
  <2> QED
    BY <1>1, <2>1, <2>4, <2>7, TasksStay
<1> QED
  BY <1>4, <1>5, <1>6

(* Answers that arrive.                                                    *)
LEMMA ArrivedInv ==
  ASSUME InterfacesAssumption, PageInv, NEW t \in tasks, UNCHANGED records,
         \/ Page!ListArrives(t) \/ Page!ApprovalArrives(t)
         \/ Page!RevocationArrives(t) \/ Page!FailureArrives(t)
  PROVE  PageInv'
<1>1. TaskInv(t) /\ records \in Table /\ t \in Task
  BY DEF PageInv, TaskInv
<1>2. ASSUME NEW say \in Said, Done(say) PROVE TaskInv(Page!Task(t.n, "list", Nil, say))'
  <2>1. t.n \in Nat /\ say # Nil
    BY <1>1 DEF Task, Said, InterfacesAssumption
  <2>2. Done(say)'
    BY <1>2 DEF Done
  <2> QED
    BY <2>1, <2>2 DEF TaskInv, Task, Page!Task
<1>3. ASSUME Page!Ended(t) PROVE \A u \in tasks' : TaskInv(u)'
  BY <1>3, TasksStay DEF Page!Ended
<1>4. CASE Page!ListArrives(t)
  <2>1. list' \in Seq(Row)
    BY <1>1, <1>4 DEF TaskInv, Page!ListArrives
  <2> QED
    BY <1>3, <1>4, <2>1 DEF PageInv, Page!ListArrives, Page!detailVars
<1>5. CASE Page!ApprovalArrives(t)
  <2> DEFINE say == Message("approved", t.answer)
  <2>1. say \in Said /\ Done(say)
    <3>1. t.answer \in DOMAIN records
      BY <1>1, <1>5 DEF TaskInv, Page!ApprovalArrives
    <3>2. t.answer \in Nat
      BY <1>1, <3>1 DEF Table
    <3> QED
      BY <3>1, <3>2 DEF Message, Said, Done
  <2>2. tasks' = (tasks \ {t}) \cup {Page!Task(t.n, "list", Nil, say)}
    BY <1>5 DEF Page!ApprovalArrives, Page!ThenRefresh, Page!Message, Message
  <2>3. \A u \in tasks' : TaskInv(u)'
    <3> HIDE DEF say
    <3> QED
      BY <1>2, <2>1, <2>2, TasksStay
  <2> QED
    BY <1>5, <2>3 DEF PageInv, Page!ApprovalArrives, Page!detailVars
<1>6. CASE Page!RevocationArrives(t)
  <2>1. t.answer \in Nat
    BY <1>1, <1>6 DEF TaskInv, Page!RevocationArrives
  <2>2. CASE t.arg.token = Nil
    <3>1. Page!Ended(t) /\ revokeToken' = t.answer /\ UNCHANGED <<selected, list>>
      BY <1>6, <2>2 DEF Page!RevocationArrives
    <3> QED
      BY <1>3, <2>1, <3>1 DEF PageInv
  <2>3. CASE t.arg.token # Nil
    <3> DEFINE say == Message("revoked", t.answer)
    <3>1. say \in Said /\ Done(say)
      BY <1>1, <1>6, <2>1, <2>3 DEF TaskInv, Page!RevocationArrives, Message, Said
    <3>2. /\ tasks' = (tasks \ {t}) \cup {Page!Task(t.n, "list", Nil, say)}
          /\ revokeToken' = Nil /\ selected' = Nil /\ UNCHANGED list
      BY <1>6, <2>3 DEF Page!RevocationArrives, Page!ThenRefresh, Page!Message, Message
    <3>3. \A u \in tasks' : TaskInv(u)'
      <4> HIDE DEF say
      <4> QED
        BY <1>2, <3>1, <3>2, TasksStay
    <3> QED
      BY <3>2, <3>3 DEF PageInv
  <2> QED
    BY <2>2, <2>3
<1>7. CASE Page!FailureArrives(t)
  BY <1>3, <1>7 DEF PageInv, Page!FailureArrives
<1> QED
  BY <1>4, <1>5, <1>6, <1>7

LEMMA PageStep ==
  ASSUME InterfacesAssumption, PageInv, Page!Next
  PROVE  PageInv'
<1> USE DEF Page!detailVars
<1>1. CASE Page!RefreshTable
  BY <1>1, Started DEF Page!RefreshTable, PageInv
<1>2. CASE Page!ShowDetail
  <2>1. selected' \in Row
    BY <1>2, PageTable DEF Page!ShowDetail, PageInv, Range
  <2> QED
    BY <1>2, <2>1, Started DEF Page!ShowDetail, PageInv
<1>3. CASE Page!SubmitApprove
  <2>1. PICK d \in PageDemands : Page!Start("approve", d)
    BY <1>3 DEF Page!SubmitApprove
  <2>2. d \in Nat
    BY DEF InterfacesAssumption
  <2> QED
    BY <1>3, <2>1, <2>2, Started DEF Page!SubmitApprove, PageInv
<1>4. CASE Page!SubmitRevoke
  <2> DEFINE arg == [id |-> selected.id, token |-> revokeToken]
  <2>1. arg \in [id : Nat, token : Nat \cup {Nil}]
    BY <1>4 DEF Page!SubmitRevoke, PageInv, Row
  <2>2. Page!Start("revoke", arg) /\ UNCHANGED <<records, list, selected, revokeToken>>
    BY <1>4 DEF Page!SubmitRevoke
  <2> HIDE DEF arg
  <2> QED
    BY <2>1, <2>2, Started DEF PageInv
<1>5. CASE \E n \in 1 .. MaxTasks : Page!Serve(n)
  <2>1. PICK t \in tasks :
          /\ t.state = "sent"
          /\ Page!HandleApprove(t) \/ Page!HandleRevoke(t) \/ Page!HandleList(t)
          /\ UNCHANGED <<list, selected, revokeToken>>
    BY <1>5 DEF Page!Serve
  <2> QED
    BY <2>1, ServedInv DEF PageInv
<1>6. CASE \E n \in 1 .. MaxTasks : Page!Arrive(n)
  <2>1. PICK t \in tasks :
          /\ \/ Page!ListArrives(t) \/ Page!ApprovalArrives(t)
             \/ Page!RevocationArrives(t) \/ Page!FailureArrives(t)
          /\ UNCHANGED records
    BY <1>6 DEF Page!Arrive
  <2> QED
    BY <2>1, ArrivedInv
<1>7. CASE Page!Others
  <2>1. records' \in Table /\ Later(records, records')
    <3>1. ASSUME NEW d \in PageDemands, NEW s \in Unused(records, d, Stamps),
                 records' = WithApproval(records, d, s)
          PROVE  records' \in Table /\ Later(records, records')
      <4>1. d \in Nat /\ s \in Unused(records, d, Nat)
        BY DEF InterfacesAssumption, Unused
      <4> QED
        BY <3>1, <4>1, ApprovalIsLater DEF PageInv
    <3>2. CASE \E i \in DOMAIN records :
                 Revocable(records, i) /\ records' = WithRevocation(records, i)
      BY <3>2, RevocationIsLater DEF PageInv
    <3> QED
      BY <1>7, <3>1, <3>2, PageTable DEF Page!Others
  <2>2. UNCHANGED <<list, selected, revokeToken, tasks>>
    BY <1>7 DEF Page!Others
  <2> QED
    BY <2>1, <2>2, TasksStay DEF PageInv
<1> QED
  BY <1>1, <1>2, <1>3, <1>4, <1>5, <1>6, <1>7 DEF Page!Next

(* A request for a revocation that changes the store has been served.      *)
LEMMA PageRevokes ==
  ASSUME PageInv, Page!Next
  PROVE  Page!RetiresWhatWasPreviewed
<1> SUFFICES ASSUME NEW t \in tasks, records' # records, tasks' # tasks, t \notin tasks',
                    t.at = "revoke"
             PROVE  /\ t.arg.token = t.arg.id
                    /\ records[t.arg.id].status = "active"
                    /\ records' = Page!WithRevocation(records, t.arg.id)
  BY DEF Page!RetiresWhatWasPreviewed
<1>1. PICK u \in tasks : Page!HandleApprove(u) \/ Page!HandleRevoke(u) \/ Page!HandleList(u)
  BY DEF Page!Next, Page!RefreshTable, Page!ShowDetail, Page!SubmitApprove, Page!SubmitRevoke,
         Page!Serve, Page!Arrive, Page!Others
<1>2. u = t
  BY <1>1 DEF Page!HandleApprove, Page!HandleRevoke, Page!HandleList, Page!Answered
<1> QED
  BY <1>1, <1>2
     DEF Page!HandleApprove, Page!HandleRevoke, Page!HandleList, Page!TokenFits, Page!Revocable

LEMMA PageSays ==
  ASSUME PageInv, Page!Next
  PROVE  Page!SaysWhatTheTableShows
<1> SUFFICES ASSUME message' # message
             PROVE  \/ /\ message'.kind = "approved"
                       /\ Page!Reflects(list', PageLimit, records', message'.id)
                    \/ /\ message'.kind = "revoked"
                       /\ \A row \in Page!Range(list') :
                            row.id = message'.id => row.status = "revoked"
                    \/ message'.kind = "error"
  BY DEF Page!SaysWhatTheTableShows
<1>1. PICK t \in tasks : /\ Page!ListArrives(t) \/ Page!FailureArrives(t)
                        /\ UNCHANGED records
  BY DEF Page!Next, Page!RefreshTable, Page!ShowDetail, Page!SubmitApprove, Page!SubmitRevoke,
         Page!Serve, Page!Arrive, Page!Others, Page!ApprovalArrives, Page!RevocationArrives
<1>2. CASE Page!ListArrives(t)
  <2>1. /\ t.say # Nil /\ message' = t.say /\ list' = t.answer
        /\ t.at = "list" /\ t.state = "served"
    BY <1>2 DEF Page!ListArrives
  <2>2. t.say \in Said /\ Shows(t.answer, t.say, PageLimit)
    BY <2>1 DEF PageInv, TaskInv, Task
  <2> QED
    BY <1>1, <2>1, <2>2, PageTable DEF Shows, Said
<1>3. CASE Page!FailureArrives(t)
  BY <1>3 DEF Page!FailureArrives, Page!Failure, Page!Message
<1> QED
  BY <1>1, <1>2, <1>3

-----------------------------------------------------------------------------
(* The register.                                                           *)

(* No demand has two resolutions in force.                                 *)
OnePerDemand(r) ==
  \A i, j \in InForce(r) : r[i].demand = r[j].demand => i = j

(* What an approval leaves in force, and that it is one decision.          *)
LEMMA ApprovalDecides ==
  ASSUME NEW r \in Table, NEW d \in Nat, NEW stamp \in Unused(r, d, Nat), OnePerDemand(r)
  PROVE  /\ OnePerDemand(WithApproval(r, d, stamp))
         /\ IsDecision(r, WithApproval(r, d, stamp))
<1> DEFINE s == WithApproval(r, d, stamp)
           n == Len(r) + 1
           older == [i \in DOMAIN r |->
                       IF r[i].demand = d /\ r[i].status = "active"
                         THEN [r[i] EXCEPT !.status = "superseded"] ELSE r[i]]
<1>1. /\ DOMAIN r = 1 .. Len(r) /\ Len(r) \in Nat /\ \A i \in DOMAIN r : r[i] \in Record
      /\ DOMAIN s = 1 .. n /\ s[n] = Active(d, stamp)
      /\ n \notin DOMAIN r
  <2>1. DOMAIN r = 1 .. Len(r) /\ Len(r) \in Nat /\ \A i \in DOMAIN r : r[i] \in Record
    BY DEF Table
  <2>2. s \in Seq(Record) /\ Len(s) = n /\ s[n] = Active(d, stamp)
    BY ApprovalIsLater DEF Table
  <2> HIDE DEF s
  <2> QED
    BY <2>1, <2>2
<1>2. \A i \in DOMAIN r : older[i] \in Record
  BY <1>1 DEF Record
<1>3. older \in Seq(Record) /\ Len(older) = Len(r)
  BY <1>1, <1>2
<1>4. s = Append(older, Active(d, stamp))
  BY DEF WithApproval
<1>5. \A i \in DOMAIN r : s[i] = older[i]
  <2> HIDE DEF older, s
  <2> QED
    BY <1>1, <1>3, <1>4
<1>6. \A i \in DOMAIN r :
        /\ s[i].demand = r[i].demand
        /\ s[i].status = "active" <=> r[i].status = "active" /\ r[i].demand # d
  <2> TAKE i \in DOMAIN r
  <2>1. r[i] \in Record /\ s[i] = older[i]
    BY <1>1, <1>5
  <2> QED
    BY <2>1 DEF Record
<1>7. s[n].demand = d /\ s[n].status = "active"
  BY <1>1 DEF Active
<1> HIDE DEF s, older
<1>8. DOMAIN s = DOMAIN r \cup {n}
  BY <1>1
<1> HIDE DEF n
<1>9. InForce(s) = {i \in InForce(r) : r[i].demand # d} \cup {n}
  BY <1>6, <1>7, <1>8 DEF InForce
<1>10. OnePerDemand(s)
  BY <1>6, <1>7, <1>9 DEF OnePerDemand, InForce
<1>11. CASE \E p \in InForce(r) : r[p].demand = d
  <2>1. PICK p \in InForce(r) : r[p].demand = d
    BY <1>11
  <2>2. \A i \in InForce(r) : r[i].demand = d => i = p
    BY <2>1 DEF OnePerDemand
  <2>3. InForce(s) = (InForce(r) \ {p}) \cup {n}
    BY <1>9, <2>1, <2>2
  <2>4. Replaces(r, s, p, n)
    BY <1>1, <1>7, <2>1, <2>3 DEF Replaces
  <2>5. p \in DOMAIN r
    BY <2>1 DEF InForce
  <2> QED
    BY <1>6, <1>8, <1>10, <2>4, <2>5 DEF IsDecision, s
<1>12. CASE \A p \in InForce(r) : r[p].demand # d
  <2>1. InForce(s) = InForce(r) \cup {n}
    BY <1>9, <1>12
  <2>2. Adopts(r, s, n)
    BY <1>1, <1>7, <1>12, <2>1 DEF Adopts
  <2> QED
    BY <1>6, <1>8, <1>10, <2>2 DEF IsDecision, s
<1> QED
  BY <1>11, <1>12

(* A revocation is one decision.                                           *)
LEMMA RevocationDecides ==
  ASSUME NEW r \in Table, NEW i, Revocable(r, i), OnePerDemand(r)
  PROVE  /\ OnePerDemand(WithRevocation(r, i))
         /\ IsDecision(r, WithRevocation(r, i))
<1> DEFINE s == WithRevocation(r, i)
<1>1. i \in DOMAIN r /\ r[i].status = "active"
  BY DEF Revocable
<1>2. DOMAIN s = DOMAIN r /\ \A k \in DOMAIN r : k # i => s[k] = r[k]
  BY DEF WithRevocation
<1>3. s[i].status = "revoked" /\ s[i].demand = r[i].demand
  BY <1>1, RevocationIsLater DEF Later, SamePlace
<1> HIDE DEF s
<1>4. InForce(s) = InForce(r) \ {i}
  BY <1>1, <1>2, <1>3 DEF InForce
<1>5. \A k \in DOMAIN r : s[k].demand = r[k].demand
  BY <1>2, <1>3
<1>6. OnePerDemand(s)
  BY <1>4, <1>5 DEF OnePerDemand, InForce
<1>7. i \in InForce(r)
  BY <1>1 DEF InForce
<1>8. Withdraws(r, s, i)
  BY <1>4, <1>7 DEF Withdraws
<1> QED
  BY <1>1, <1>5, <1>6, <1>8 DEF IsDecision, s

(* The records one call of the store may leave.                            *)
Decided ==
  \/ \E d \in Nat : \E s \in Unused(records, d, Nat) : records' = WithApproval(records, d, s)
  \/ \E i \in DOMAIN records : /\ Revocable(records, i)
                               /\ records' = WithRevocation(records, i)

LEMMA DecidedIsOne ==
  ASSUME records \in Table, OnePerDemand(records), Decided
  PROVE  OnePerDemand(records') /\ IsDecision(records, records')
BY ApprovalDecides, RevocationDecides DEF Decided

(* The terminal changes the store by a call of it, or leaves it alone.     *)
LEMMA TerminalDecides ==
  ASSUME InterfacesAssumption, LookupType, records \in Table, Next
  PROVE  UNCHANGED records \/ Decided
<1>1. CASE \/ Quiet \/ MoveCursor \/ ToggleInactive \/ OpenRevoke \/ PreviewRevoke
           \/ ReadRows \/ ShowRows
  BY <1>1, QuietStep
     DEF MoveCursor, ToggleInactive, OpenRevoke, PreviewRevoke, ReadRows, ShowRows, Refuse
<1>2. CASE Others
  BY <1>2 DEF Others, Decided, InterfacesAssumption, Unused
<1>3. CASE SubmitApprove /\ ~Refuse
  BY <1>3, ApprovalStep DEF Decided
<1>4. CASE ApplyRevoke
  <2>1. CASE UNCHANGED records
    BY <2>1
  <2>2. CASE Revocable(records, Selected.id) /\ records' = WithRevocation(records, Selected.id)
    BY <2>2 DEF Decided, Revocable
  <2> QED
    BY <1>4, <2>1, <2>2 DEF ApplyRevoke
<1> QED
  BY <1>1, <1>2, <1>3, <1>4, NextCases

(* So does the server behind the page.                                     *)
LEMMA PageDecides ==
  ASSUME InterfacesAssumption, PageInv, Page!Next
  PROVE  UNCHANGED records \/ Decided
<1>1. CASE UNCHANGED records
  BY <1>1
<1>2. ASSUME NEW t \in tasks, Page!HandleApprove(t)
      PROVE  Decided
  <2>1. PICK s \in Unused(records, t.arg, Stamps) : records' = WithApproval(records, t.arg, s)
    BY <1>2, PageTable DEF Page!HandleApprove
  <2>2. t.arg \in Nat /\ s \in Unused(records, t.arg, Nat)
    BY <1>2 DEF Page!HandleApprove, PageInv, TaskInv, InterfacesAssumption, Unused
  <2> QED
    BY <2>1, <2>2 DEF Decided
<1>3. ASSUME NEW t \in tasks, Page!HandleRevoke(t)
      PROVE  UNCHANGED records \/ Decided
  BY <1>3, PageTable DEF Page!HandleRevoke, Decided, Revocable
<1>4. CASE Page!Others
  BY <1>4, PageTable DEF Page!Others, Decided, InterfacesAssumption, Unused
<1> QED
  BY <1>1, <1>2, <1>3, <1>4
     DEF Page!Next, Page!RefreshTable, Page!ShowDetail, Page!SubmitApprove, Page!SubmitRevoke,
         Page!Serve, Page!Arrive, Page!HandleList

-----------------------------------------------------------------------------
(* Both.                                                                   *)

IInv ==
  /\ LookupInv
  /\ records \in Table
  /\ OnePerDemand(records)
  /\ interface = "terminal" => TerminalInv
  /\ interface = "page" => PageInv

LEMMA FirstRecords ==
  ASSUME InterfacesAssumption, Start
  PROVE  records \in Table /\ OnePerDemand(records)
<1>1. PICK s \in Stamps : records = [i \in 1 .. Approved |-> Active(i, s)]
  BY DEF Start, Init, Page!Init, Page!Active, Active
<1>2. Approved \in Nat /\ s \in Nat
  BY DEF InterfacesAssumption
<1>3. \A i \in 1 .. Approved : Active(i, s) \in Record /\ Active(i, s).demand = i
  BY <1>2 DEF Active, Record
<1>4. records \in Seq(Record) /\ DOMAIN records = 1 .. Approved
  BY <1>1, <1>2, <1>3
<1>5. \A i \in DOMAIN records : records[i].demand = i
  BY <1>1, <1>3, <1>4
<1> QED
  BY <1>4, <1>5 DEF Table, SamePlace, OnePerDemand, InForce

LEMMA StartInv == ASSUME InterfacesAssumption, Start PROVE IInv
<1>1. LookupInv
  BY InitInv DEF Start, Init
<1>2. ASSUME interface = "terminal" PROVE TerminalInv
  <2>1. list = Listed(records, FALSE, ListLimit) /\ ListLimit \in Nat \ {0}
    BY <1>2 DEF Start, Init, InterfacesAssumption
  <2>2. Named(list)
    BY <2>1, FirstRecords, ListedNamed
  <2> QED
    BY <1>2, <2>2, FirstRecords
       DEF Start, Init, InitOwn, TerminalInv, RevokeInv, ReloadInv, Calls
<1>3. ASSUME interface = "page" PROVE PageInv
  <2>1. list = Listed(records, FALSE, PageLimit) /\ PageLimit \in Nat \ {0}
    BY <1>3, PageTable DEF Start, Page!Init, InterfacesAssumption
  <2>2. list \in Seq(Row)
    BY <2>1, FirstRecords, ListedRows
  <2> QED
    BY <1>3, <2>2, FirstRecords DEF Start, Page!Init, Page!InitOwn, PageInv
<1> QED
  BY <1>1, <1>2, <1>3, FirstRecords DEF IInv

(* A step changes the store by one call of it.                             *)
LEMMA StepDecides ==
  ASSUME InterfacesAssumption, IInv, Step
  PROVE  /\ OnePerDemand(records')
         /\ UNCHANGED records \/ IsDecision(records, records')
<1>1. UNCHANGED records \/ Decided
  BY TerminalDecides, PageDecides DEF IInv, LookupInv, Step
<1> QED
  BY <1>1, DecidedIsOne DEF IInv

LEMMA StepInv == ASSUME InterfacesAssumption, IInv, Step PROVE IInv'
<1>3. OnePerDemand(records')
  BY StepDecides
<1>1. CASE interface = "terminal" /\ Next
  <2>1. LookupInv' /\ TerminalInv'
    BY <1>1, NextInv, TerminalStep DEF IInv, LookupInv
  <2> QED
    BY <1>1, <1>3, <2>1 DEF IInv, Step, TerminalInv
<1>2. CASE interface = "page" /\ Page!Next /\ UNCHANGED TerminalOnly
  <2>1. LookupInv'
    BY <1>2 DEF IInv, TerminalOnly, LookupInv, LookupType, SequenceInv, CandidatesClearNoReview
  <2>2. PageInv'
    BY <1>2, PageStep DEF IInv
  <2> QED
    BY <1>2, <1>3, <2>1, <2>2 DEF IInv, Step, PageInv
<1> QED
  BY <1>1, <1>2 DEF Step

LEMMA StutterInv == ASSUME IInv, UNCHANGED allVars PROVE IInv'
<1> USE DEF IInv, allVars, vars
<1>1. LookupInv'
  BY DEF LookupInv, LookupType, SequenceInv, CandidatesClearNoReview
<1>2. (interface = "terminal" => TerminalInv)'
  BY DEF TerminalInv, Named, RevokeInv, ReloadInv, HasSelection, Selected, Calls, Done, Shows
<1>3. (interface = "page" => PageInv)'
  BY TaskStays DEF PageInv
<1> QED
  BY <1>1, <1>2, <1>3

(* The inductive invariant holds in every reachable state.                 *)
THEOREM Invariance == Interfaces => []IInv
<1>1. Start => IInv
  BY StartInv, InterfacesAssumption
<1>2. IInv /\ [Step]_allVars => IInv'
  BY StepInv, StutterInv, InterfacesAssumption
<1> QED
  BY <1>1, <1>2, PTL DEF Interfaces

(* However many lookups are abandoned and answer late, the candidates      *)
(* shown answer the last question, and no form that is open carries a name *)
(* its person did not type.                                                *)
THEOREM CandidatesAreOfTheQuestion == Interfaces => []CandidatesClearNoReview
<1>1. IInv => CandidatesClearNoReview
  BY DEF IInv, LookupInv
<1> QED
  BY <1>1, Invariance, PTL

(* A revocation is of the record that was shown, as it was shown, whatever *)
(* other processes and other operations did meanwhile.                     *)
THEOREM OnlyTheShownIsRevoked == Interfaces => OnlyWhatWasShownIsRevoked
<1> DEFINE Right == /\ interface = "terminal" => RetiresTheRowShown
                    /\ interface = "page" => Page!RetiresWhatWasPreviewed
<1>1. IInv /\ [Step]_allVars => [Right]_allVars
  BY TerminalRevokes, PageRevokes DEF IInv, Step
<1> QED
  BY <1>1, Invariance, PTL DEF Interfaces, OnlyWhatWasShownIsRevoked

(* A decision is announced only with the rows that show it or what has     *)
(* become of it, unless as many as are ever shown come before.             *)
THEOREM DecisionsAreShown == Interfaces => DecisionIsVisible
<1> DEFINE Right == /\ interface = "terminal" => SaysWhatTheListShows
                    /\ interface = "page" => Page!SaysWhatTheTableShows
<1>1. IInv /\ [Step]_allVars => [Right]_allVars
  BY TerminalSays, PageSays, InterfacesAssumption DEF IInv, LookupInv, Step
<1> QED
  BY <1>1, Invariance, PTL DEF Interfaces, DecisionIsVisible

(* The store the interfaces work on is the register that ResolutionsStore  *)
(* implements: whatever they and the other processes do, in any order, a   *)
(* change adopts, replaces or withdraws one resolution, and the demands    *)
(* have one in force each.                                                 *)
THEOREM ChangesAreDecisions == Interfaces => EachChangeIsOneDecision
<1>1. IInv /\ [Step]_allVars => [IsDecision(records, records')]_records
  BY StepDecides, InterfacesAssumption DEF allVars, vars
<1> QED
  BY <1>1, Invariance, PTL DEF Interfaces, EachChangeIsOneDecision
=============================================================================
