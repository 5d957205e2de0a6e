----------------------------- MODULE JobsProofs -----------------------------
(***************************************************************************)
(* The users table, the creation of Volcano jobs, the locks and approval   *)
(* orders of jobs, the pages that say what is used, and the table of       *)
(* resources: their invariants, and what their steps may never do, for     *)
(* every number of users, jobs, nodes and requests at one time.            *)
(* Sums over the rows of the job table come first: Folds.tla adds up a set *)
(* in an order of its own, by a recursive function on its subsets; the     *)
(* lemmas say that there is such a function, and that any member may be    *)
(* taken as the last one.  Their induction is a smallest counterexample    *)
(* among the subsets of the set.                                           *)
(***************************************************************************)
EXTENDS JobLocks, Submission, UserRows, Usage, Resources, FiniteSetTheorems, WellFoundedInduction, TLAPS

-----------------------------------------------------------------------------
(* Sums over finite sets *)

\* Of some subsets of a finite set, one has no other one below it: the induction
\* that the lemmas on sums need.
LEMMA SmallestSubset ==
    ASSUME NEW S, IsFiniteSet(S), NEW B, B \subseteq SUBSET S, B # {}
    PROVE  \E m \in B : \A T \in SUBSET m : T # m => T \notin B
  <1>1. IsWellFoundedOn(StrictSubsetOrdering(S), FiniteSubsetsOf(S))
    BY FS_StrictSubsetOrderingWellFounded
  <1>2. FiniteSubsetsOf(S) = SUBSET S
    BY FS_FiniteSubsetsOfFinite
  <1>3. PICK m \in B : \A y \in B : ~(<<y, m>> \in StrictSubsetOrdering(S))
    BY <1>1, <1>2, WFMin
  <1>4. ASSUME NEW T \in SUBSET m, T # m, T \in B PROVE FALSE
    BY <1>3, <1>4 DEF StrictSubsetOrdering
  <1> QED
    BY <1>3, <1>4

\* The fold takes the members of a set in the order of CHOOSE.
First(s) == CHOOSE t \in s : TRUE

\* The first member is a member.
LEMMA FirstIn == \A s : s # {} => First(s) \in s
  BY DEF First

\* The equation that the function of the fold solves over the subsets of S, and the
\* sum of v over S.
SumsUp(f, v, S) ==
    f = [s \in SUBSET S |-> IF s = {} THEN 0 ELSE v[First(s)] + f[s \ {First(s)}]]
Solution(v, S) == CHOOSE f : SumsUp(f, v, S)
Total(v, S) == Solution(v, S)[S]

\* Two solutions agree where both are defined.
LEMMA SolutionsAgree ==
    ASSUME NEW S, IsFiniteSet(S), NEW T, NEW v, NEW f, SumsUp(f, v, S), NEW g, SumsUp(g, v, T)
    PROVE  \A s \in SUBSET (S \cap T) : f[s] = g[s]
  <1> DEFINE B == {s \in SUBSET (S \cap T) : f[s] # g[s]}
  <1> SUFFICES ASSUME B # {} PROVE FALSE
    OBVIOUS
  <1>1. PICK m \in B : \A s \in SUBSET m : s # m => s \notin B
    <2>1. B \subseteq SUBSET S
      OBVIOUS
    <2> HIDE DEF B
    <2> QED
      BY <2>1, SmallestSubset
  <1>2. m \in SUBSET S /\ m \in SUBSET T
    OBVIOUS
  <1>3. CASE m = {}
    <2>1. f[m] = 0 /\ g[m] = 0
      BY <1>2, <1>3 DEF SumsUp
    <2> QED
      BY <2>1
  <1>4. CASE m # {}
    <2> DEFINE r == m \ {First(m)}
    <2>1. r \in SUBSET m /\ r # m
      BY <1>4, FirstIn
    <2>2. f[r] = g[r]
      BY <1>1, <1>2, <2>1
    <2>3. f[m] = v[First(m)] + f[r]
      BY <1>2, <1>4 DEF SumsUp
    <2>4. g[m] = v[First(m)] + g[r]
      BY <1>2, <1>4 DEF SumsUp
    <2> QED
      BY <2>2, <2>3, <2>4
  <1> QED
    BY <1>3, <1>4

\* There is a solution over every finite set.
LEMMA SolutionExists ==
    ASSUME NEW S, IsFiniteSet(S), NEW v
    PROVE  SumsUp(Solution(v, S), v, S)
  <1> DEFINE B == {T \in SUBSET S : ~\E f : SumsUp(f, v, T)}
  <1>1. SUFFICES ASSUME B # {} PROVE FALSE
    BY DEF Solution
  <1>2. PICK m \in B : \A T \in SUBSET m : T # m => T \notin B
    <2>1. B \subseteq SUBSET S
      OBVIOUS
    <2> HIDE DEF B
    <2> QED
      BY <1>1, <2>1, SmallestSubset
  <1>3. ASSUME NEW T \in SUBSET m, T # m PROVE SumsUp(Solution(v, T), v, T) /\ IsFiniteSet(T)
    <2>1. \E f : SumsUp(f, v, T)
      BY <1>2, <1>3
    <2>2. SumsUp(Solution(v, T), v, T)
      BY <2>1 DEF Solution
    <2>3. T \in SUBSET S
      OBVIOUS
    <2> QED
      BY <2>2, <2>3, FS_Subset
  <1> DEFINE rest(s) == s \ {First(s)}
             step(s) == v[First(s)] + Total(v, rest(s))
             g == [s \in SUBSET m |-> IF s = {} THEN 0 ELSE step(s)]
  <1>4. ASSUME NEW s \in SUBSET m, s # m PROVE Total(v, s) = g[s]
    <2>1. SumsUp(Solution(v, s), v, s) /\ IsFiniteSet(s)
      BY <1>3, <1>4
    <2>2. CASE s = {}
      <3>1. Total(v, s) = 0
        BY <2>1, <2>2 DEF SumsUp, Total
      <3> QED
        BY <3>1, <2>2
    <2>3. CASE s # {}
      <3>1. rest(s) \in SUBSET s /\ rest(s) \in SUBSET m /\ rest(s) # m
        BY <1>4
      <3>2. SumsUp(Solution(v, rest(s)), v, rest(s)) /\ IsFiniteSet(rest(s))
        BY <1>3, <3>1
      <3>3. Solution(v, s)[rest(s)] = Total(v, rest(s))
        <4> HIDE DEF rest
        <4>1. rest(s) \in SUBSET (s \cap rest(s))
          BY <3>1
        <4> QED
          BY <2>1, <3>2, <4>1, SolutionsAgree DEF Total
      <3>4. Total(v, s) = v[First(s)] + Solution(v, s)[rest(s)]
        BY <2>1, <2>3 DEF SumsUp, Total
      <3> QED
        BY <3>3, <3>4, <2>3
    <2> QED
      BY <2>2, <2>3
  <1>5. ASSUME NEW s \in SUBSET m, s # {} PROVE g[s] = v[First(s)] + g[rest(s)]
    <2>1. rest(s) \in SUBSET m /\ rest(s) # m
      BY <1>5, FirstIn
    <2>2. Total(v, rest(s)) = g[rest(s)]
      <3> HIDE DEF rest, g
      <3> QED
        BY <2>1, <1>4
    <2>3. g[s] = v[First(s)] + Total(v, rest(s))
      BY <1>5
    <2> QED
      BY <2>2, <2>3
  <1>6. SumsUp(g, v, m)
    <2>1. g[{}] = 0
      OBVIOUS
    <2>2. g = [s \in SUBSET m |-> g[s]]
      OBVIOUS
    <2>3. ASSUME NEW s \in SUBSET m
          PROVE  g[s] = (IF s = {} THEN 0 ELSE v[First(s)] + g[s \ {First(s)}])
      BY <1>5, <2>1
    <2> HIDE DEF g
    <2> QED
      BY <2>2, <2>3 DEF SumsUp
  <1> QED
    BY <1>2, <1>6

\* Every solution has the sum.
LEMMA TotalOf ==
    ASSUME NEW S, IsFiniteSet(S), NEW v, NEW f, SumsUp(f, v, S)
    PROVE  f[S] = Total(v, S)
  BY SolutionExists, SolutionsAgree DEF Total

\* So the sum satisfies its recursive equation.
LEMMA TotalStep ==
    ASSUME NEW v
    PROVE  /\ Total(v, {}) = 0
           /\ \A S : IsFiniteSet(S) /\ S # {} =>
                 Total(v, S) = v[First(S)] + Total(v, S \ {First(S)})
  <1>1. Total(v, {}) = 0
    <2>1. SumsUp(Solution(v, {}), v, {})
      BY SolutionExists, FS_EmptySet
    <2> QED
      BY <2>1 DEF SumsUp, Total
  <1>2. ASSUME NEW S, IsFiniteSet(S), S # {}
        PROVE  Total(v, S) = v[First(S)] + Total(v, S \ {First(S)})
    <2> DEFINE r == S \ {First(S)}
    <2>1. IsFiniteSet(r)
      BY <1>2, FS_RemoveElement
    <2>2. SumsUp(Solution(v, S), v, S) /\ SumsUp(Solution(v, r), v, r)
      BY <1>2, <2>1, SolutionExists
    <2>3. Solution(v, S)[r] = Solution(v, r)[r]
      BY <1>2, <2>2, SolutionsAgree
    <2>4. Solution(v, S)[S] = v[First(S)] + Solution(v, S)[r]
      BY <1>2, <2>2 DEF SumsUp
    <2> QED
      BY <2>3, <2>4 DEF Total
  <1> QED
    BY <1>1, <1>2

\* A sum of natural numbers is one.
LEMMA TotalType ==
    ASSUME NEW S, IsFiniteSet(S), NEW v, \A x \in S : v[x] \in Nat
    PROVE  Total(v, S) \in Nat
  <1> DEFINE B == {T \in SUBSET S : Total(v, T) \notin Nat}
  <1> SUFFICES ASSUME B # {} PROVE FALSE
    OBVIOUS
  <1>1. PICK m \in B : \A T \in SUBSET m : T # m => T \notin B
    <2>1. B \subseteq SUBSET S
      OBVIOUS
    <2> HIDE DEF B
    <2> QED
      BY <2>1, SmallestSubset
  <1>2. IsFiniteSet(m) /\ m \in SUBSET S
    BY FS_Subset
  <1>3. CASE m = {}
    BY <1>1, <1>3, TotalStep
  <1>4. CASE m # {}
    <2> DEFINE r == m \ {First(m)}
    <2>1. First(m) \in m
      BY <1>4, FirstIn
    <2>2. Total(v, r) \in Nat
      BY <1>1, <1>2, <2>1
    <2>3. Total(v, m) = v[First(m)] + Total(v, r)
      BY <1>2, <1>4, TotalStep
    <2>4. v[First(m)] \in Nat
      BY <1>2, <2>1
    <2> HIDE DEF r
    <2> QED
      BY <1>1, <2>2, <2>3, <2>4
  <1> QED
    BY <1>3, <1>4

\* The order does not matter: any member may be taken as the last.
LEMMA TotalRemove ==
    ASSUME NEW S, IsFiniteSet(S), NEW v, \A x \in S : v[x] \in Nat
    PROVE  \A t \in S : Total(v, S) = Total(v, S \ {t}) + v[t]
  <1> DEFINE total(T) == Total(v, T)
             B == {T \in SUBSET S : \E t \in T : total(T) # total(T \ {t}) + v[t]}
  <1> SUFFICES ASSUME B # {} PROVE FALSE
    OBVIOUS
  <1>1. PICK m \in B : \A T \in SUBSET m : T # m => T \notin B
    <2>1. B \subseteq SUBSET S
      OBVIOUS
    <2> HIDE DEF B
    <2> QED
      BY <2>1, SmallestSubset
  <1>2. PICK t \in m : total(m) # total(m \ {t}) + v[t]
    OBVIOUS
  <1>3. \A T \in SUBSET m : IsFiniteSet(T) /\ total(T) \in Nat
    <2>1. \A T \in SUBSET m : T \in SUBSET S
      OBVIOUS
    <2> QED
      BY <2>1, FS_Subset, TotalType
  <1>4. \A u \in m : v[u] \in Nat
    OBVIOUS
  <1>5. ASSUME NEW T \in SUBSET m, T # {}
        PROVE  total(T) = total(T \ {First(T)}) + v[First(T)]
    <2>1. First(T) \in m /\ T \ {First(T)} \in SUBSET m
      BY <1>5, FirstIn
    <2>2. total(T) = v[First(T)] + total(T \ {First(T)})
      BY <1>3, <1>5, TotalStep
    <2>3. total(T \ {First(T)}) \in Nat /\ v[First(T)] \in Nat
      BY <2>1, <1>3, <1>4
    <2> QED
      BY <2>2, <2>3
  <1> DEFINE x == First(m)
  <1>6. x \in m /\ total(m) = total(m \ {x}) + v[x]
    BY <1>2, <1>5, FirstIn
  <1>7. t # x
    BY <1>2, <1>6
  <1>8. total(m \ {x}) = total((m \ {x}) \ {t}) + v[t]
    <2>1. m \ {x} \in SUBSET m /\ m \ {x} # m /\ t \in m \ {x}
      BY <1>6, <1>7
    <2> HIDE DEF x
    <2> QED
      BY <1>1, <2>1
  <1>9. total(m \ {t}) = total((m \ {t}) \ {x}) + v[x]
    <2>1. m \ {t} \in SUBSET m /\ m \ {t} # m /\ x \in m \ {t}
      BY <1>6, <1>7
    <2> HIDE DEF x
    <2> QED
      BY <1>1, <2>1
  <1>10. (m \ {x}) \ {t} = (m \ {t}) \ {x} /\ (m \ {x}) \ {t} \in SUBSET m
    OBVIOUS
  <1>11. /\ total((m \ {x}) \ {t}) \in Nat /\ v[t] \in Nat /\ v[x] \in Nat
         /\ total((m \ {t}) \ {x}) = total((m \ {x}) \ {t})
    <2> HIDE DEF x
    <2> QED
      BY <1>3, <1>4, <1>6, <1>10
  <1> HIDE DEF total, x
  <1> QED
    BY <1>2, <1>6, <1>8, <1>9, <1>11

\* One more member.
LEMMA TotalAdd ==
    ASSUME NEW S, IsFiniteSet(S), NEW v, \A x \in S : v[x] \in Nat, NEW t, t \notin S, v[t] \in Nat
    PROVE  Total(v, S \cup {t}) = Total(v, S) + v[t]
  <1>1. IsFiniteSet(S \cup {t}) /\ (S \cup {t}) \ {t} = S
    BY FS_AddElement
  <1> QED
    BY <1>1, TotalRemove

\* The sum looks at the members of the set alone.
LEMMA TotalSame ==
    ASSUME NEW S, IsFiniteSet(S), NEW v, NEW w, \A x \in S : v[x] = w[x]
    PROVE  Total(v, S) = Total(w, S)
  <1>1. SumsUp(Solution(v, S), v, S)
    BY SolutionExists
  <1>2. \A f : SumsUp(f, v, S) => SumsUp(f, w, S)
    <2>1. ASSUME NEW f, NEW s \in SUBSET S
          PROVE  (IF s = {} THEN 0 ELSE v[First(s)] + f[s \ {First(s)}])
                 = (IF s = {} THEN 0 ELSE w[First(s)] + f[s \ {First(s)}])
      BY FirstIn
    <2>2. ASSUME NEW f
          PROVE  [s \in SUBSET S |-> IF s = {} THEN 0 ELSE v[First(s)] + f[s \ {First(s)}]]
                 = [s \in SUBSET S |-> IF s = {} THEN 0 ELSE w[First(s)] + f[s \ {First(s)}]]
      BY <2>1
    <2> QED
      BY <2>2 DEF SumsUp
  <1> QED
    BY <1>1, <1>2, TotalOf DEF Total

-----------------------------------------------------------------------------
(* The users table *)

\* The shapes of rows and requests, and of what the handlers change in them.
LEMMA RowShapes ==
    /\ NewRow \in URow /\ [NewRow EXCEPT !.state = "none"] \in URow /\ NoEdit \in Edit
    /\ \A x \in URow : /\ x.attrs \in Attrs /\ x.state \in {"none", "live", "deleted"}
                       /\ [x EXCEPT !.state = "deleted"] \in URow /\ [x EXCEPT !.verified = TRUE] \in URow
    /\ \A x \in URow, r \in PlatformRoles : [x EXCEPT !.role = r] \in URow
    /\ \A x \in URow, a \in Attrs : /\ [x EXCEPT !.attrs = a] \in URow
                                    /\ [x EXCEPT !.attrs = a].attrs = a
                                    /\ [x EXCEPT !.attrs = a].state = x.state
                                    /\ [x EXCEPT !.attrs = a].role = x.role
                                    /\ [x EXCEPT !.attrs = a].verified = x.verified
    /\ \A pc \in {"save", "adminsave", "update"}, u \in Persons, x, y \in URow :
          [pc |-> pc, person |-> u, seen |-> x, new |-> y] \in Edit
    /\ \A q \in Edit : q.person \in Persons /\ q.seen \in URow /\ q.new \in URow
  <1>1. FirstRole \in PlatformRoles /\ (CHOOSE u \in Persons : TRUE) \in Persons
    BY UserRowAssumption DEF FirstRole
  <1>2. NewRow \in URow /\ [NewRow EXCEPT !.state = "none"] \in URow
    BY <1>1 DEF NewRow, URow, Attrs
  <1> QED
    BY <1>1, <1>2 DEF NoEdit, Edit, URow

\* A request begins with the attributes of the row it read, or others with the same UID.
LEMMA BeginKeeps ==
    ASSUME UserRowInv, NEW e \in Edits, NEW u \in Persons, NEW pc \in {"save", "adminsave", "update"},
           NEW a \in Attrs, pc # "adminsave" => a.uid = urow[u].attrs.uid,
           BeginEdit(e, u, pc, [urow[u] EXCEPT !.attrs = a])
    PROVE  UserRowInv'
  <1> DEFINE new == [urow[u] EXCEPT !.attrs = a]
             q == [pc |-> pc, person |-> u, seen |-> urow[u], new |-> new]
  <1>1. urow[u] \in URow /\ edit \in [Edits -> Edit]
    BY DEF UserRowInv, UserRowTypeOK
  <1>2. new \in URow /\ new.attrs = a
    BY <1>1, RowShapes
  <1>3. q \in Edit
    BY <1>1, <1>2, RowShapes
  <1>4. edit' = [edit EXCEPT ![e] = q] /\ urow[u].state = "live" /\ UNCHANGED <<urow, code, lastCode, undone>>
    BY DEF BeginEdit, Live
  <1>5. UserRowTypeOK'
    BY <1>1, <1>3, <1>4 DEF UserRowInv, UserRowTypeOK
  <1>6. /\ q.pc = pc /\ q.seen.state = "live" /\ q.new = [q.seen EXCEPT !.attrs = q.new.attrs]
        /\ pc # "adminsave" => q.new.attrs.uid = q.seen.attrs.uid
    BY <1>2, <1>4
  <1> HIDE DEF q
  <1>7. EditsAttributes'
    <2> SUFFICES ASSUME NEW d \in Edits, edit'[d].pc # "idle"
                 PROVE  /\ edit'[d].seen.state = "live"
                        /\ edit'[d].new = [edit'[d].seen EXCEPT !.attrs = edit'[d].new.attrs]
                        /\ edit'[d].pc # "adminsave" => edit'[d].new.attrs.uid = edit'[d].seen.attrs.uid
      BY DEF EditsAttributes
    <2>1. CASE d = e
      BY <1>1, <1>4, <1>6, <2>1
    <2>2. CASE d # e
      BY <1>1, <1>4, <2>2 DEF UserRowInv, EditsAttributes
    <2> QED
      BY <2>1, <2>2
  <1> QED
    BY <1>5, <1>7 DEF UserRowInv

\* A request writes a row and is over, or a row changes, or the codes.
LEMMA RowKeeps ==
    ASSUME UserRowInv, NEW u \in Persons, NEW x \in URow, urow' = [urow EXCEPT ![u] = x],
           \A e \in Edits : edit'[e] \in {edit[e], NoEdit}, edit' \in [Edits -> Edit],
           UNCHANGED <<code, lastCode>>, undone' \subseteq Persons
    PROVE  UserRowInv'
  <1>1. UserRowTypeOK'
    BY DEF UserRowInv, UserRowTypeOK
  <1>2. EditsAttributes'
    BY DEF UserRowInv, EditsAttributes, NoEdit
  <1> QED
    BY <1>1, <1>2 DEF UserRowInv

\* Every step of the users table keeps its types, and the attributes that a request
\* carries those of a user.
LEMMA UserRowNextKeeps == UserRowInv /\ [UserRowNext]_userRowVars => UserRowInv'
  <1> SUFFICES ASSUME UserRowInv, [UserRowNext]_userRowVars PROVE UserRowInv'
    OBVIOUS
  <1>0. /\ urow \in [Persons -> URow] /\ edit \in [Edits -> Edit] /\ undone \subseteq Persons
        /\ code \in [Emails -> Codes] /\ lastCode \in Codes
    BY DEF UserRowInv, UserRowTypeOK
  <1>1. ASSUME NEW u \in Persons, NewUser(u) \/ RemoveUser(u) PROVE UserRowInv'
    <2>1. CASE NewUser(u)
      BY <1>0, <2>1, RowShapes, RowKeeps DEF NewUser
    <2>2. CASE RemoveUser(u)
      <3>1. [urow[u] EXCEPT !.state = "deleted"] \in URow
            /\ urow' = [urow EXCEPT ![u] = [urow[u] EXCEPT !.state = "deleted"]]
        BY <1>0, <2>2, RowShapes DEF RemoveUser
      <3> QED
        BY <1>0, <2>2, <3>1, RowKeeps DEF RemoveUser
    <2> QED
      BY <1>1, <2>1, <2>2
  <1>2. ASSUME NEW u \in Persons, NEW r \in PlatformRoles, SetRole(u, r) PROVE UserRowInv'
    <2>1. [urow[u] EXCEPT !.role = r] \in URow /\ urow' = [urow EXCEPT ![u] = [urow[u] EXCEPT !.role = r]]
      BY <1>0, <1>2, RowShapes DEF SetRole
    <2> QED
      BY <1>0, <1>2, <2>1, RowKeeps DEF SetRole
  <1>3. ASSUME NEW u \in Persons, NEW m \in Emails, SendUserVerificationCode(u, m) PROVE UserRowInv'
    <2>1. lastCode + 1 \in Codes
      BY <1>0, <1>3, UserRowAssumption DEF SendUserVerificationCode, Codes
    <2>2. UserRowTypeOK'
      BY <1>0, <1>3, <2>1 DEF SendUserVerificationCode, UserRowTypeOK
    <2> QED
      BY <1>3, <2>2 DEF UserRowInv, EditsAttributes, SendUserVerificationCode
  <1>4. ASSUME NEW u \in Persons, NEW m \in Emails, NEW k \in Codes, UpdateUserEmail(u, m, k)
        PROVE  UserRowInv'
    <2>1. [urow[u] EXCEPT !.verified = TRUE] \in URow
          /\ urow' = [urow EXCEPT ![u] = [urow[u] EXCEPT !.verified = TRUE]]
      BY <1>0, <1>4, RowShapes DEF UpdateUserEmail
    <2> QED
      BY <1>0, <1>4, <2>1, RowKeeps DEF UpdateUserEmail
  <1>5. ASSUME NEW e \in Edits, SaveRow(e) PROVE UserRowInv'
    <2> DEFINE u == edit[e].person
    <2>1. u \in Persons /\ edit[e].new \in URow /\ NoEdit \in Edit
      BY <1>0, RowShapes
    <2>2. urow' = [urow EXCEPT ![u] = edit[e].new] /\ edit' = [edit EXCEPT ![e] = NoEdit]
          /\ undone' \subseteq Persons /\ UNCHANGED <<code, lastCode>>
      BY <1>0, <1>5, <2>1 DEF SaveRow
    <2> QED
      BY <1>0, <2>1, <2>2, RowKeeps
  <1>6. ASSUME NEW e \in Edits, WriteAttributes(e) PROVE UserRowInv'
    <2> DEFINE u == edit[e].person
               attrs == IF Live(u) THEN edit[e].new.attrs ELSE urow[u].attrs
    <2>1. u \in Persons /\ edit[e].new \in URow /\ NoEdit \in Edit /\ urow[u] \in URow
      BY <1>0, RowShapes
    <2>2. attrs \in Attrs /\ [urow[u] EXCEPT !.attrs = attrs] \in URow
      BY <2>1, RowShapes
    <2>3. urow' = [urow EXCEPT ![u] = [urow[u] EXCEPT !.attrs = attrs]] /\ edit' = [edit EXCEPT ![e] = NoEdit]
          /\ undone' \subseteq Persons /\ UNCHANGED <<code, lastCode>>
      BY <1>0, <1>6, <2>1 DEF WriteAttributes
    <2> QED
      BY <1>0, <2>1, <2>2, <2>3, RowKeeps
  <1>7. ASSUME NEW e \in Edits, NEW u \in Persons, NEW m \in Emails \cup {NoEmail},
               UpdateUserAttributes(e, u, m) \/ LoginUpdate(e, u, m)
        PROVE  UserRowInv'
    <2>1. urow[u] \in URow /\ urow[u].attrs \in Attrs
      BY <1>0, RowShapes
    <2>2. CASE UpdateUserAttributes(e, u, m)
      <3> DEFINE a == [urow[u].attrs EXCEPT !.email = m]
      <3>1. a \in Attrs /\ a.uid = urow[u].attrs.uid
        BY <2>1 DEF Attrs
      <3>2. BeginEdit(e, u, "save", [urow[u] EXCEPT !.attrs = a])
        BY <2>2 DEF UpdateUserAttributes
      <3> HIDE DEF a
      <3> QED
        BY <3>1, <3>2, BeginKeeps
    <2>3. CASE LoginUpdate(e, u, m)
      <3> DEFINE email == IF urow[u].attrs.email = NoEmail THEN m ELSE urow[u].attrs.email
                 a == [id |-> TRUE, uid |-> urow[u].attrs.uid, email |-> email]
      <3>1. a \in Attrs /\ a.uid = urow[u].attrs.uid
        <4>1. email \in Emails \cup {NoEmail} /\ urow[u].attrs.uid \in {"server", "admin"}
          BY <2>1 DEF Attrs
        <4> HIDE DEF email
        <4> QED
          BY <4>1 DEF Attrs
      <3>2. BeginEdit(e, u, "update", [urow[u] EXCEPT !.attrs = a])
        BY <2>3 DEF LoginUpdate
      <3> HIDE DEF a
      <3> QED
        BY <3>1, <3>2, BeginKeeps
    <2> QED
      BY <1>7, <2>2, <2>3
  <1>8. ASSUME NEW e \in Edits, NEW u \in Persons, NEW a \in Attrs, UpdateUserAttributesByAdmin(e, u, a)
        PROVE  UserRowInv'
    BY <1>8, BeginKeeps DEF UpdateUserAttributesByAdmin
  <1>9. CASE RestartProcess
    <2>1. UserRowTypeOK'
      BY <1>0, <1>9, RowShapes, UserRowAssumption DEF RestartProcess, UserRowTypeOK, Codes
    <2> QED
      BY <1>9, <2>1 DEF UserRowInv, EditsAttributes, RestartProcess, NoEdit
  <1>10. CASE UNCHANGED userRowVars
    BY <1>10 DEF userRowVars, UserRowInv, UserRowTypeOK, EditsAttributes
  <1> QED
    BY <1>1, <1>2, <1>3, <1>4, <1>5, <1>6, <1>7, <1>8, <1>9, <1>10 DEF UserRowNext

\* The inductive invariant of the users table, for every number of users and requests.
THEOREM UserRowInvariance == UserRowSpec => []UserRowInv
  <1>1. UserRowInit => UserRowInv
    <2> SUFFICES ASSUME UserRowInit PROVE UserRowInv
      OBVIOUS
    <2>1. UserRowTypeOK
      BY RowShapes, UserRowAssumption DEF UserRowInit, UserRowTypeOK, Codes
    <2>2. EditsAttributes
      BY DEF UserRowInit, EditsAttributes, NoEdit
    <2> QED
      BY <2>1, <2>2 DEF UserRowInv
  <1> QED
    BY <1>1, UserRowNextKeeps, PTL DEF UserRowSpec

\* What UserRowsKept says of one user.
RowKept(u) ==
    \/ u \in undone'
    \/ urow[u].state = "none"
    \/ /\ urow[u].role # urow'[u].role => \E r \in PlatformRoles : SetRole(u, r)
       /\ urow[u].state = "deleted" => urow'[u].state = "deleted"
       /\ urow[u].verified => urow'[u].verified
       /\ urow[u].attrs.uid # urow'[u].attrs.uid =>
             \E e \in Edits : edit[e].pc = "adminsave" /\ edit[e].person = u

\* Every step keeps what UserRowsKept says of each user.
LEMMA RowStep == ASSUME UserRowInv, UserRowNext, NEW v \in Persons PROVE RowKept(v)
  <1>0. /\ urow \in [Persons -> URow] /\ edit \in [Edits -> Edit]
        /\ \A u \in Persons : \A x : [urow EXCEPT ![u] = x][v] = IF u = v THEN x ELSE urow[v]
    BY DEF UserRowInv, UserRowTypeOK
  <1>1. CASE urow'[v] = urow[v]
    BY <1>1 DEF RowKept
  <1>2. ASSUME NEW u \in Persons, NewUser(u) PROVE RowKept(v)
    BY <1>0, <1>2 DEF NewUser, RowKept
  <1>3. ASSUME NEW u \in Persons, RemoveUser(u) PROVE RowKept(v)
    <2>1. urow' = [urow EXCEPT ![u] = [urow[u] EXCEPT !.state = "deleted"]]
      BY <1>0, <1>3 DEF RemoveUser
    <2> QED
      BY <1>0, <1>1, <2>1 DEF RowKept, URow
  <1>4. ASSUME NEW u \in Persons, NEW r \in PlatformRoles, SetRole(u, r) PROVE RowKept(v)
    <2>1. urow' = [urow EXCEPT ![u] = [urow[u] EXCEPT !.role = r]]
      BY <1>0, <1>4 DEF SetRole
    <2> QED
      BY <1>0, <1>1, <1>4, <2>1 DEF RowKept, URow
  <1>5. ASSUME NEW u \in Persons, NEW m \in Emails, NEW k \in Codes, UpdateUserEmail(u, m, k)
        PROVE  RowKept(v)
    <2>1. urow' = [urow EXCEPT ![u] = [urow[u] EXCEPT !.verified = TRUE]]
      BY <1>0, <1>5 DEF UpdateUserEmail
    <2> QED
      BY <1>0, <1>1, <2>1 DEF RowKept, URow
  <1>6. ASSUME NEW e \in Edits, SaveRow(e) PROVE RowKept(v)
    <2> DEFINE u == edit[e].person
    <2>1. CASE v # u \/ urow[u] # edit[e].seen
      BY <1>0, <1>1, <1>6, <2>1, RowShapes DEF SaveRow, RowKept
    <2>2. CASE v = u /\ urow[u] = edit[e].seen
      <3>1. /\ urow'[v] = edit[e].new /\ edit[e].seen = urow[v] /\ edit[e].pc \in {"save", "adminsave"}
        BY <1>0, <1>6, <2>2 DEF SaveRow
      <3>2. edit[e].new.attrs \in Attrs /\ urow[v] \in URow
        BY <1>0, RowShapes
      <3>3. /\ edit[e].seen.state = "live" /\ edit[e].new = [edit[e].seen EXCEPT !.attrs = edit[e].new.attrs]
            /\ edit[e].pc # "adminsave" => edit[e].new.attrs.uid = edit[e].seen.attrs.uid
        BY <3>1 DEF UserRowInv, EditsAttributes
      <3>4. /\ urow'[v].role = urow[v].role /\ urow'[v].verified = urow[v].verified
            /\ urow[v].state = "live"
        <4> DEFINE a == edit[e].new.attrs
        <4>1. urow'[v] = [urow[v] EXCEPT !.attrs = a] /\ a \in Attrs /\ urow[v].state = "live"
          BY <3>1, <3>2, <3>3
        <4> HIDE DEF a
        <4> QED
          BY <3>2, <4>1, RowShapes
      <3>5. urow[v].attrs.uid # urow'[v].attrs.uid => edit[e].pc = "adminsave" /\ edit[e].person = v
        BY <2>2, <3>1, <3>3
      <3> QED
        BY <3>4, <3>5 DEF RowKept
    <2> QED
      BY <2>1, <2>2
  <1>7. ASSUME NEW e \in Edits, WriteAttributes(e) PROVE RowKept(v)
    <2> DEFINE u == edit[e].person
               attrs == IF Live(u) THEN edit[e].new.attrs ELSE urow[u].attrs
    <2>1. u \in Persons /\ edit[e].new.attrs \in Attrs /\ urow[u] \in URow
      BY <1>0, RowShapes
    <2>2. attrs \in Attrs
      BY <2>1, RowShapes
    <2>3. /\ urow' = [urow EXCEPT ![u] = [urow[u] EXCEPT !.attrs = attrs]] /\ edit[e].pc = "update"
          /\ undone' = IF Live(u) /\ urow[u].attrs # edit[e].seen.attrs THEN undone \cup {u} ELSE undone
      BY <1>0, <1>7, <2>1 DEF WriteAttributes
    <2>4. CASE v # u \/ (Live(u) /\ urow[u].attrs # edit[e].seen.attrs)
      BY <1>0, <1>1, <2>1, <2>3, <2>4 DEF RowKept
    <2>5. CASE v = u /\ ~(Live(u) /\ urow[u].attrs # edit[e].seen.attrs)
      <3>1. urow'[v] = [urow[v] EXCEPT !.attrs = attrs]
        BY <1>0, <2>1, <2>3, <2>5
      <3>2. attrs.uid = urow[v].attrs.uid
        <4>1. edit[e].new.attrs.uid = edit[e].seen.attrs.uid
          BY <2>3 DEF UserRowInv, EditsAttributes
        <4> QED
          BY <2>5, <4>1
      <3>3. /\ urow'[v].attrs = attrs /\ urow'[v].state = urow[v].state /\ urow'[v].role = urow[v].role
            /\ urow'[v].verified = urow[v].verified
        <4> HIDE DEF attrs
        <4> QED
          BY <2>1, <2>2, <2>5, <3>1, RowShapes
      <3> QED
        BY <3>2, <3>3 DEF RowKept
    <2> QED
      BY <2>4, <2>5
  <1>8. ASSUME NEW u \in Persons, NEW m \in Emails, SendUserVerificationCode(u, m) PROVE RowKept(v)
    BY <1>1, <1>8 DEF SendUserVerificationCode
  <1>9. ASSUME NEW e \in Edits, NEW u \in Persons,
               \/ \E m \in Emails \cup {NoEmail} : UpdateUserAttributes(e, u, m) \/ LoginUpdate(e, u, m)
               \/ \E a \in Attrs : UpdateUserAttributesByAdmin(e, u, a)
        PROVE  RowKept(v)
    BY <1>1, <1>9 DEF UpdateUserAttributes, LoginUpdate, UpdateUserAttributesByAdmin, BeginEdit
  <1>10. CASE RestartProcess
    BY <1>1, <1>10 DEF RestartProcess
  <1> QED
    BY <1>2, <1>3, <1>4, <1>5, <1>6, <1>7, <1>8, <1>9, <1>10 DEF UserRowNext

\* A role changes only by UpdateRole, a deleted user stays deleted, a verified email
\* stays verified, and UID and GID are the server's until an administrator sets them
\* (internal/handler/context.go, user.go), unless a row was saved that had changed.
THEOREM RowsKept == UserRowSpec => UserRowsKept
  <1>1. UserRowInv /\ [UserRowNext]_userRowVars
        => [\A u \in Persons :
              LET old == urow[u]
                  new == urow'[u]
              IN  \/ u \in undone'
                  \/ old.state = "none"
                  \/ /\ old.role # new.role => \E r \in PlatformRoles : SetRole(u, r)
                     /\ old.state = "deleted" => new.state = "deleted"
                     /\ old.verified => new.verified
                     /\ old.attrs.uid # new.attrs.uid =>
                           \E e \in Edits : edit[e].pc = "adminsave" /\ edit[e].person = u]_userRowVars
    BY RowStep DEF RowKept
  <1> QED
    BY <1>1, UserRowInvariance, PTL DEF UserRowSpec, UserRowsKept

-----------------------------------------------------------------------------
(* The creation of jobs *)

\* The shapes of jobs and requests.
LEMMA SubmissionShapes ==
    /\ NoJob.state = "none" /\ NoJob \notin VcJobRow /\ Waits \notin SubmitCall
    /\ \A w \in Work : w.kind \in {"jupyter", "training"} /\ w.amount \in Nat /\ w.replicas \in Nat
                       /\ w.mounts \in BOOLEAN /\ w.amount * w.replicas \in Nat
    /\ \A c \in SubmitCall : /\ c.work \in Work /\ c.token \in Modes /\ c.begun \in Modes
                             /\ c.pc \in {"jupyter", "resources", "create"} /\ c.alone \in BOOLEAN
                             /\ c # Waits
    /\ \A c \in SubmitCall : [c EXCEPT !.alone = FALSE] \in SubmitCall
    /\ \A c \in SubmitCall, pc \in {"resources", "create"} : [c EXCEPT !.pc = pc] \in SubmitCall
  <1>1. NoJob.state = "none"
    BY DEF NoJob
  <1>2. NoJob \notin VcJobRow
    BY <1>1 DEF VcJobRow
  <1>3. \A c \in SubmitCall : c.pc # "idle"
    BY DEF SubmitCall
  <1>4. Waits.pc = "idle"
    BY DEF Waits
  <1>5. \A w \in Work : w.kind \in {"jupyter", "training"} /\ w.amount \in Nat /\ w.replicas \in Nat
                        /\ w.mounts \in BOOLEAN
    <2>1. 1..MaxAmount \subseteq Nat /\ 1..MaxReplicas \subseteq Nat
      BY SubmissionAssumption
    <2>2. \A w \in [kind : {"jupyter"}, amount : 1..MaxAmount, replicas : {1}, mounts : BOOLEAN] :
             w.kind = "jupyter" /\ w.amount \in 1..MaxAmount /\ w.replicas = 1 /\ w.mounts \in BOOLEAN
      OBVIOUS
    <2>3. \A w \in [kind : {"training"}, amount : 1..MaxAmount, replicas : 1..MaxReplicas, mounts : {FALSE}] :
             w.kind = "training" /\ w.amount \in 1..MaxAmount /\ w.replicas \in 1..MaxReplicas
             /\ w.mounts = FALSE
      OBVIOUS
    <2>4. ASSUME NEW w \in Work
          PROVE  w.kind \in {"jupyter", "training"} /\ w.amount \in 1..MaxAmount
                 /\ w.replicas \in (1..MaxReplicas) \cup {1} /\ w.mounts \in BOOLEAN
      BY <2>2, <2>3 DEF Work
    <2> QED
      BY <2>1, <2>4
  <1>6. \A m, n \in Nat : m * n \in Nat
    OBVIOUS
  <1> QED
    BY <1>1, <1>2, <1>3, <1>4, <1>5, <1>6 DEF SubmitCall

\* The sums of the amounts, by the table of jobs.
AmountsOf(rows, S) == [j \in S |-> rows[j].amount]

\* What the fold of Resources chooses is the sum of the amounts.
LEMMA SumOfAmounts ==
    ASSUME NEW rows, NEW S, IsFiniteSet(S)
    PROVE  (CHOOSE f : f = [s \in SUBSET S |->
                              IF s = {} THEN 0 ELSE rows[First(s)].amount + f[s \ {First(s)}]])[S]
           = Total(AmountsOf(rows, S), S)
  <1> DEFINE v == AmountsOf(rows, S)
             P(f) == f = [s \in SUBSET S |->
                            IF s = {} THEN 0 ELSE rows[First(s)].amount + f[s \ {First(s)}]]
  <1>1. \A f : SumsUp(f, v, S) <=> P(f)
    <2>1. ASSUME NEW f, NEW s \in SUBSET S
          PROVE  (IF s = {} THEN 0 ELSE v[First(s)] + f[s \ {First(s)}])
                 = (IF s = {} THEN 0 ELSE rows[First(s)].amount + f[s \ {First(s)}])
      BY FirstIn DEF AmountsOf
    <2>2. ASSUME NEW f
          PROVE  [s \in SUBSET S |-> IF s = {} THEN 0 ELSE v[First(s)] + f[s \ {First(s)}]]
                 = [s \in SUBSET S |-> IF s = {} THEN 0 ELSE rows[First(s)].amount + f[s \ {First(s)}]]
      BY <2>1
    <2> HIDE DEF v
    <2> QED
      BY <2>2 DEF SumsUp
  <1>2. \E f : P(f)
    <2> HIDE DEF P
    <2> QED
      BY <1>1, SolutionExists
  <1>3. P(CHOOSE f : P(f))
    <2> HIDE DEF P
    <2> QED
      BY <1>2
  <1>4. (CHOOSE f : P(f))[S] = Total(v, S)
    <2> HIDE DEF P, v
    <2> QED
      BY <1>1, <1>3, TotalOf
  <1> QED
    BY <1>4

\* Resources, the sum that ActiveAndToBeUsedJob makes, is the sum of the amounts.
LEMMA ResourcesOf ==
    ASSUME NEW S, IsFiniteSet(S)
    PROVE  Resources(S) = Total(AmountsOf(vcjob, S), S)
  BY SumOfAmounts DEF Resources, MapThenSumSet, MapThenFoldSet, First

\* The jobs of the table and of the cluster are finitely many, before and after a step.
LEMMA JobSets ==
    /\ IsFiniteSet(Recorded) /\ IsFiniteSet(Recorded') /\ IsFiniteSet(InCluster) /\ IsFiniteSet(InCluster')
    /\ Resources(Recorded) = Total(AmountsOf(vcjob, Recorded), Recorded)
    /\ Resources(Recorded)' = Total(AmountsOf(vcjob', Recorded'), Recorded')
    /\ Resources(InCluster)' = Total(AmountsOf(vcjob', InCluster'), InCluster')
  <1>1. IsFiniteSet(Recorded) /\ IsFiniteSet(Recorded') /\ IsFiniteSet(InCluster) /\ IsFiniteSet(InCluster')
    <2>1. /\ Recorded \in SUBSET JobSlots /\ Recorded' \in SUBSET JobSlots
          /\ InCluster \in SUBSET JobSlots /\ InCluster' \in SUBSET JobSlots
      BY DEF Recorded, InCluster
    <2> QED
      BY <2>1, FS_Subset, SubmissionAssumption
  <1>2. Resources(Recorded)' = Total(AmountsOf(vcjob', Recorded'), Recorded')
    <2>1. Resources(Recorded)' =
             (CHOOSE f : f = [s \in SUBSET Recorded' |->
                IF s = {} THEN 0 ELSE vcjob'[First(s)].amount + f[s \ {First(s)}]])[Recorded']
      BY DEF Resources, MapThenSumSet, MapThenFoldSet, First
    <2> QED
      BY <1>1, <2>1, SumOfAmounts
  <1>3. Resources(InCluster)' = Total(AmountsOf(vcjob', InCluster'), InCluster')
    <2>1. Resources(InCluster)' =
             (CHOOSE f : f = [s \in SUBSET InCluster' |->
                IF s = {} THEN 0 ELSE vcjob'[First(s)].amount + f[s \ {First(s)}]])[InCluster']
      BY DEF Resources, MapThenSumSet, MapThenFoldSet, First
    <2> QED
      BY <1>1, <2>1, SumOfAmounts
  <1> QED
    BY <1>1, <1>2, <1>3, ResourcesOf

\* When the jobs do not change, neither do the sums that the checks look at.
LEMMA SumsSame ==
    ASSUME UNCHANGED vcjob
    PROVE  Resources(Recorded)' = Resources(Recorded) /\ Jupyters(Recorded)' = Jupyters(Recorded)
  <1>1. Recorded' = Recorded
    BY DEF Recorded
  <1> QED
    BY <1>1, JobSets DEF Jupyters

\* A recorded job that changes its status, or ends, takes nothing more.
LEMMA RecordShrinks ==
    ASSUME SubmissionTypeOK, NEW j \in JobSlots, NEW state \in {"Pending", "Running", "Completed"},
           Record(j, state), vcjob[j].state # "created"
    PROVE  /\ Resources(Recorded)' <= Resources(Recorded) /\ Resources(Recorded)' \in Nat
           /\ Resources(Recorded) \in Nat
           /\ Jupyters(Recorded)' <= Jupyters(Recorded) /\ Jupyters(Recorded)' \in Nat
           /\ Jupyters(Recorded) \in Nat
  <1>1. vcjob[j] \in VcJobRow
    BY SubmissionShapes DEF SubmissionTypeOK, Record
  <1>2. vcjob' = [vcjob EXCEPT ![j] = [vcjob[j] EXCEPT !.state = state]]
    BY <1>1 DEF Record, SubmissionTypeOK
  <1>3. /\ vcjob'[j].state = state /\ vcjob'[j].amount = vcjob[j].amount /\ vcjob'[j].kind = vcjob[j].kind
        /\ \A i \in JobSlots \ {j} : vcjob'[i] = vcjob[i]
    BY <1>1, <1>2 DEF VcJobRow, SubmissionTypeOK
  <1>4. j \in Recorded /\ (Recorded' = Recorded \/ Recorded' = Recorded \ {j})
    BY <1>3 DEF Record, Recorded, OccupyingStatuses
  <1>5. \A i \in Recorded : vcjob[i] \in VcJobRow /\ vcjob[i].amount \in Nat
    <2>1. \A i \in JobSlots : vcjob[i] = NoJob \/ vcjob[i] \in VcJobRow
      BY DEF SubmissionTypeOK
    <2>2. \A i \in Recorded : i \in JobSlots /\ vcjob[i] # NoJob
      BY SubmissionShapes DEF Recorded, OccupyingStatuses
    <2> QED
      BY <2>1, <2>2 DEF VcJobRow
  <1> DEFINE v == AmountsOf(vcjob, Recorded)
  <1>6. \A i \in Recorded : v[i] \in Nat
    BY <1>5 DEF AmountsOf
  <1>7. \A i \in Recorded' : AmountsOf(vcjob', Recorded')[i] = v[i]
    BY <1>3, <1>4 DEF AmountsOf, Recorded
  <1>8. Resources(Recorded)' = Total(v, Recorded')
    <2> HIDE DEF v
    <2> QED
      BY <1>7, JobSets, TotalSame
  <1>9. Total(v, Recorded) \in Nat /\ Total(v, Recorded') \in Nat /\ Total(v, Recorded') <= Total(v, Recorded)
    <2>1. \A i \in Recorded' : v[i] \in Nat
      BY <1>4, <1>6
    <2>2. Total(v, Recorded) = Total(v, Recorded \ {j}) + v[j]
      <3> HIDE DEF v
      <3> QED
        BY <1>4, <1>6, JobSets, TotalRemove
    <2>3. Total(v, Recorded) \in Nat /\ Total(v, Recorded') \in Nat
      <3> HIDE DEF v
      <3> QED
        BY <1>6, <2>1, JobSets, TotalType
    <2>4. v[j] \in Nat
      BY <1>4, <1>6
    <2> HIDE DEF v
    <2> QED
      BY <1>4, <2>2, <2>3, <2>4
  <1>10. /\ Jupyters(Recorded)' <= Jupyters(Recorded) /\ Jupyters(Recorded)' \in Nat
         /\ Jupyters(Recorded) \in Nat
    <2> DEFINE J == {i \in Recorded : vcjob[i].kind = "jupyter"}
               K == {i \in Recorded' : vcjob'[i].kind = "jupyter"}
    <2>1. K \subseteq J
      BY <1>3, <1>4 DEF Recorded
    <2>2. IsFiniteSet(J)
      BY JobSets, FS_Subset
    <2>3. IsFiniteSet(K) /\ Cardinality(K) <= Cardinality(J)
      BY <2>1, <2>2, FS_Subset
    <2>4. Cardinality(K) \in Nat /\ Cardinality(J) \in Nat
      BY <2>2, <2>3, FS_CardinalityType
    <2> QED
      BY <2>3, <2>4 DEF Jupyters
  <1> QED
    BY <1>8, <1>9, <1>10, JobSets

\* Every step keeps the types.
LEMMA SubmissionTypes == ASSUME SubmissionTypeOK, SubmissionNext PROVE SubmissionTypeOK'
  <1>0. /\ \A s \in Submits : submit[s] # Waits => submit[s] \in SubmitCall
        /\ submit \in [Submits -> {Waits} \cup SubmitCall]
        /\ vcjob \in [JobSlots -> {NoJob} \cup VcJobRow]
    BY DEF SubmissionTypeOK
  <1>1. ASSUME NEW s \in Submits, NEW new \in {Waits} \cup SubmitCall, SetSubmit(s, new)
        PROVE  submit' \in [Submits -> {Waits} \cup SubmitCall]
    BY <1>0, <1>1 DEF SetSubmit
  <1>2. ASSUME NEW q \in Quotas, NEW m \in Modes, UpdateUserProject(q, m) PROVE SubmissionTypeOK'
    <2>1. submit' \in [Submits -> {Waits} \cup SubmitCall]
      BY <1>0, <1>2, SubmissionShapes DEF UpdateUserProject, Disturbed
    <2>2. adminSteps' \in 0..MaxAdmin
      BY <1>2, SubmissionAssumption DEF UpdateUserProject, SubmissionTypeOK
    <2> QED
      BY <1>2, <2>1, <2>2 DEF UpdateUserProject, SubmissionTypeOK
  <1>3. CASE Login
    BY <1>3 DEF Login, SubmissionTypeOK
  <1>4. ASSUME NEW s \in Submits, NEW asked \in Work, AuthProtected(s, asked) PROVE SubmissionTypeOK'
    <2>1. PICK alone \in BOOLEAN : submit' = [t \in Submits |->
             IF t = s THEN [pc |-> "jupyter", work |-> asked, token |-> tokenMode, begun |-> mode, alone |-> alone]
             ELSE IF submit[t] = Waits THEN Waits ELSE [submit[t] EXCEPT !.alone = FALSE]]
      <3> DEFINE al == {t \in Submits \ {s} : submit[t] # Waits} = {} /\ \A j \in JobSlots : vcjob[j].state # "created"
      <3>1. al \in BOOLEAN
        OBVIOUS
      <3>2. submit' = [t \in Submits |->
             IF t = s THEN [pc |-> "jupyter", work |-> asked, token |-> tokenMode, begun |-> mode, alone |-> al]
             ELSE IF submit[t] = Waits THEN Waits ELSE [submit[t] EXCEPT !.alone = FALSE]]
        BY <1>4 DEF AuthProtected, Begin
      <3> HIDE DEF al
      <3> QED
        BY <3>1, <3>2
    <2>2. [pc |-> "jupyter", work |-> asked, token |-> tokenMode, begun |-> mode, alone |-> alone] \in SubmitCall
      BY DEF SubmissionTypeOK, SubmitCall
    <2>3. submit' \in [Submits -> {Waits} \cup SubmitCall]
      BY <1>0, <2>1, <2>2, SubmissionShapes
    <2> QED
      BY <1>4, <2>3 DEF AuthProtected, SubmissionTypeOK
  <1>9. ASSUME NEW s \in Submits, LookupFails(s) PROVE SubmissionTypeOK'
    <2>1. submit[s] \in SubmitCall
      BY <1>0, <1>9 DEF LookupFails, Waits
    <2>2. [submit[s] EXCEPT !.pc = "create", !.alone = FALSE] \in SubmitCall
      BY <2>1 DEF SubmitCall
    <2>3. submit' \in [Submits -> {Waits} \cup SubmitCall]
      BY <1>1, <1>9, <2>2 DEF LookupFails
    <2> QED
      BY <1>9, <2>3 DEF LookupFails, SubmissionTypeOK
  <1>5. ASSUME NEW s \in Submits, CheckJupyterLimit(s) \/ CheckResources(s) \/ SubmitFails(s)
        PROVE  SubmissionTypeOK'
    <2>1. submit[s] # Waits
      BY <1>5 DEF CheckJupyterLimit, CheckResources, SubmitFails, Waits
    <2>2. PICK new \in {Waits, [submit[s] EXCEPT !.pc = "resources"], [submit[s] EXCEPT !.pc = "create"]} :
             SetSubmit(s, new)
      BY <1>5 DEF CheckJupyterLimit, CheckResources, SubmitFails
    <2>3. new \in {Waits} \cup SubmitCall
      BY <1>0, <2>1, SubmissionShapes
    <2>4. submit' \in [Submits -> {Waits} \cup SubmitCall]
      BY <1>1, <2>2, <2>3
    <2> QED
      BY <1>5, <2>4 DEF CheckJupyterLimit, CheckResources, SubmitFails, SubmissionTypeOK
  <1>6. ASSUME NEW s \in Submits, NEW j \in JobSlots, CreateVcJob(s, j) PROVE SubmissionTypeOK'
    <2> DEFINE row == [state |-> "created", kind |-> submit[s].work.kind,
                       amount |-> submit[s].work.amount * submit[s].work.replicas,
                       writes |-> submit[s].work.mounts /\ submit[s].token = "RW"]
    <2>1. submit[s] \in SubmitCall
      BY <1>0, <1>6 DEF CreateVcJob, Waits
    <2>2. row \in VcJobRow
      <3>1. /\ submit[s].work.kind \in {"jupyter", "training"}
            /\ submit[s].work.amount * submit[s].work.replicas \in Nat
        BY <2>1, SubmissionShapes
      <3>2. (submit[s].work.mounts /\ submit[s].token = "RW") \in BOOLEAN
        OBVIOUS
      <3> QED
        BY <3>1, <3>2 DEF VcJobRow
    <2>3. vcjob' = [vcjob EXCEPT ![j] = row] /\ UNCHANGED <<quota, mode, tokenMode, adminSteps>>
      BY <1>6 DEF CreateVcJob
    <2>4. submit' \in [Submits -> {Waits} \cup SubmitCall]
      BY <1>0, <1>6, SubmissionShapes DEF CreateVcJob
    <2> HIDE DEF row
    <2> QED
      BY <1>0, <2>2, <2>3, <2>4 DEF SubmissionTypeOK
  <1>7. ASSUME NEW j \in JobSlots, NEW state \in {"Pending", "Running", "Completed"}, Record(j, state)
        PROVE  SubmissionTypeOK'
    <2>1. vcjob[j] \in VcJobRow
      BY <1>0, <1>7, SubmissionShapes DEF Record
    <2>2. [vcjob[j] EXCEPT !.state = state] \in VcJobRow
      BY <2>1 DEF VcJobRow
    <2>3. vcjob' = [vcjob EXCEPT ![j] = [vcjob[j] EXCEPT !.state = state]]
      BY <1>0, <1>7 DEF Record
    <2> QED
      BY <1>0, <1>7, <2>2, <2>3 DEF Record, SubmissionTypeOK
  <1> QED
    BY <1>2, <1>3, <1>4, <1>5, <1>6, <1>7, <1>9 DEF SubmissionNext

\* The recorded jobs are rows, and what they take is a number.
LEMMA RecordedSum ==
    ASSUME SubmissionTypeOK
    PROVE  Resources(Recorded) \in Nat /\ \A i \in Recorded : vcjob[i] \in VcJobRow /\ vcjob[i].amount \in Nat
  <1>1. \A i \in Recorded : vcjob[i] \in VcJobRow /\ vcjob[i].amount \in Nat
    <2>1. \A i \in JobSlots : vcjob[i] = NoJob \/ vcjob[i] \in VcJobRow
      BY DEF SubmissionTypeOK
    <2>2. \A i \in Recorded : i \in JobSlots /\ vcjob[i] # NoJob
      BY SubmissionShapes DEF Recorded, OccupyingStatuses
    <2> QED
      BY <2>1, <2>2 DEF VcJobRow
  <1>2. \A i \in Recorded : AmountsOf(vcjob, Recorded)[i] \in Nat
    BY <1>1 DEF AmountsOf
  <1> QED
    BY <1>1, <1>2, JobSets, TotalType


\* A request that is not written keeps what its checks said.
LEMMA CheckedKept ==
    ASSUME UNCHANGED <<vcjob, quota>>, NEW s \in Submits, submit'[s] = submit[s], Checked(s)
    PROVE  Checked(s)'
  BY SumsSame DEF Checked

\* The step of one request: what it keeps of its call, and what it has checked.
LEMMA OneRequest ==
    ASSUME SubmissionInv, NEW s \in Submits, submit[s] # Waits, NEW new \in {Waits} \cup SubmitCall,
           SetSubmit(s, new), UNCHANGED <<quota, vcjob>>,
           new # Waits => /\ new.token = submit[s].token /\ new.begun = submit[s].begun
                          /\ new.alone => submit[s].alone /\ Checked(s)'
    PROVE  TokenAsBegun' /\ AloneIsChecked'
  <1>1. submit'[s] = new /\ \A t \in Submits \ {s} : submit'[t] = submit[t]
    BY DEF SetSubmit, SubmissionInv, SubmissionTypeOK
  <1>2. TokenAsBegun'
    BY <1>1 DEF SubmissionInv, TokenAsBegun
  <1>3. ASSUME NEW t \in Submits, submit'[t] # Waits, submit'[t].alone
        PROVE  /\ \A u \in Submits \ {t} : submit'[u] = Waits
               /\ \A j \in JobSlots : vcjob'[j].state # "created"
               /\ Checked(t)'
    <2>1. submit[t] # Waits /\ submit[t].alone
      BY <1>1, <1>3
    <2>2. /\ \A u \in Submits \ {t} : submit[u] = Waits
          /\ \A j \in JobSlots : vcjob[j].state # "created"
          /\ Checked(t)
      BY <2>1 DEF SubmissionInv, AloneIsChecked
    <2>3. t = s
      BY <2>2
    <2> QED
      BY <1>1, <1>3, <2>2, <2>3
  <1> QED
    BY <1>2, <1>3 DEF AloneIsChecked

\* Requests that are disturbed are not alone any more.
LEMMA DisturbedRequests ==
    ASSUME SubmissionInv,
           \A t \in Submits : submit'[t] = Waits
              \/ (submit[t] \in SubmitCall /\ submit'[t] = [submit[t] EXCEPT !.alone = FALSE])
    PROVE  TokenAsBegun' /\ AloneIsChecked'
  <1>1. ASSUME NEW t \in Submits, submit'[t] # Waits
        PROVE  /\ submit[t] # Waits /\ submit'[t].alone = FALSE
               /\ submit'[t].token = submit[t].token /\ submit'[t].begun = submit[t].begun
    <2>1. submit[t] \in SubmitCall /\ submit'[t] = [submit[t] EXCEPT !.alone = FALSE]
      BY <1>1
    <2>2. submit[t] # Waits
      BY <2>1, SubmissionShapes
    <2> QED
      BY <2>1, <2>2 DEF SubmitCall
  <1> QED
    BY <1>1 DEF SubmissionInv, TokenAsBegun, AloneIsChecked

\* Every step keeps the token's mode with which a request began and the sum that a
\* request alone has checked.
LEMMA SubmissionSteps ==
    ASSUME SubmissionInv, SubmissionNext
    PROVE  TokenAsBegun' /\ AloneIsChecked'
  <1>0. /\ SubmissionTypeOK /\ TokenAsBegun /\ AloneIsChecked
        /\ \A s \in Submits : submit[s] # Waits => submit[s] \in SubmitCall
    BY DEF SubmissionInv, SubmissionTypeOK
  <1>1. ASSUME NEW q \in Quotas, NEW m \in Modes, UpdateUserProject(q, m)
        PROVE  TokenAsBegun' /\ AloneIsChecked'
    <2>1. ASSUME NEW t \in Submits
          PROVE  submit'[t] = Waits
                 \/ (submit[t] \in SubmitCall /\ submit'[t] = [submit[t] EXCEPT !.alone = FALSE])
      <3>1. submit'[t] = IF submit[t] = Waits THEN Waits ELSE [submit[t] EXCEPT !.alone = FALSE]
        BY <1>1 DEF UpdateUserProject, Disturbed
      <3>2. submit[t] = Waits \/ submit[t] \in SubmitCall
        BY <1>0
      <3> QED
        BY <3>1, <3>2
    <2> QED
      BY <2>1, DisturbedRequests
  <1>2. CASE Login
    <2>1. UNCHANGED <<submit, vcjob, quota>>
      BY <1>2 DEF Login
    <2>2. \A s \in Submits : Checked(s) => Checked(s)'
      BY <2>1, CheckedKept
    <2> QED
      BY <1>0, <2>1, <2>2 DEF TokenAsBegun, AloneIsChecked
  <1>3. ASSUME NEW s \in Submits, NEW asked \in Work, AuthProtected(s, asked)
        PROVE  TokenAsBegun' /\ AloneIsChecked'
    <2> DEFINE al == {t \in Submits \ {s} : submit[t] # Waits} = {} /\ \A j \in JobSlots : vcjob[j].state # "created"
               call == [pc |-> "jupyter", work |-> asked, token |-> tokenMode, begun |-> mode, alone |-> al]
    <2>1. submit' = [t \in Submits |-> IF t = s THEN call
                        ELSE IF submit[t] = Waits THEN Waits ELSE [submit[t] EXCEPT !.alone = FALSE]]
      BY <1>3 DEF AuthProtected, Begin
    <2>2. call.token = tokenMode /\ call.begun = mode /\ call.pc = "jupyter" /\ (call.alone <=> al)
      OBVIOUS
    <2>3. tokenMode = mode /\ UNCHANGED <<quota, vcjob>>
      BY <1>3 DEF AuthProtected
    <2>4. al => /\ \A t \in Submits \ {s} : submit[t] = Waits
                /\ \A j \in JobSlots : vcjob[j].state # "created"
      OBVIOUS
    <2> HIDE DEF call, al
    <2>5. /\ submit'[s] = call
          /\ \A t \in Submits \ {s} : submit'[t] = IF submit[t] = Waits THEN Waits
                                                   ELSE [submit[t] EXCEPT !.alone = FALSE]
      BY <2>1
    <2>6. \A t \in Submits \ {s} : submit'[t] # Waits =>
             /\ submit[t] # Waits /\ submit'[t].alone = FALSE
             /\ submit'[t].token = submit[t].token /\ submit'[t].begun = submit[t].begun
      BY <1>0, <2>5 DEF SubmitCall
    <2>7. TokenAsBegun'
      BY <1>0, <2>2, <2>3, <2>5, <2>6 DEF TokenAsBegun
    <2>8. Checked(s)'
      BY <2>2, <2>5 DEF Checked
    <2>9. ASSUME NEW t \in Submits, submit'[t] # Waits, submit'[t].alone
          PROVE  /\ \A u \in Submits \ {t} : submit'[u] = Waits
                 /\ \A j \in JobSlots : vcjob'[j].state # "created"
                 /\ Checked(t)'
      <3>1. t = s
        BY <2>6, <2>9
      <3>2. al
        BY <2>2, <2>5, <2>9, <3>1
      <3> QED
        BY <2>3, <2>4, <2>5, <2>8, <3>1, <3>2
    <2> QED
      BY <2>7, <2>9 DEF AloneIsChecked
  <1>4. ASSUME NEW s \in Submits, CheckJupyterLimit(s) PROVE TokenAsBegun' /\ AloneIsChecked'
    <2> DEFINE new == IF submit[s].work.kind = "jupyter" /\ Jupyters(Recorded) >= quota.jupyter
                      THEN Waits ELSE [submit[s] EXCEPT !.pc = "resources"]
    <2>1. submit[s] # Waits /\ submit[s] \in SubmitCall
      BY <1>0, <1>4 DEF CheckJupyterLimit, Waits
    <2>2. SetSubmit(s, new) /\ UNCHANGED <<quota, vcjob>>
      BY <1>4 DEF CheckJupyterLimit
    <2>3. new \in {Waits} \cup SubmitCall
      BY <2>1, SubmissionShapes
    <2>4. submit'[s] = new
      BY <1>0, <2>2 DEF SetSubmit, SubmissionTypeOK
    <2>5. new # Waits => /\ new = [submit[s] EXCEPT !.pc = "resources"]
                         /\ submit[s].work.kind = "jupyter" => ~(Jupyters(Recorded) >= quota.jupyter)
      OBVIOUS
    <2> HIDE DEF new
    <2>6. new # Waits => /\ new.token = submit[s].token /\ new.begun = submit[s].begun
                         /\ new.alone = submit[s].alone /\ new.pc = "resources" /\ new.work = submit[s].work
      BY <2>1, <2>5 DEF SubmitCall
    <2>7. ~(Jupyters(Recorded) >= quota.jupyter) => Jupyters(Recorded) < quota.jupyter
      <3>1. Jupyters(Recorded) \in Nat
        <4>1. IsFiniteSet({j \in Recorded : vcjob[j].kind = "jupyter"})
          BY JobSets, FS_Subset
        <4> QED
          BY <4>1, FS_CardinalityType DEF Jupyters
      <3>2. quota.jupyter \in Nat
        BY <1>0 DEF SubmissionTypeOK, Quotas, NoLimit
      <3> QED
        BY <3>1, <3>2
    <2>8. new # Waits => Checked(s)'
      BY <2>2, <2>4, <2>5, <2>6, <2>7, SumsSame DEF Checked
    <2> QED
      BY <2>1, <2>2, <2>3, <2>6, <2>8, OneRequest
  <1>5. ASSUME NEW s \in Submits, CheckResources(s) PROVE TokenAsBegun' /\ AloneIsChecked'
    <2> DEFINE new == IF Resources(Recorded) + submit[s].work.amount > quota.amount
                      THEN Waits ELSE [submit[s] EXCEPT !.pc = "create"]
    <2>1. submit[s] # Waits /\ submit[s] \in SubmitCall /\ submit[s].pc = "resources"
      BY <1>0, <1>5 DEF CheckResources, Waits
    <2>2. SetSubmit(s, new) /\ UNCHANGED <<quota, vcjob>>
      BY <1>5 DEF CheckResources
    <2>3. new \in {Waits} \cup SubmitCall
      BY <2>1, SubmissionShapes
    <2>4. submit'[s] = new
      BY <1>0, <2>2 DEF SetSubmit, SubmissionTypeOK
    <2>5. new # Waits => /\ new = [submit[s] EXCEPT !.pc = "create"]
                         /\ ~(Resources(Recorded) + submit[s].work.amount > quota.amount)
      OBVIOUS
    <2> HIDE DEF new
    <2>6. new # Waits => /\ new.token = submit[s].token /\ new.begun = submit[s].begun
                         /\ new.alone = submit[s].alone /\ new.pc = "create" /\ new.work = submit[s].work
      BY <2>1, <2>5 DEF SubmitCall
    <2>7. ~(Resources(Recorded) + submit[s].work.amount > quota.amount)
             => Resources(Recorded) + submit[s].work.amount <= quota.amount
      <3>1. Resources(Recorded) \in Nat
        BY <1>0, RecordedSum
      <3>2. quota.amount \in Nat
        <4>1. 1..MaxAmount \subseteq Nat
          BY SubmissionAssumption
        <4> QED
          BY <1>0, <4>1 DEF SubmissionTypeOK, Quotas, NoLimit
      <3>3. submit[s].work.amount \in Nat
        BY <2>1, SubmissionShapes
      <3> QED
        BY <3>1, <3>2, <3>3
    <2>8. submit[s].alone /\ submit[s].work.kind = "jupyter" => Jupyters(Recorded) < quota.jupyter
      BY <1>0, <2>1 DEF AloneIsChecked, Checked
    <2>9. new # Waits /\ new.alone => Checked(s)'
      BY <2>2, <2>4, <2>5, <2>6, <2>7, <2>8, SumsSame DEF Checked
    <2> QED
      BY <2>1, <2>2, <2>3, <2>6, <2>9, OneRequest
  <1>6. ASSUME NEW s \in Submits, SubmitFails(s) PROVE TokenAsBegun' /\ AloneIsChecked'
    BY <1>6, OneRequest DEF SubmitFails, Waits
  <1>9. ASSUME NEW s \in Submits, LookupFails(s) PROVE TokenAsBegun' /\ AloneIsChecked'
    <2> DEFINE new == [submit[s] EXCEPT !.pc = "create", !.alone = FALSE]
    <2>1. submit[s] # Waits /\ submit[s] \in SubmitCall
      BY <1>0, <1>9 DEF LookupFails, Waits
    <2>2. /\ new \in SubmitCall /\ new.token = submit[s].token /\ new.begun = submit[s].begun
          /\ new.alone = FALSE
      BY <2>1 DEF SubmitCall
    <2>3. SetSubmit(s, new) /\ UNCHANGED <<quota, vcjob>>
      BY <1>9 DEF LookupFails
    <2> HIDE DEF new
    <2> QED
      BY <2>1, <2>2, <2>3, OneRequest
  <1>7. ASSUME NEW s \in Submits, NEW j \in JobSlots, CreateVcJob(s, j)
        PROVE  TokenAsBegun' /\ AloneIsChecked'
    <2>1. ASSUME NEW t \in Submits
          PROVE  submit'[t] = Waits
                 \/ (submit[t] \in SubmitCall /\ submit'[t] = [submit[t] EXCEPT !.alone = FALSE])
      <3>1. submit'[t] = IF t = s \/ submit[t] = Waits THEN Waits ELSE [submit[t] EXCEPT !.alone = FALSE]
        BY <1>7 DEF CreateVcJob
      <3>2. submit[t] = Waits \/ submit[t] \in SubmitCall
        BY <1>0
      <3> QED
        BY <3>1, <3>2
    <2> QED
      BY <2>1, DisturbedRequests
  <1>8. ASSUME NEW j \in JobSlots, NEW state \in {"Pending", "Running", "Completed"}, Record(j, state)
        PROVE  TokenAsBegun' /\ AloneIsChecked'
    <2>1. UNCHANGED <<submit, quota>>
      BY <1>8 DEF Record
    <2>2. ASSUME NEW s \in Submits, submit[s] # Waits, submit[s].alone
          PROVE  (\A i \in JobSlots : vcjob'[i].state # "created") /\ Checked(s)'
      <3>1. (\A i \in JobSlots : vcjob[i].state # "created") /\ Checked(s) /\ submit[s] \in SubmitCall
        BY <1>0, <2>2 DEF AloneIsChecked
      <3>2. /\ Resources(Recorded)' <= Resources(Recorded) /\ Resources(Recorded)' \in Nat
            /\ Resources(Recorded) \in Nat
            /\ Jupyters(Recorded)' <= Jupyters(Recorded) /\ Jupyters(Recorded)' \in Nat
            /\ Jupyters(Recorded) \in Nat
        BY <1>0, <1>8, <3>1, RecordShrinks
      <3>3. \A i \in JobSlots : vcjob'[i].state # "created"
        <4>1. vcjob[j] \in VcJobRow
          BY <1>0, <1>8, SubmissionShapes DEF Record, SubmissionTypeOK
        <4>2. vcjob' = [vcjob EXCEPT ![j] = [vcjob[j] EXCEPT !.state = state]]
          BY <1>0, <1>8 DEF Record, SubmissionTypeOK
        <4>3. [vcjob[j] EXCEPT !.state = state].state = state
          BY <4>1 DEF VcJobRow
        <4> QED
          BY <1>0, <3>1, <4>2, <4>3 DEF SubmissionTypeOK
      <3>4. quota.jupyter \in Nat /\ quota.amount \in Nat /\ submit[s].work.amount \in Nat
        <4>1. 1..MaxAmount \subseteq Nat
          BY SubmissionAssumption
        <4> QED
          BY <1>0, <3>1, <4>1, SubmissionShapes DEF SubmissionTypeOK, Quotas, NoLimit
      <3> HIDE <2>2
      <3>5. Checked(s)'
        <4>1. submit[s].pc # "jupyter" /\ submit[s].work.kind = "jupyter" => Jupyters(Recorded)' < quota.jupyter
          BY <3>1, <3>2, <3>4 DEF Checked
        <4>2. submit[s].pc = "create" => Resources(Recorded)' + submit[s].work.amount <= quota.amount
          BY <3>1, <3>2, <3>4 DEF Checked
        <4> QED
          BY <2>1, <4>1, <4>2 DEF Checked
      <3> QED
        BY <3>3, <3>5
    <2> QED
      BY <1>0, <2>1, <2>2 DEF TokenAsBegun, AloneIsChecked
  <1> QED
    BY <1>1, <1>2, <1>3, <1>4, <1>5, <1>6, <1>7, <1>8, <1>9 DEF SubmissionNext

\* Only the request that creates a job goes back to idle with it.
LEMMA CreatedByRequest ==
    ASSUME SubmissionTypeOK, SubmissionNext, NEW s \in Submits, NEW j \in JobSlots, Created(s, j)
    PROVE  CreateVcJob(s, j)
  <1>0. vcjob[j] = NoJob /\ vcjob'[j] # NoJob /\ vcjob'[j] # vcjob[j] /\ submit[s] # Waits /\ submit'[s] = Waits
    BY DEF Created, Waits
  <1>1. ~(UNCHANGED vcjob)
    BY <1>0
  <1>2. ASSUME NEW i \in JobSlots, NEW state \in {"Pending", "Running", "Completed"}, Record(i, state)
        PROVE  FALSE
    BY <1>0, <1>2 DEF Record
  <1>3. PICK t \in Submits, i \in JobSlots : CreateVcJob(t, i)
    BY <1>1, <1>2 DEF SubmissionNext, UpdateUserProject, Login, AuthProtected, CheckJupyterLimit,
       CheckResources, LookupFails, SubmitFails
  <1>4. i = j
    BY <1>0, <1>3 DEF CreateVcJob, SubmissionTypeOK
  <1>5. t = s
    <2>1. submit'[s] = IF s = t \/ submit[s] = Waits THEN Waits ELSE [submit[s] EXCEPT !.alone = FALSE]
      BY <1>3 DEF CreateVcJob
    <2>2. [submit[s] EXCEPT !.alone = FALSE] # Waits
      BY <1>0, SubmissionShapes DEF SubmissionTypeOK
    <2> QED
      BY <1>0, <2>1, <2>2
  <1> QED
    BY <1>3, <1>4, <1>5

\* A job created by a request that was alone adds its amount to the rows.
LEMMA CreatedAlone ==
    ASSUME SubmissionInv, NEW s \in Submits, NEW j \in JobSlots, CreateVcJob(s, j),
           submit[s].alone, submit[s].work.replicas = 1
    PROVE  /\ Resources(InCluster)' <= quota.amount
           /\ submit[s].work.kind = "jupyter" => Jupyters(InCluster)' <= quota.jupyter
  <1> DEFINE row == [state |-> "created", kind |-> submit[s].work.kind,
                     amount |-> submit[s].work.amount * submit[s].work.replicas,
                     writes |-> submit[s].work.mounts /\ submit[s].token = "RW"]
  <1>0. /\ SubmissionTypeOK /\ submit[s] \in SubmitCall /\ submit[s] # Waits /\ submit[s].pc = "create"
        /\ vcjob[j] = NoJob
    BY DEF SubmissionInv, SubmissionTypeOK, CreateVcJob, Waits
  <1>1. (\A i \in JobSlots : vcjob[i].state # "created") /\ Checked(s)
    BY <1>0 DEF SubmissionInv, AloneIsChecked
  <1>2. submit[s].work.amount \in Nat /\ row.amount = submit[s].work.amount
        /\ row.state = "created" /\ row.kind = submit[s].work.kind
    BY <1>0, SubmissionShapes
  <1>3. vcjob' = [vcjob EXCEPT ![j] = row]
    BY DEF CreateVcJob
  <1> HIDE DEF row
  <1>4. vcjob'[j] = row /\ \A i \in JobSlots \ {j} : vcjob'[i] = vcjob[i]
    BY <1>0, <1>3 DEF SubmissionTypeOK
  <1>5. InCluster' = Recorded \cup {j} /\ j \notin Recorded
    BY <1>0, <1>1, <1>2, <1>4, SubmissionShapes DEF InCluster, Recorded, OccupyingStatuses
  <1>6. Resources(Recorded) \in Nat /\ \A i \in Recorded : vcjob[i] \in VcJobRow /\ vcjob[i].amount \in Nat
    BY <1>0, RecordedSum
  <1>7. quota.amount \in Nat /\ quota.jupyter \in Nat
    <2>1. 1..MaxAmount \subseteq Nat
      BY SubmissionAssumption
    <2> QED
      BY <1>0, <2>1 DEF SubmissionTypeOK, Quotas, NoLimit
  <1> DEFINE w == AmountsOf(vcjob', InCluster')
  <1>8. w[j] = submit[s].work.amount /\ \A i \in Recorded : w[i] = vcjob[i].amount
    BY <1>2, <1>4, <1>5 DEF AmountsOf, Recorded
  <1>9. \A i \in Recorded : w[i] = AmountsOf(vcjob, Recorded)[i] /\ w[i] \in Nat
    BY <1>6, <1>8 DEF AmountsOf
  <1> HIDE DEF w
  <1>10. Total(w, InCluster') = Total(w, Recorded) + w[j]
    BY <1>2, <1>5, <1>8, <1>9, JobSets, TotalAdd
  <1>11. Total(w, Recorded) = Resources(Recorded)
    BY <1>9, JobSets, TotalSame
  <1>12. Resources(InCluster)' = Resources(Recorded) + submit[s].work.amount
    BY <1>8, <1>10, <1>11, JobSets DEF w
  <1>13. Resources(Recorded) + submit[s].work.amount <= quota.amount
    BY <1>0, <1>1 DEF Checked
  <1>14. ASSUME submit[s].work.kind = "jupyter" PROVE Jupyters(InCluster)' <= quota.jupyter
    <2> DEFINE J == {i \in Recorded : vcjob[i].kind = "jupyter"}
    <2>1. {i \in InCluster' : vcjob'[i].kind = "jupyter"} = J \cup {j}
      BY <1>2, <1>4, <1>5, <1>14 DEF Recorded
    <2>2. j \notin J /\ IsFiniteSet(J)
      BY <1>5, JobSets, FS_Subset
    <2>3. Cardinality(J \cup {j}) = Cardinality(J) + 1 /\ Cardinality(J) \in Nat
      BY <2>2, FS_AddElement, FS_CardinalityType
    <2>4. Cardinality(J) < quota.jupyter
      BY <1>0, <1>1, <1>14 DEF Checked, Jupyters
    <2>5. Jupyters(InCluster)' = Cardinality(J \cup {j})
      BY <2>1 DEF Jupyters
    <2> HIDE DEF J
    <2> QED
      BY <1>7, <2>3, <2>4, <2>5
  <1> QED
    BY <1>12, <1>13, <1>14

\* The inductive invariant: requests have their shapes, begin with the mode of the
\* token they passed AuthProtected with, and the checks of a request that is alone
\* still hold of the rows, which are all the jobs of the cluster.
THEOREM SubmissionInvariance == SubmissionSpec => []SubmissionInv
  <1>1. SubmissionInit => SubmissionInv
    <2> SUFFICES ASSUME SubmissionInit PROVE SubmissionInv
      OBVIOUS
    <2>1. SubmissionTypeOK
      BY SubmissionAssumption DEF SubmissionInit, SubmissionTypeOK, Quotas, Modes
    <2> QED
      BY <2>1 DEF SubmissionInit, SubmissionInv, TokenAsBegun, AloneIsChecked
  <1>2. SubmissionInv /\ [SubmissionNext]_submissionVars => SubmissionInv'
    <2> SUFFICES ASSUME SubmissionInv, [SubmissionNext]_submissionVars PROVE SubmissionInv'
      OBVIOUS
    <2>1. CASE SubmissionNext
      BY <2>1, SubmissionTypes, SubmissionSteps DEF SubmissionInv
    <2>2. CASE UNCHANGED submissionVars
      <3>1. \A s \in Submits : Checked(s) => Checked(s)'
        BY <2>2, CheckedKept DEF submissionVars
      <3> QED
        BY <2>2, <3>1 DEF submissionVars, SubmissionInv, SubmissionTypeOK, TokenAsBegun, AloneIsChecked
    <2> QED
      BY <2>1, <2>2
  <1> QED
    BY <1>1, <1>2, PTL DEF SubmissionSpec

\* A request that was alone keeps the member within the limits: CreateJupyterJob and
\* CreateTrainingJob check the table, which then has every job of the cluster.
THEOREM LimitsKept == SubmissionSpec => WithinLimits
  <1>1. SubmissionInv /\ [SubmissionNext]_submissionVars =>
          [\A s \in Submits, j \in JobSlots :
              Created(s, j) /\ submit[s].alone /\ submit[s].work.replicas = 1 =>
                  /\ Resources(InCluster)' <= quota.amount
                  /\ submit[s].work.kind = "jupyter" => Jupyters(InCluster)' <= quota.jupyter]_submissionVars
    <2> SUFFICES ASSUME SubmissionInv, SubmissionNext, NEW s \in Submits, NEW j \in JobSlots,
                        Created(s, j), submit[s].alone, submit[s].work.replicas = 1
                 PROVE  /\ Resources(InCluster)' <= quota.amount
                        /\ submit[s].work.kind = "jupyter" => Jupyters(InCluster)' <= quota.jupyter
      OBVIOUS
    <2>1. CreateVcJob(s, j)
      BY CreatedByRequest DEF SubmissionInv
    <2> QED
      BY <2>1, CreatedAlone
  <1> QED
    BY <1>1, SubmissionInvariance, PTL DEF SubmissionSpec, WithinLimits

\* A job that writes the account's files was asked for by a request that began with
\* the mode RW in the table.
THEOREM ReducedRightsAreKept == SubmissionSpec => ReducedRightsHold
  <1>1. SubmissionInv /\ [SubmissionNext]_submissionVars =>
          [\A s \in Submits, j \in JobSlots :
              Created(s, j) /\ vcjob'[j].writes => submit[s].begun = "RW"]_submissionVars
    <2> SUFFICES ASSUME SubmissionInv, SubmissionNext, NEW s \in Submits, NEW j \in JobSlots,
                        Created(s, j), vcjob'[j].writes
                 PROVE  submit[s].begun = "RW"
      OBVIOUS
    <2>1. CreateVcJob(s, j)
      BY CreatedByRequest DEF SubmissionInv
    <2>2. vcjob'[j].writes = (submit[s].work.mounts /\ submit[s].token = "RW")
      BY <2>1 DEF CreateVcJob, SubmissionInv, SubmissionTypeOK
    <2>3. submit[s].token = "RW"
      BY <2>2
    <2>4. submit[s] # Waits
      BY <2>1 DEF CreateVcJob, Waits
    <2> QED
      BY <2>3, <2>4 DEF SubmissionInv, TokenAsBegun
  <1> QED
    BY <1>1, SubmissionInvariance, PTL DEF SubmissionSpec, ReducedRightsHold

-----------------------------------------------------------------------------
(* Locks and approval orders *)

\* Where a request of the locks can be.
LockCalls == {"idle", "write", "lock", "autowrite", "insert", "list", "cancel"}

\* The bounds of the clock and the locks are numbers.
LEMMA LockNumbers ==
    /\ Times \subseteq Nat /\ 0..MaxTime \subseteq Nat /\ OrderIds \subseteq Nat /\ 1 \in OrderIds
    /\ NoLock \in Times /\ Permanent \in Times /\ 0..MaxLock \subseteq Times /\ 1 \in 0..MaxTime
  BY LockAssumption DEF Times, OrderIds, NoLock, Permanent

\* The fields of a request.
LEMMA ReqFields ==
    \A r \in Req : /\ r.pc \in LockCalls /\ r.user \in Users /\ r.name \in Jobs /\ r.type \in OrderType
                   /\ r.hours \in Hours \cup {0} /\ r.read \in Times /\ r.value \in Times
                   /\ r.auto \in BOOLEAN /\ r.overlapped \in BOOLEAN
                   /\ r.todo \in SUBSET (OrderIds \X Jobs) /\ r.order \in OrderIds
  BY DEF Req, LockCalls

\* The fields of an approval order.
LEMMA OrderFields ==
    \A o \in Order : /\ o.state \in {"none", "live", "deleted", "failed"} /\ o.name \in Jobs
                     /\ o.type \in OrderType /\ o.status \in OrderStatus /\ o.auto \in BOOLEAN
                     /\ o.creator \in Users /\ o.created \in 0..MaxTime /\ o.alone \in BOOLEAN
  BY DEF Order

\* A request at rest is a request, and approves nothing.
LEMMA NoReqShape ==
    /\ NoReq \in Req /\ NoReq.pc = "idle" /\ NoReq.auto = FALSE /\ ~MayApprove(NoReq)
  <1>1. NoReq \in Req
    <2>1. (CHOOSE u \in Users : TRUE) \in Users /\ (CHOOSE j \in Jobs : TRUE) \in Jobs
      BY LockAssumption
    <2> QED
      BY <2>1, LockNumbers DEF NoReq, Req, OrderType
  <1>2. NoReq.pc = "idle" /\ NoReq.auto = FALSE
    BY DEF NoReq
  <1> QED
    BY <1>1, <1>2 DEF MayApprove

\* An order that is not there yet.
LEMMA NoOrderShape ==
    NoOrder \in Order /\ NoOrder.created = 0 /\ NoOrder.state = "none" /\ NoOrder.alone = FALSE
  <1>1. (CHOOSE u \in Users : TRUE) \in Users /\ (CHOOSE j \in Jobs : TRUE) \in Jobs
    BY LockAssumption
  <1>2. 0 \in 0..MaxTime
    BY LockAssumption
  <1> QED
    BY <1>1, <1>2 DEF NoOrder, Order, OrderType, OrderStatus

\* An order that was deleted.
LEMMA DeletedShape ==
    ASSUME NEW u \in Users, NEW t \in 0..MaxTime, NEW a \in BOOLEAN
    PROVE  LET gone == [NoOrder EXCEPT !.state = "deleted", !.creator = u, !.created = t, !.alone = a]
           IN  /\ gone \in Order /\ gone.state = "deleted" /\ gone.creator = u
               /\ gone.created = t /\ gone.alone = a
  BY NoOrderShape DEF Order

\* An extension that is not negative is not before the lock it extends.
LEMMA ExtendedGrows ==
    ASSUME now \in 0..MaxTime, NEW l \in Times, NEW h \in Hours \cup {0}
    PROVE  Extended(l, h) \in Int /\ (h >= 0 => l <= Extended(l, h))
  <1>1. l \in Nat /\ now \in Nat /\ h \in Int
    BY LockNumbers, LockAssumption
  <1> QED
    BY <1>1 DEF Extended

\* What the invariant says of the requests and the orders, without the locks' rows.
LockRequests == /\ req \in [Requests -> Req] /\ ValueGrows /\ OrdersAskForMore /\ IdleIsClean
           /\ OverlapIsMarked /\ NoRecentApproval

\* The step of one request, in which it does not become one that may be approved.
LEMMA OneReqStep ==
    ASSUME LockInv, NEW q \in Requests, NEW new \in Req, req' = [req EXCEPT ![q] = new],
           UNCHANGED <<now, orders>>,
           new.pc \in {"write", "autowrite"} => new.hours < 0 \/ new.read <= new.value,
           new.pc \in {"lock", "autowrite"} => new.hours >= 0,
           new.pc = "idle" => ~new.auto,
           MayApprove(new) => /\ MayApprove(req[q]) /\ new.user = req[q].user
                              /\ new.overlapped = req[q].overlapped
    PROVE  LockRequests' /\ OrdersArePast' /\ AutoOncePerWindow'
  <1>0. req \in [Requests -> Req]
    BY DEF LockInv, LockTypeOK
  <1>1. req'[q] = new /\ (\A r \in Requests \ {q} : req'[r] = req[r]) /\ req' \in [Requests -> Req]
    BY <1>0
  <1>2. \A r \in Requests : MayApprove(req'[r]) =>
           /\ MayApprove(req[r]) /\ req'[r].user = req[r].user
           /\ req'[r].overlapped = req[r].overlapped
    BY <1>1
  <1>3. ValueGrows' /\ OrdersAskForMore'
    BY <1>1 DEF LockInv, ValueGrows, OrdersAskForMore
  <1>4. IdleIsClean'
    BY <1>1 DEF LockInv, IdleIsClean
  <1>5. OverlapIsMarked'
    <2> SUFFICES ASSUME NEW a \in Requests, NEW b \in Requests, a # b, req'[a].user = req'[b].user,
                        MayApprove(req'[a]), MayApprove(req'[b])
                 PROVE  req'[a].overlapped /\ req'[b].overlapped
      BY DEF OverlapIsMarked, MayApprove
    <2> QED
      BY <1>2 DEF LockInv, OverlapIsMarked
  <1>6. NoRecentApproval'
    <2> SUFFICES ASSUME NEW a \in Requests, NEW o \in OrderIds, MayApprove(req'[a]), ~req'[a].overlapped,
                        o \in Recent(req[a].user)'
                 PROVE  ~orders'[o].auto
      BY DEF NoRecentApproval, MayApprove
    <2>1. o \in Recent(req[a].user)
      BY <1>2 DEF Recent
    <2> QED
      BY <1>2, <2>1 DEF LockInv, NoRecentApproval
  <1>7. OrdersArePast' /\ AutoOncePerWindow'
    BY DEF LockInv, OrdersArePast, AutoOncePerWindow, SaysSo
  <1> QED
    BY <1>1, <1>3, <1>4, <1>5, <1>6, <1>7 DEF LockRequests

\* Orders change that are there: the history stays, and none is approved.
LEMMA OrdersStep ==
    ASSUME LockInv, UNCHANGED <<now, req>>, orders' \in [OrderIds -> Order],
           \A o \in OrderIds : /\ orders'[o].creator = orders[o].creator
                               /\ orders'[o].created = orders[o].created
                               /\ orders'[o].alone = orders[o].alone
                               /\ orders'[o].state = "none" => orders[o].state = "none"
                               /\ orders'[o].state = "live" /\ orders'[o].auto =>
                                     orders[o].state = "live" /\ orders[o].auto
    PROVE  LockRequests' /\ OrdersArePast' /\ AutoOncePerWindow'
  <1>1. OrdersArePast'
    BY DEF LockInv, OrdersArePast
  <1>2. /\ req \in [Requests -> Req] /\ ValueGrows /\ OrdersAskForMore /\ IdleIsClean /\ OverlapIsMarked
        /\ NoRecentApproval /\ AutoOncePerWindow
    BY DEF LockInv, LockTypeOK
  <1>3. AutoOncePerWindow'
    BY <1>2 DEF AutoOncePerWindow, SaysSo
  <1>4. NoRecentApproval'
    <2> SUFFICES ASSUME NEW a \in Requests, NEW o \in OrderIds, MayApprove(req[a]), ~req[a].overlapped,
                        o \in Recent(req[a].user)', orders'[o].auto
                 PROVE  FALSE
      BY DEF NoRecentApproval, MayApprove
    <2>1. orders'[o].state = "live" /\ orders'[o].creator = req[a].user /\ orders'[o].created + Window > now
      BY DEF Recent
    <2>2. o \in Recent(req[a].user) /\ orders[o].auto
      BY <2>1 DEF Recent
    <2> QED
      BY <1>2, <2>2 DEF NoRecentApproval
  <1>5. /\ (req \in [Requests -> Req])' /\ ValueGrows' /\ OrdersAskForMore' /\ IdleIsClean'
        /\ OverlapIsMarked'
    BY <1>2 DEF ValueGrows, OrdersAskForMore, IdleIsClean, OverlapIsMarked, MayApprove
  <1> QED
    BY <1>1, <1>3, <1>4, <1>5 DEF LockRequests

\* The rows of the locks keep their types, and locks of jobs no more.
LockRows == /\ now \in 0..MaxTime /\ job \in [Jobs -> {"Running", "Completed", "gone"}]
        /\ lock \in [Jobs -> Times] /\ orders \in [OrderIds -> Order]

\* Writing a lock keeps the types of the rows.
LEMMA WriteLockTypes ==
    ASSUME LockInv, NEW q \in Requests, WriteLock(q) PROVE LockRows'
  <1>1. req[q].name \in Jobs /\ req[q].value \in Times
    BY ReqFields DEF LockInv, LockTypeOK
  <1> QED
    BY <1>1 DEF WriteLock, LockInv, LockTypeOK, LockRows

\* Locks that are read and written, and orders that are checked.
LEMMA AddLockTimeStep ==
    ASSUME LockInv, NEW q \in Requests, AddLockTime(q)
    PROVE  LockRows' /\ LockRequests' /\ OrdersArePast' /\ AutoOncePerWindow'
  <1>0. LockRows /\ req[q] \in Req
    BY DEF LockInv, LockTypeOK, LockRows
  <1>1. ASSUME NEW j \in Jobs, NEW h \in Hours \cup {0}, NEW permanent \in BOOLEAN,
               permanent => h = 0, LockRead(q, j, h, permanent)
        PROVE  LockRows' /\ LockRequests' /\ OrdersArePast' /\ AutoOncePerWindow'
    <2> DEFINE value == IF permanent THEN Permanent ELSE Extended(lock[j], h)
               new == [req[q] EXCEPT !.pc = "write", !.name = j, !.hours = h, !.read = lock[j],
                                     !.value = value]
    <2>1. lock[j] \in Times /\ value \in Times /\ (h < 0 \/ lock[j] <= value)
      <3>1. lock[j] \in Times /\ h \in Int /\ now \in Nat
        BY <1>0, LockAssumption, LockNumbers DEF LockRows
      <3>2. Extended(lock[j], h) \in Int /\ (h >= 0 => lock[j] <= Extended(lock[j], h))
        BY <1>0, <3>1, ExtendedGrows DEF LockRows
      <3>3. permanent \/ Extended(lock[j], h) \in now + 1 .. MaxLock
        BY <1>1 DEF LockRead
      <3>4. lock[j] <= Permanent
        BY <3>1, LockAssumption DEF Times, Permanent
      <3>5. CASE permanent
        BY <3>1, <3>4, <3>5, LockNumbers
      <3>6. CASE ~permanent
        BY <3>1, <3>2, <3>3, <3>6, LockAssumption DEF Times, Permanent
      <3> QED
        BY <3>5, <3>6
    <2> HIDE DEF value
    <2>2. /\ new \in Req /\ new.pc = "write" /\ (new.hours < 0 \/ new.read <= new.value)
          /\ ~MayApprove(new)
      <3>1. /\ new \in Req /\ new.pc = "write" /\ new.hours = h /\ new.read = lock[j]
            /\ new.value = value
        BY <1>0, <2>1 DEF Req
      <3> QED
        BY <2>1, <3>1 DEF MayApprove
    <2>3. req' = [req EXCEPT ![q] = new] /\ UNCHANGED <<now, job, lock, orders>>
      BY <1>1 DEF LockRead, Start, value
    <2> HIDE DEF new
    <2>4. LockRequests' /\ OrdersArePast' /\ AutoOncePerWindow'
      BY <2>2, <2>3, OneReqStep
    <2> QED
      BY <1>0, <2>3, <2>4 DEF LockRows
  <1>2. ASSUME req' = [req EXCEPT ![q] = NoReq], UNCHANGED <<now, orders>>
        PROVE  LockRequests' /\ OrdersArePast' /\ AutoOncePerWindow'
    BY <1>2, NoReqShape, OneReqStep
  <1>3. ASSUME WriteLock(q), Return(q)
        PROVE  LockRows' /\ LockRequests' /\ OrdersArePast' /\ AutoOncePerWindow'
    BY <1>2, <1>3, WriteLockTypes DEF WriteLock, Return
  <1>4. ASSUME Return(q), UNCHANGED <<now, job, lock, orders>>
        PROVE  LockRows' /\ LockRequests' /\ OrdersArePast' /\ AutoOncePerWindow'
    <2>1. LockRows'
      BY <1>0, <1>4 DEF LockRows
    <2> QED
      BY <1>2, <1>4, <2>1 DEF Return
  <1> QED
    BY <1>1, <1>3, <1>4 DEF AddLockTime

\* The request becomes one that may be approved only when no recent order was, and
\* it and those it meets are marked.
LEMMA CheckOrderStep ==
    ASSUME LockInv, NEW q \in Requests, NEW u \in Users, NEW j \in Jobs, NEW t \in OrderType,
           NEW h \in Hours \cap Nat, CheckOrder(q, u, j, t, h)
    PROVE  LockRows' /\ LockRequests' /\ OrdersArePast' /\ AutoOncePerWindow'
  <1> DEFINE eligible == checkAutoApprovalEligibility(u, t, h)
             met == Overlapping(q, u)
             mark == eligible /\ met # {}
             new == [req[q] EXCEPT !.pc = IF eligible THEN "lock" ELSE "insert", !.user = u, !.name = j,
                                   !.type = t, !.hours = IF eligible THEN h ELSE 0, !.overlapped = mark]
             other(r) == [req[r] EXCEPT !.overlapped = @ \/ eligible]
  <1>0. /\ LockRows /\ req \in [Requests -> Req] /\ ValueGrows /\ OrdersAskForMore /\ IdleIsClean
        /\ OverlapIsMarked /\ NoRecentApproval /\ AutoOncePerWindow /\ OrdersArePast
    BY DEF LockInv, LockTypeOK, LockRows
  <1>1. UNCHANGED <<now, job, lock, orders>> /\ req[q].pc = "idle" /\ ~req[q].auto
    BY <1>0 DEF CheckOrder, Idle, IdleIsClean
  <1>2. eligible \in BOOLEAN /\ mark \in BOOLEAN
    BY DEF checkAutoApprovalEligibility
  <1>3. met = {r \in Requests \ {q} : req[r].user = u /\ MayApprove(req[r])}
    BY DEF Overlapping
  <1>4. req' = [r \in Requests |-> CASE r = q -> new [] r \in met -> other(r) [] OTHER -> req[r]]
    BY DEF CheckOrder
  <1>5. eligible => \A o \in Recent(u) : ~orders[o].auto
    BY DEF checkAutoApprovalEligibility
  <1>6. mark <=> (eligible /\ met # {})
    OBVIOUS
  <1> HIDE DEF eligible, met, mark
  <1>7. /\ new \in Req /\ new.user = u /\ new.auto = req[q].auto /\ (new.overlapped <=> mark)
        /\ new.pc = (IF eligible THEN "lock" ELSE "insert") /\ new.hours >= 0
    <2>1. PICK p : p = IF eligible THEN "lock" ELSE "insert"
      OBVIOUS
    <2>2. PICK n : n = IF eligible THEN h ELSE 0
      OBVIOUS
    <2>3. p \in {"lock", "insert"} /\ n \in Hours \cup {0} /\ n >= 0
      BY <1>2, <2>1, <2>2
    <2>4. req[q] \in Req
      BY <1>0
    <2>5. new = [req[q] EXCEPT !.pc = p, !.user = u, !.name = j, !.type = t, !.hours = n, !.overlapped = mark]
      BY <2>1, <2>2
    <2> HIDE DEF new
    <2>6. /\ new \in Req /\ new.user = u /\ new.auto = req[q].auto /\ (new.overlapped <=> mark)
          /\ new.pc = p /\ new.hours = n
      BY <1>2, <2>3, <2>4, <2>5 DEF Req
    <2> QED
      BY <2>1, <2>3, <2>6
  <1>8. ASSUME NEW r \in Requests
        PROVE  /\ other(r) \in Req /\ other(r).pc = req[r].pc /\ other(r).user = req[r].user
               /\ other(r).auto = req[r].auto /\ other(r).hours = req[r].hours /\ other(r).read = req[r].read /\ other(r).value = req[r].value
               /\ (other(r).overlapped <=> (req[r].overlapped \/ eligible))
    <2>1. req[r] \in Req /\ (req[r].overlapped \/ eligible) \in BOOLEAN
      BY <1>0
    <2> QED
      BY <2>1 DEF Req
  <1>9. MayApprove(new) <=> eligible
    BY <1>1, <1>7 DEF MayApprove
  <1> HIDE DEF new, other
  <1>10. /\ req'[q] = new /\ req' \in [Requests -> Req]
         /\ \A r \in Requests \ {q} : req'[r] = IF r \in met THEN other(r) ELSE req[r]
    <2>1. \A r \in Requests : req'[r] = IF r = q THEN new ELSE IF r \in met THEN other(r) ELSE req[r]
      BY <1>3, <1>4
    <2> QED
      BY <1>0, <1>4, <1>7, <1>8, <2>1
  <1>11. ASSUME NEW r \in Requests \ {q}
         PROVE  /\ req'[r].pc = req[r].pc /\ req'[r].user = req[r].user /\ req'[r].auto = req[r].auto
                /\ req'[r].read = req[r].read /\ req'[r].value = req[r].value /\ req'[r].hours = req[r].hours
                /\ (MayApprove(req'[r]) <=> MayApprove(req[r]))
                /\ (req'[r].overlapped <=> (req[r].overlapped \/ (r \in met /\ eligible)))
    <2>1. /\ req'[r].pc = req[r].pc /\ req'[r].user = req[r].user /\ req'[r].auto = req[r].auto
          /\ req'[r].read = req[r].read /\ req'[r].value = req[r].value /\ req'[r].hours = req[r].hours
      BY <1>8, <1>10
    <2>2. req'[r].overlapped <=> (req[r].overlapped \/ (r \in met /\ eligible))
      BY <1>8, <1>10
    <2> QED
      BY <2>1, <2>2 DEF MayApprove
  <1>12. ValueGrows' /\ OrdersAskForMore'
    <2>1. ~(req'[q].pc \in {"write", "autowrite"}) /\ req'[q].hours >= 0
      BY <1>7, <1>10
    <2> QED
      BY <1>0, <1>11, <2>1 DEF ValueGrows, OrdersAskForMore
  <1>13. IdleIsClean'
    <2>1. req'[q].pc # "idle"
      BY <1>7, <1>10
    <2> QED
      BY <1>0, <1>11, <2>1 DEF IdleIsClean
  <1>14. OverlapIsMarked'
    <2>1. ASSUME NEW b \in Requests \ {q}, req'[q].user = req'[b].user, MayApprove(req'[q]), MayApprove(req'[b])
          PROVE  req'[q].overlapped /\ req'[b].overlapped
      <3>1. eligible /\ b \in met
        BY <1>3, <1>7, <1>9, <1>10, <1>11, <2>1
      <3> QED
        BY <1>6, <1>7, <1>10, <1>11, <3>1
    <2>2. ASSUME NEW a \in Requests \ {q}, NEW b \in Requests \ {q}, a # b, req'[a].user = req'[b].user,
                 MayApprove(req'[a]), MayApprove(req'[b])
          PROVE  req'[a].overlapped /\ req'[b].overlapped
      BY <1>0, <1>11, <2>2 DEF OverlapIsMarked
    <2> SUFFICES ASSUME NEW a \in Requests, NEW b \in Requests, a # b, req'[a].user = req'[b].user,
                        MayApprove(req'[a]), MayApprove(req'[b])
                 PROVE  req'[a].overlapped /\ req'[b].overlapped
      BY DEF OverlapIsMarked, MayApprove
    <2> QED
      BY <2>1, <2>2
  <1>15. NoRecentApproval'
    <2> SUFFICES ASSUME NEW a \in Requests, NEW o \in OrderIds, MayApprove(req'[a]), ~req'[a].overlapped,
                        o \in Recent(req[a].user)', orders[o].auto
                 PROVE  FALSE
      BY <1>1 DEF NoRecentApproval, MayApprove
    <2>1. Recent(req[a].user)' = {p \in OrderIds : /\ orders[p].state = "live"
                                                  /\ orders[p].creator = req'[a].user
                                                  /\ orders[p].created + Window > now}
      BY <1>1 DEF Recent
    <2>2. CASE a = q
      <3>1. o \in Recent(u) /\ eligible
        BY <1>7, <1>9, <1>10, <2>1, <2>2 DEF Recent
      <3> QED
        BY <1>5, <3>1
    <2>3. CASE a # q
      <3>1. o \in Recent(req[a].user) /\ MayApprove(req[a]) /\ ~req[a].overlapped
        BY <1>11, <2>1, <2>3 DEF Recent
      <3> QED
        BY <1>0, <3>1 DEF NoRecentApproval
    <2> QED
      BY <2>2, <2>3
  <1> QED
    BY <1>0, <1>1, <1>10, <1>12, <1>13, <1>14, <1>15 DEF LockRequests, LockRows, OrdersArePast, AutoOncePerWindow, SaysSo

\* An order is approved, or not: what was checked still holds when the lock is written.
LEMMA ApprovalStep ==
    ASSUME LockInv, NEW q \in Requests,
           LockForApproval(q) \/ AutoWrite(q) \/ AutoWriteFails(q)
    PROVE  LockRows' /\ LockRequests' /\ OrdersArePast' /\ AutoOncePerWindow'
  <1>0. LockRows /\ req[q] \in Req /\ IdleIsClean /\ OrdersAskForMore
    BY DEF LockInv, LockTypeOK, LockRows
  <1>1. CASE LockForApproval(q)
    <2> DEFINE j == req[q].name
               value == Extended(lock[j], req[q].hours)
               granted == Found(j) /\ lock[j] # Permanent /\ req[q].hours <= MaxHours /\ value <= MaxLock
               yes == [req[q] EXCEPT !.pc = "autowrite", !.read = lock[j], !.value = value]
               no == [req[q] EXCEPT !.pc = "insert", !.hours = 0]
    <2>1. /\ req[q].pc = "lock" /\ req' = [req EXCEPT ![q] = IF granted THEN yes ELSE no]
          /\ UNCHANGED <<now, job, lock, orders>>
      BY <1>1 DEF LockForApproval, Start
    <2>2. j \in Jobs /\ req[q].hours \in Hours \cup {0} /\ req[q].hours >= 0
      BY <1>0, <2>1, ReqFields DEF OrdersAskForMore
    <2>3. lock[j] \in Times /\ value \in Int /\ lock[j] <= value
      BY <1>0, <2>2, ExtendedGrows DEF LockRows
    <2>4. granted => value \in Times
      BY <2>3, LockAssumption DEF Times, Permanent
    <2> HIDE DEF value
    <2>5. granted => /\ yes \in Req /\ yes.pc = "autowrite" /\ yes.read <= yes.value /\ yes.hours >= 0
                     /\ yes.user = req[q].user /\ yes.overlapped = req[q].overlapped
      BY <1>0, <2>2, <2>3, <2>4 DEF Req
    <2>6. /\ no \in Req /\ no.pc = "insert" /\ no.user = req[q].user /\ no.overlapped = req[q].overlapped
      BY <1>0 DEF Req
    <2>7. MayApprove(req[q])
      BY <2>1 DEF MayApprove
    <2> HIDE DEF granted, yes, no
    <2>8. LockRequests' /\ OrdersArePast' /\ AutoOncePerWindow'
      <3>1. CASE granted
        BY <2>1, <2>5, <2>7, <3>1, OneReqStep
      <3>2. CASE ~granted
        BY <2>1, <2>6, <2>7, <3>2, OneReqStep
      <3> QED
        BY <3>1, <3>2
    <2> QED
      BY <1>0, <2>1, <2>8 DEF LockRows
  <1>2. CASE AutoWrite(q)
    <2> DEFINE new == [req[q] EXCEPT !.pc = "insert", !.auto = TRUE, !.hours = 0, !.read = NoLock,
                                     !.value = NoLock]
    <2>1. /\ req[q].pc = "autowrite" /\ req' = [req EXCEPT ![q] = new] /\ WriteLock(q)
          /\ UNCHANGED <<now, orders>>
      BY <1>2 DEF AutoWrite, Start, WriteLock
    <2>2. /\ new \in Req /\ new.pc = "insert" /\ new.user = req[q].user
          /\ new.overlapped = req[q].overlapped
      BY <1>0, LockNumbers DEF Req
    <2>3. MayApprove(req[q])
      BY <2>1 DEF MayApprove
    <2> HIDE DEF new
    <2> QED
      BY <2>1, <2>2, <2>3, OneReqStep, WriteLockTypes
  <1>3. CASE AutoWriteFails(q)
    <2> DEFINE new == [req[q] EXCEPT !.pc = "insert", !.hours = 0, !.read = NoLock, !.value = NoLock]
    <2>1. /\ req[q].pc \in {"lock", "autowrite"} /\ req' = [req EXCEPT ![q] = new]
          /\ UNCHANGED <<now, job, lock, orders>>
      BY <1>3 DEF AutoWriteFails, Start
    <2>2. /\ new \in Req /\ new.pc = "insert" /\ new.user = req[q].user
          /\ new.overlapped = req[q].overlapped
      BY <1>0, LockNumbers DEF Req
    <2>3. MayApprove(req[q])
      BY <2>1 DEF MayApprove
    <2> HIDE DEF new
    <2>4. LockRequests' /\ OrdersArePast' /\ AutoOncePerWindow'
      BY <2>1, <2>2, <2>3, OneReqStep
    <2> QED
      BY <1>0, <2>1, <2>4 DEF LockRows
  <1> QED
    BY <1>1, <1>2, <1>3

\* The order of a request that met no other, also one whose insert fails, is the only
\* one of its window that a lock was extended for.
LEMMA PutOrderStep ==
    ASSUME LockInv, NEW q \in Requests, NEW state \in {"live", "failed"}, PutOrder(q, state),
           req[q].pc = "insert", Return(q), UNCHANGED <<now, job, lock>>
    PROVE  LockRows' /\ LockRequests' /\ OrdersArePast' /\ AutoOncePerWindow'
  <1>0. /\ LockRows /\ req \in [Requests -> Req] /\ req[q] \in Req /\ ValueGrows /\ OrdersAskForMore
        /\ IdleIsClean /\ OverlapIsMarked /\ NoRecentApproval /\ AutoOncePerWindow /\ OrdersArePast
        /\ orders \in [OrderIds -> Order] /\ now \in 0..MaxTime
    BY DEF LockInv, LockTypeOK, LockRows
  <1> DEFINE single == req[q].auto /\ ~req[q].overlapped
             status == IF req[q].auto THEN "Approved" ELSE "Pending"
             new == [state |-> state, name |-> req[q].name, type |-> req[q].type, status |-> status,
                     auto |-> req[q].auto, creator |-> req[q].user, created |-> now, alone |-> single]
  <1>1. PICK i \in OrderIds : /\ orders' = [orders EXCEPT ![i] = new]
                              /\ \A p \in OrderIds : orders[p].state = "none" <=> p >= i
    BY DEF PutOrder
  <1>2. req' = [req EXCEPT ![q] = NoReq]
    BY DEF Return
  <1>3. single \in BOOLEAN /\ (single <=> (req[q].auto /\ ~req[q].overlapped)) /\ status \in OrderStatus
    BY <1>0, ReqFields DEF OrderStatus
  <1> HIDE DEF single, status
  <1>4. new \in Order
    BY <1>0, <1>3, ReqFields DEF Order
  <1>5. /\ new.auto = req[q].auto /\ new.creator = req[q].user /\ new.created = now /\ new.state # "none"
        /\ (new.alone <=> (req[q].auto /\ ~req[q].overlapped))
    BY <1>3
  <1> HIDE DEF new
  <1>6. orders'[i] = new /\ (\A o \in OrderIds \ {i} : orders'[o] = orders[o]) /\ orders' \in [OrderIds -> Order]
    BY <1>0, <1>1, <1>4
  <1>7. req'[q] = NoReq /\ (\A r \in Requests \ {q} : req'[r] = req[r]) /\ req' \in [Requests -> Req]
    BY <1>0, <1>2, NoReqShape
  <1>8. \A o \in OrderIds : orders[o].created \in Nat /\ orders[o].created <= now /\ now \in Nat /\ o \in Nat
    BY <1>0, OrderFields, LockNumbers DEF OrdersArePast
  <1>9. new.auto => MayApprove(req[q])
    BY <1>5 DEF MayApprove
  <1>10. OrdersArePast'
    BY <1>0, <1>5, <1>6, <1>8 DEF OrdersArePast
  <1>11. ValueGrows' /\ OrdersAskForMore' /\ IdleIsClean' /\ OverlapIsMarked'
    BY <1>0, <1>7, NoReqShape DEF ValueGrows, OrdersAskForMore, IdleIsClean, OverlapIsMarked
  <1>12. NoRecentApproval'
    <2> SUFFICES ASSUME NEW a \in Requests, NEW o \in OrderIds, MayApprove(req'[a]), ~req'[a].overlapped,
                        o \in Recent(req[a].user)', orders'[o].auto
                 PROVE  FALSE
      BY DEF NoRecentApproval, MayApprove
    <2>1. a # q /\ req'[a] = req[a]
      BY <1>7, NoReqShape
    <2>2. orders'[o].state = "live" /\ orders'[o].creator = req[a].user /\ orders'[o].created + Window > now
      BY <2>1 DEF Recent
    <2>3. CASE o = i
      <3>1. MayApprove(req[q]) /\ req[q].user = req[a].user
        BY <1>5, <1>6, <1>9, <2>2, <2>3
      <3> QED
        BY <1>0, <2>1, <3>1 DEF OverlapIsMarked
    <2>4. CASE o # i
      <3>1. o \in Recent(req[a].user) /\ orders[o].auto
        BY <1>6, <2>2, <2>4 DEF Recent
      <3> QED
        BY <1>0, <2>1, <3>1 DEF NoRecentApproval
    <2> QED
      BY <2>3, <2>4
  <1>13. AutoOncePerWindow'
    <2> SUFFICES ASSUME NEW o \in OrderIds, NEW p \in OrderIds, o < p,
                        orders'[o].alone, orders'[p].alone, orders'[o].creator = orders'[p].creator,
                        orders'[p].created < orders'[o].created + Window,
                        orders'[o].state = "live", orders'[o].auto
                 PROVE  FALSE
      BY DEF AutoOncePerWindow, SaysSo
    <2>1. CASE o # i /\ p # i
      BY <1>0, <1>6, <2>1 DEF AutoOncePerWindow, SaysSo
    <2>2. CASE p = i
      <3>1. orders'[o] = orders[o] /\ orders[o].creator = req[q].user /\ now < orders[o].created + Window
        BY <1>5, <1>6, <1>8, <2>2
      <3>2. o \in Recent(req[q].user) /\ MayApprove(req[q]) /\ ~req[q].overlapped
        BY <1>5, <1>6, <1>8, <1>9, <2>2, <3>1, LockAssumption DEF Recent
      <3> QED
        BY <1>0, <3>1, <3>2 DEF NoRecentApproval
    <2>3. CASE o = i
      <3>1. orders'[p] = orders[p] /\ orders[p].state = "none"
        BY <1>1, <1>6, <1>8, <2>3
      <3> QED
        BY <1>0, <3>1 DEF OrdersArePast
    <2> QED
      BY <2>1, <2>2, <2>3
  <1> QED
    BY <1>0, <1>6, <1>7, <1>10, <1>11, <1>12, <1>13 DEF LockRequests, LockRows

\* The order is inserted, or is not.
LEMMA InsertOrderStep ==
    ASSUME LockInv, NEW q \in Requests, InsertOrder(q) \/ InsertFails(q)
    PROVE  LockRows' /\ LockRequests' /\ OrdersArePast' /\ AutoOncePerWindow'
  <1>1. req[q].pc = "insert" /\ Return(q) /\ UNCHANGED <<now, job, lock>>
    BY DEF InsertOrder, InsertFails
  <1>2. CASE PutOrder(q, "live") \/ PutOrder(q, "failed")
    BY <1>1, <1>2, PutOrderStep
  <1>3. CASE UNCHANGED orders
    <2>1. req' = [req EXCEPT ![q] = NoReq] /\ LockRows
      BY <1>1 DEF Return, LockInv, LockTypeOK, LockRows
    <2>2. LockRequests' /\ OrdersArePast' /\ AutoOncePerWindow'
      BY <1>1, <1>3, <2>1, NoReqShape, OneReqStep
    <2> QED
      BY <1>1, <1>3, <2>1, <2>2 DEF LockRows
  <1> QED
    BY <1>2, <1>3 DEF InsertOrder, InsertFails

\* Reviews, edits and deletions approve nothing.
LEMMA OrderChangesStep ==
    ASSUME LockInv, NEW i \in OrderIds,
           UpdateApprovalOrder(i) \/ \E u \in Users : DeleteApprovalOrder(u, i)
    PROVE  LockRows' /\ LockRequests' /\ OrdersArePast' /\ AutoOncePerWindow'
  <1>0. LockRows /\ orders[i] \in Order /\ orders \in [OrderIds -> Order] /\ orders[i].state = "live"
    BY DEF LockInv, LockTypeOK, LockRows, UpdateApprovalOrder, DeleteApprovalOrder
  <1>1. PICK new \in Order :
           /\ orders' = [orders EXCEPT ![i] = new] /\ new.state # "none"
           /\ new.creator = orders[i].creator /\ new.created = orders[i].created
           /\ new.alone = orders[i].alone /\ (new.state = "live" /\ new.auto => orders[i].auto)
    <2>1. ASSUME NEW s \in Reviews, orders' = [orders EXCEPT ![i].status = s, ![i].auto = FALSE]
          PROVE  \E new \in Order :
                    /\ orders' = [orders EXCEPT ![i] = new] /\ new.state # "none"
                    /\ new.creator = orders[i].creator /\ new.created = orders[i].created
                    /\ new.alone = orders[i].alone /\ (new.state = "live" /\ new.auto => orders[i].auto)
      <3> DEFINE new == [orders[i] EXCEPT !.status = s, !.auto = FALSE]
      <3>1. s \in OrderStatus
        BY LockAssumption DEF OrderStatus
      <3>2. /\ new \in Order /\ new.created = orders[i].created /\ new.auto = FALSE
            /\ new.creator = orders[i].creator /\ new.alone = orders[i].alone /\ new.state = "live"
        BY <1>0, <3>1 DEF Order
      <3>3. orders' = [orders EXCEPT ![i] = new]
        BY <1>0, <2>1
      <3> HIDE DEF new
      <3> QED
        BY <3>2, <3>3
    <2>2. ASSUME NEW j \in Jobs, NEW t \in OrderType, orders' = [orders EXCEPT ![i].name = j, ![i].type = t]
          PROVE  \E new \in Order :
                    /\ orders' = [orders EXCEPT ![i] = new] /\ new.state # "none"
                    /\ new.creator = orders[i].creator /\ new.created = orders[i].created
                    /\ new.alone = orders[i].alone /\ (new.state = "live" /\ new.auto => orders[i].auto)
      <3> DEFINE new == [orders[i] EXCEPT !.name = j, !.type = t]
      <3>1. /\ new \in Order /\ new.created = orders[i].created /\ new.auto = orders[i].auto
            /\ new.creator = orders[i].creator /\ new.alone = orders[i].alone /\ new.state = "live"
        BY <1>0 DEF Order
      <3>2. orders' = [orders EXCEPT ![i] = new]
        BY <1>0, <2>2
      <3> HIDE DEF new
      <3> QED
        BY <3>1, <3>2
    <2>3. ASSUME NEW u \in Users, DeleteApprovalOrder(u, i)
          PROVE  \E new \in Order :
                    /\ orders' = [orders EXCEPT ![i] = new] /\ new.state # "none"
                    /\ new.creator = orders[i].creator /\ new.created = orders[i].created
                    /\ new.alone = orders[i].alone /\ (new.state = "live" /\ new.auto => orders[i].auto)
      <3> DEFINE new == [NoOrder EXCEPT !.state = "deleted", !.creator = u, !.created = orders[i].created,
                                        !.alone = orders[i].alone]
      <3>1. orders[i].created \in 0..MaxTime /\ orders[i].alone \in BOOLEAN /\ orders[i].creator = u
        BY <1>0, <2>3, OrderFields DEF DeleteApprovalOrder
      <3>2. /\ new \in Order /\ new.created = orders[i].created /\ new.state = "deleted"
            /\ new.creator = orders[i].creator /\ new.alone = orders[i].alone
        BY <3>1, NoOrderShape DEF Order
      <3>3. orders' = [orders EXCEPT ![i] = new]
        BY <2>3 DEF DeleteApprovalOrder
      <3> HIDE DEF new
      <3> QED
        BY <3>2, <3>3
    <2> QED
      BY <2>1, <2>2, <2>3 DEF UpdateApprovalOrder
  <1>2. UNCHANGED <<now, job, lock, req>>
    BY DEF UpdateApprovalOrder, DeleteApprovalOrder
  <1>3. orders'[i] = new /\ (\A o \in OrderIds \ {i} : orders'[o] = orders[o]) /\ orders' \in [OrderIds -> Order]
    BY <1>0, <1>1
  <1>4. LockRequests' /\ OrdersArePast' /\ AutoOncePerWindow'
    BY <1>0, <1>1, <1>2, <1>3, OrdersStep
  <1> QED
    BY <1>0, <1>2, <1>3, <1>4 DEF LockRows

\* The orders of jobs that have ended are cancelled one by one.
LEMMA ByJobStatusStep ==
    ASSUME LockInv, NEW q \in Requests, UpdateApprovalOrderByJobStatus(q)
    PROVE  LockRows' /\ LockRequests' /\ OrdersArePast' /\ AutoOncePerWindow'
  <1>0. /\ LockRows /\ req[q] \in Req /\ req \in [Requests -> Req] /\ orders \in [OrderIds -> Order]
        /\ OrdersArePast
    BY DEF LockInv, LockTypeOK, LockRows
  <1>1. ASSUME NEW new \in Req, req' = [req EXCEPT ![q] = new], UNCHANGED <<now, job, lock, orders>>,
               new.pc \in {"list", "cancel"} \/ new = NoReq
        PROVE  LockRows' /\ LockRequests' /\ OrdersArePast' /\ AutoOncePerWindow'
    <2>1. new.pc \in {"list", "cancel"} => ~MayApprove(new)
      BY DEF MayApprove
    <2>2. LockRequests' /\ OrdersArePast' /\ AutoOncePerWindow'
      BY <1>1, <2>1, NoReqShape, OneReqStep
    <2> QED
      BY <1>0, <1>1, <2>2 DEF LockRows
  <1>2. CASE ListPending(q)
    <2> DEFINE todo == {<<o, orders[o].name>> : o \in {p \in OrderIds : /\ orders[p].state = "live"
                                                  /\ orders[p].status = "Pending"
                                                  /\ orders[p].type = "job"}}
               new == [req[q] EXCEPT !.pc = "list", !.todo = todo]
    <2>1. todo \in SUBSET (OrderIds \X Jobs)
      BY <1>0, OrderFields
    <2>2. req' = [req EXCEPT ![q] = new] /\ UNCHANGED <<now, job, lock, orders>>
      BY <1>2 DEF ListPending, Start
    <2> HIDE DEF todo
    <2>3. new \in Req /\ new.pc = "list"
      BY <1>0, <2>1 DEF Req
    <2> HIDE DEF new
    <2> QED
      BY <1>1, <2>2, <2>3
  <1>3. ASSUME NEW o \in OrderIds, NEW j \in Jobs, CheckJob(q, o, j)
        PROVE  LockRows' /\ LockRequests' /\ OrdersArePast' /\ AutoOncePerWindow'
    <2> DEFINE left == req[q].todo \ {<<o, j>>}
               next == [req[q] EXCEPT !.todo = left]
               ended == [req[q] EXCEPT !.pc = "cancel", !.todo = left, !.order = o]
    <2>1. left \in SUBSET (OrderIds \X Jobs) /\ req[q].pc = "list"
      BY <1>0, <1>3, ReqFields DEF CheckJob
    <2>2. /\ req' = [req EXCEPT ![q] = IF isJobRunning(j) THEN next ELSE ended]
          /\ UNCHANGED <<now, job, lock, orders>>
      BY <1>3 DEF CheckJob, Start
    <2> HIDE DEF left
    <2>3. next \in Req /\ next.pc = "list" /\ ended \in Req /\ ended.pc = "cancel"
      BY <1>0, <2>1 DEF Req
    <2> HIDE DEF next, ended
    <2>4. CASE isJobRunning(j)
      BY <1>1, <2>2, <2>3, <2>4
    <2>5. CASE ~isJobRunning(j)
      BY <1>1, <2>2, <2>3, <2>5
    <2> QED
      BY <2>4, <2>5
  <1>4. CASE cancelApprovalOrder(q)
    <2> DEFINE i == req[q].order
               status == IF orders[i].state = "live" THEN "Canceled" ELSE orders[i].status
               new == [orders[i] EXCEPT !.status = status]
               then == [req[q] EXCEPT !.pc = "list", !.order = NoReq.order]
    <2>1. i \in OrderIds /\ orders[i] \in Order
      BY <1>0, ReqFields
    <2>2. orders' = [orders EXCEPT ![i].status = status]
      BY <1>4 DEF cancelApprovalOrder
    <2>3. orders' = [orders EXCEPT ![i] = new]
      BY <1>0, <2>1, <2>2
    <2>4. status \in OrderStatus
      BY <2>1, OrderFields DEF OrderStatus
    <2>5. req' = [req EXCEPT ![q] = then] /\ UNCHANGED <<now, job, lock>> /\ req[q].pc = "cancel"
      BY <1>4 DEF cancelApprovalOrder, Start
    <2> HIDE DEF i, status
    <2>6. /\ new \in Order /\ new.state = orders[i].state /\ new.auto = orders[i].auto
          /\ new.creator = orders[i].creator /\ new.created = orders[i].created
          /\ new.alone = orders[i].alone
      BY <2>1, <2>4 DEF Order
    <2>7. then \in Req /\ then.pc = "list"
      BY <1>0, NoReqShape DEF Req
    <2> HIDE DEF new, then
    <2>8. /\ orders' \in [OrderIds -> Order]
          /\ \A o \in OrderIds : /\ orders'[o].state = orders[o].state /\ orders'[o].auto = orders[o].auto
                                 /\ orders'[o].creator = orders[o].creator
                                 /\ orders'[o].created = orders[o].created
                                 /\ orders'[o].alone = orders[o].alone
      BY <1>0, <2>1, <2>3, <2>6
    <2>9. LockRows' /\ OrdersArePast'
      BY <1>0, <2>5, <2>8 DEF LockRows, OrdersArePast
    <2>10. /\ req'[q] = then /\ (\A r \in Requests \ {q} : req'[r] = req[r])
           /\ req' \in [Requests -> Req] /\ ~MayApprove(req'[q])
      BY <1>0, <2>5, <2>7 DEF MayApprove
    <2>11. ValueGrows' /\ OrdersAskForMore' /\ IdleIsClean'
      BY <2>7, <2>10 DEF LockInv, ValueGrows, OrdersAskForMore, IdleIsClean
    <2>12. OverlapIsMarked'
      <3> SUFFICES ASSUME NEW a \in Requests, NEW b \in Requests, a # b, req'[a].user = req'[b].user,
                          MayApprove(req'[a]), MayApprove(req'[b])
                   PROVE  req'[a].overlapped /\ req'[b].overlapped
        BY DEF OverlapIsMarked, MayApprove
      <3> QED
        BY <2>10 DEF LockInv, OverlapIsMarked
    <2>13. AutoOncePerWindow'
      BY <2>8 DEF LockInv, AutoOncePerWindow, SaysSo
    <2>14. NoRecentApproval'
      <3> SUFFICES ASSUME NEW a \in Requests, NEW o \in OrderIds, MayApprove(req'[a]), ~req'[a].overlapped,
                          o \in Recent(req[a].user)', orders'[o].auto
                   PROVE  FALSE
        BY DEF NoRecentApproval, MayApprove
      <3>1. a # q /\ req'[a] = req[a]
        BY <2>10
      <3>2. o \in Recent(req[a].user) /\ orders[o].auto
        BY <2>5, <2>8, <3>1 DEF Recent
      <3> QED
        BY <3>1, <3>2 DEF LockInv, NoRecentApproval
    <2> QED
      BY <2>9, <2>10, <2>11, <2>12, <2>13, <2>14 DEF LockRequests
  <1>5. CASE CheckDone(q)
    BY <1>1, <1>5, NoReqShape DEF CheckDone, Return
  <1> QED
    BY <1>2, <1>3, <1>4, <1>5 DEF UpdateApprovalOrderByJobStatus

\* Time makes no order recent.
LEMMA TickStep ==
    ASSUME LockInv, now' \in 0..MaxTime, now <= now', UNCHANGED <<orders, req>>
    PROVE  LockRequests' /\ OrdersArePast' /\ AutoOncePerWindow'
  <1>0. /\ req \in [Requests -> Req] /\ ValueGrows /\ OrdersAskForMore /\ IdleIsClean /\ OverlapIsMarked
        /\ NoRecentApproval /\ AutoOncePerWindow /\ OrdersArePast
        /\ orders \in [OrderIds -> Order] /\ now \in 0..MaxTime
    BY DEF LockInv, LockTypeOK
  <1>1. now \in Nat /\ now' \in Nat /\ Window \in Nat
    BY <1>0, LockNumbers, LockAssumption
  <1>2. \A o \in OrderIds : orders[o].created \in Nat
    BY <1>0, OrderFields, LockNumbers
  <1>3. OrdersArePast'
    BY <1>0, <1>1, <1>2 DEF OrdersArePast
  <1>4. NoRecentApproval'
    <2> SUFFICES ASSUME NEW a \in Requests, NEW o \in OrderIds, MayApprove(req[a]), ~req[a].overlapped,
                        o \in Recent(req[a].user)', orders[o].auto
                 PROVE  FALSE
      BY DEF NoRecentApproval, MayApprove
    <2>1. orders[o].state = "live" /\ orders[o].creator = req[a].user /\ orders[o].created + Window > now'
      BY DEF Recent
    <2>2. o \in Recent(req[a].user)
      BY <1>1, <1>2, <2>1 DEF Recent
    <2> QED
      BY <1>0, <2>2 DEF NoRecentApproval
  <1>5. /\ ValueGrows' /\ OrdersAskForMore' /\ IdleIsClean' /\ OverlapIsMarked' /\ AutoOncePerWindow'
        /\ (req \in [Requests -> Req])'
    BY <1>0 DEF ValueGrows, OrdersAskForMore, IdleIsClean, OverlapIsMarked, AutoOncePerWindow, SaysSo, MayApprove
  <1> QED
    BY <1>3, <1>4, <1>5 DEF LockRequests

\* Every step of the locks and the orders keeps their invariant.
LEMMA LockSteps == ASSUME LockInv, LockNext PROVE LockInv'
  <1>0. LockRows /\ now \in Nat
    BY LockNumbers DEF LockInv, LockTypeOK, LockRows
  <1>1. SUFFICES LockRows' /\ LockRequests' /\ OrdersArePast' /\ AutoOncePerWindow'
    BY DEF LockInv, LockTypeOK, LockRows, LockRequests
  <1>2. CASE Tick
    <2>1. now' \in 0..MaxTime /\ now <= now' /\ UNCHANGED <<job, lock, orders, req>>
      BY <1>0, <1>2, LockAssumption DEF Tick
    <2> QED
      BY <1>0, <2>1, TickStep DEF LockRows
  <1>3. ASSUME NEW j \in Jobs, JobChanges(j) \/ ClearLockTime(j)
        PROVE  LockRows' /\ LockRequests' /\ OrdersArePast' /\ AutoOncePerWindow'
    <2>1. UNCHANGED <<now, orders, req>>
      BY <1>3 DEF JobChanges, ClearLockTime
    <2>2. LockRows'
      BY <1>0, <1>3, LockNumbers DEF JobChanges, ClearLockTime, LockRows
    <2>3. now' \in 0..MaxTime /\ now <= now'
      BY <1>0, <2>1 DEF LockRows
    <2> QED
      BY <2>1, <2>2, <2>3, TickStep
  <1>4. ASSUME NEW q \in Requests, CreateApprovalOrder(q)
        PROVE  LockRows' /\ LockRequests' /\ OrdersArePast' /\ AutoOncePerWindow'
    BY <1>4, CheckOrderStep, ApprovalStep, InsertOrderStep DEF CreateApprovalOrder
  <1> QED
    BY <1>2, <1>3, <1>4, AddLockTimeStep, ByJobStatusStep, OrderChangesStep DEF LockNext

\* The inductive invariant of the locks and the orders.
THEOREM LockInvariance == LockSpec => []LockInv
  <1>1. LockInit => LockInv
    <2> SUFFICES ASSUME LockInit PROVE LockInv
      OBVIOUS
    <2>1. now = 1 /\ \A q \in Requests : req[q] = NoReq
      BY DEF LockInit
    <2>2. \A o \in OrderIds : orders[o] = NoOrder
      BY DEF LockInit
    <2>3. LockTypeOK
      <3>1. now \in 0..MaxTime
        BY <2>1, LockAssumption
      <3>2. lock \in [Jobs -> Times] /\ job \in [Jobs -> {"Running", "Completed", "gone"}]
        BY LockNumbers DEF LockInit
      <3>3. orders \in [OrderIds -> Order] /\ req \in [Requests -> Req]
        BY NoReqShape, NoOrderShape DEF LockInit
      <3> QED
        BY <3>1, <3>2, <3>3 DEF LockTypeOK
    <2>4. ValueGrows /\ OrdersAskForMore /\ IdleIsClean /\ OverlapIsMarked /\ NoRecentApproval
      BY <2>1, NoReqShape DEF ValueGrows, OrdersAskForMore, IdleIsClean, OverlapIsMarked, NoRecentApproval
    <2>5. OrdersArePast /\ AutoOncePerWindow
      BY <2>1, <2>2, NoOrderShape DEF OrdersArePast, AutoOncePerWindow
    <2> QED
      BY <2>3, <2>4, <2>5 DEF LockInv
  <1>2. LockInv /\ [LockNext]_lockVars => LockInv'
    <2> SUFFICES ASSUME LockInv, [LockNext]_lockVars PROVE LockInv'
      OBVIOUS
    <2>1. CASE LockNext
      BY <2>1, LockSteps
    <2>2. CASE UNCHANGED lockVars
      BY <2>2 DEF lockVars, LockInv, LockTypeOK, ValueGrows, OrdersAskForMore, IdleIsClean, OverlapIsMarked,
         NoRecentApproval, AutoOncePerWindow, SaysSo, OrdersArePast, MayApprove, Recent
    <2> QED
      BY <2>1, <2>2
  <1> QED
    BY <1>1, <1>2, PTL DEF LockSpec

\* checkAutoApprovalEligibility: one extension without review per window and user, but
\* for requests that overlap, and for orders whose insert failed or that were deleted or
\* rewritten (CreateApprovalOrder, DeleteApprovalOrder, UpdateApprovalOrder).
THEOREM ApprovedOnce == LockSpec => []AutoOncePerWindow
  <1>1. LockInv => AutoOncePerWindow
    BY DEF LockInv
  <1> QED
    BY <1>1, LockInvariance, PTL

\* AddLockTime and lockJobForApproval: extensions add up, unless one was read before
\* another was written, or was asked for a negative time.
THEOREM LocksOnlyGrowHolds == LockSpec => LocksOnlyGrow
  <1>1. LockInv /\ [LockNext]_lockVars =>
          [\A j \in Jobs : lock'[j] < lock[j] =>
              \/ ClearLockTime(j)
              \/ \E q \in Requests : /\ req[q].pc \in {"write", "autowrite"}
                                     /\ req[q].name = j
                                     /\ req[q].read # lock[j] \/ req[q].hours < 0]_lockVars
    <2> SUFFICES ASSUME LockInv, LockNext, NEW j \in Jobs, lock'[j] < lock[j], ~ClearLockTime(j)
                 PROVE  \E q \in Requests : /\ req[q].pc \in {"write", "autowrite"} /\ req[q].name = j
                                            /\ req[q].read # lock[j] \/ req[q].hours < 0
      OBVIOUS
    <2>0. lock \in [Jobs -> Times] /\ lock[j] \in Nat /\ \A q \in Requests : req[q] \in Req
      BY LockNumbers DEF LockInv, LockTypeOK
    <2>1. ~UNCHANGED lock /\ lock'[j] # lock[j]
      BY <2>0
    <2>2. PICK q \in Requests : WriteLock(q) /\ req[q].pc \in {"write", "autowrite"}
      <3>1. ASSUME NEW i \in Jobs, ClearLockTime(i) PROVE FALSE
        <4>1. CASE i = j
          BY <3>1, <4>1
        <4>2. CASE i # j
          BY <2>0, <2>1, <3>1, <4>2 DEF ClearLockTime
        <4> QED
          BY <4>1, <4>2
      <3>2. ASSUME NEW q \in Requests, AddLockTime(q)
            PROVE  WriteLock(q) /\ req[q].pc \in {"write", "autowrite"}
        BY <2>1, <3>2 DEF AddLockTime, LockRead
      <3>3. ASSUME NEW q \in Requests, CreateApprovalOrder(q)
            PROVE  WriteLock(q) /\ req[q].pc \in {"write", "autowrite"}
        BY <2>1, <3>3 DEF CreateApprovalOrder, CheckOrder, LockForApproval, AutoWrite, AutoWriteFails,
           InsertOrder, InsertFails
      <3>4. ASSUME NEW q \in Requests, UpdateApprovalOrderByJobStatus(q) PROVE FALSE
        BY <2>1, <3>4 DEF UpdateApprovalOrderByJobStatus, ListPending, CheckJob, cancelApprovalOrder, CheckDone
      <3> QED
        BY <2>1, <3>1, <3>2, <3>3, <3>4 DEF LockNext, Tick, JobChanges, UpdateApprovalOrder,
           DeleteApprovalOrder
    <2>3. req[q].name = j /\ lock'[j] = req[q].value
      <3>1. req[q].name \in Jobs
        BY <2>0, ReqFields
      <3> QED
        BY <2>0, <2>2, <3>1 DEF WriteLock
    <2>4. /\ req[q].read \in Nat /\ req[q].value \in Nat
          /\ req[q].hours < 0 \/ req[q].read <= req[q].value
      BY <2>0, <2>2, ReqFields, LockNumbers DEF LockInv, ValueGrows
    <2>5. req[q].read # lock[j] \/ req[q].hours < 0
      BY <2>0, <2>3, <2>4
    <2> QED
      BY <2>2, <2>3, <2>5
  <1> QED
    BY <1>1, LockInvariance, PTL DEF LockSpec, LocksOnlyGrow

-----------------------------------------------------------------------------
(* The pages of what is used: sums over disjoint sets, and over the rows of a table. *)

\* Two sets without a common member add up.
LEMMA TotalUnion ==
    ASSUME NEW A, IsFiniteSet(A), NEW D, IsFiniteSet(D), A \cap D = {},
           NEW v, \A x \in A \cup D : v[x] \in Nat
    PROVE  Total(v, A \cup D) = Total(v, A) + Total(v, D)
  <1> DEFINE B == {T \in SUBSET D : Total(v, A \cup T) # Total(v, A) + Total(v, T)}
  <1> SUFFICES ASSUME B # {} PROVE FALSE
    <2>1. D \in SUBSET D
      OBVIOUS
    <2> QED
      BY <2>1
  <1>1. PICK m \in B : \A T \in SUBSET m : T # m => T \notin B
    <2>1. B \subseteq SUBSET D
      OBVIOUS
    <2> HIDE DEF B
    <2> QED
      BY <2>1, SmallestSubset
  <1>2. m \in SUBSET D /\ IsFiniteSet(m) /\ Total(v, A \cup m) # Total(v, A) + Total(v, m)
    BY FS_Subset
  <1>3. Total(v, A) \in Nat
    BY TotalType
  <1>4. CASE m = {}
    <2>1. A \cup m = A
      BY <1>4
    <2> QED
      BY <1>2, <1>3, <1>4, <2>1, TotalStep
  <1>5. CASE m # {}
    <2>1. PICK t \in m : TRUE
      BY <1>5
    <2> DEFINE r == m \ {t}
    <2>2. r \in SUBSET m /\ r # m /\ r \in SUBSET D /\ IsFiniteSet(r)
      BY <1>2, <2>1, FS_Subset
    <2>3. Total(v, A \cup r) = Total(v, A) + Total(v, r)
      BY <1>1, <2>2
    <2>4. IsFiniteSet(A \cup m) /\ (A \cup m) \ {t} = A \cup r /\ t \in A \cup m /\ v[t] \in Nat
      BY <1>2, <2>1, FS_Union
    <2>5. Total(v, A \cup m) = Total(v, A \cup r) + v[t]
      <3>1. \A x \in A \cup m : v[x] \in Nat
        BY <1>2
      <3> QED
        BY <2>4, <3>1, TotalRemove
    <2>6. \A x \in m : v[x] \in Nat
      BY <1>2
    <2>7. Total(v, m) = Total(v, r) + v[t] /\ Total(v, r) \in Nat
      BY <1>2, <2>1, <2>2, <2>6, TotalRemove, TotalType
    <2> HIDE DEF r
    <2> QED
      BY <1>2, <1>3, <2>3, <2>4, <2>5, <2>7
  <1> QED
    BY <1>4, <1>5

\* The sums of groups that share no member add up to the sum of all their members.
LEMMA TotalGroups ==
    ASSUME NEW M, IsFiniteSet(M), NEW S, IsFiniteSet(S), NEW v, \A x \in S : v[x] \in Nat,
           NEW group, \A m \in M : group[m] \subseteq S,
           \A m, n \in M : m # n => group[m] \cap group[n] = {}
    PROVE  Total([m \in M |-> Total(v, group[m])], M) = Total(v, UNION {group[m] : m \in M})
  <1> DEFINE sums == [m \in M |-> Total(v, group[m])]
             all(T) == UNION {group[m] : m \in T}
             B == {T \in SUBSET M : Total(sums, T) # Total(v, all(T))}
  <1> SUFFICES ASSUME B # {} PROVE FALSE
    <2>1. M \in SUBSET M
      OBVIOUS
    <2> QED
      BY <2>1
  <1>1. PICK k \in B : \A T \in SUBSET k : T # k => T \notin B
    <2>1. B \subseteq SUBSET M
      OBVIOUS
    <2> HIDE DEF B
    <2> QED
      BY <2>1, SmallestSubset
  <1>2. k \in SUBSET M /\ IsFiniteSet(k) /\ Total(sums, k) # Total(v, all(k))
    BY FS_Subset
  <1>3. \A m \in M : IsFiniteSet(group[m]) /\ sums[m] = Total(v, group[m]) /\ sums[m] \in Nat
    <2> SUFFICES ASSUME NEW m \in M PROVE IsFiniteSet(group[m]) /\ Total(v, group[m]) \in Nat
      OBVIOUS
    <2>1. group[m] \in SUBSET S
      OBVIOUS
    <2> QED
      BY <2>1, FS_Subset, TotalType
  <1>4. CASE k = {}
    <2>1. all(k) = {}
      BY <1>4
    <2> QED
      BY <1>2, <1>4, <2>1, TotalStep
  <1>5. CASE k # {}
    <2>1. PICK t \in k : TRUE
      BY <1>5
    <2> DEFINE r == k \ {t}
    <2>2. r \in SUBSET k /\ r # k /\ r \in SUBSET M /\ t \in M
      BY <1>2, <2>1
    <2>3. Total(sums, r) = Total(v, all(r))
      BY <1>1, <2>2
    <2>4. all(k) = all(r) \cup group[t] /\ all(r) \cap group[t] = {} /\ all(k) \subseteq S
      BY <1>2, <2>1
    <2>5. IsFiniteSet(all(r)) /\ IsFiniteSet(group[t])
      <3>1. all(r) \in SUBSET S
        BY <2>4
      <3> QED
        BY <1>3, <2>2, <3>1, FS_Subset
    <2>6. \A x \in all(r) \cup group[t] : v[x] \in Nat
      BY <2>4
    <2>7. Total(v, all(k)) = Total(v, all(r)) + Total(v, group[t])
      <3> HIDE DEF all, r
      <3> QED
        BY <2>4, <2>5, <2>6, TotalUnion
    <2>8. \A x \in k : sums[x] \in Nat
      BY <1>2, <1>3
    <2>9. Total(sums, k) = Total(sums, r) + sums[t]
      <3> HIDE DEF sums
      <3> QED
        BY <1>2, <2>1, <2>8, TotalRemove
    <2>10. sums[t] = Total(v, group[t])
      BY <2>2
    <2> HIDE DEF r, all, sums
    <2> QED
      BY <1>2, <2>3, <2>7, <2>9, <2>10
  <1> QED
    BY <1>4, <1>5

-----------------------------------------------------------------------------
(* What is used, on the pages that say so. *)

\* What the pages add up for a set of jobs or tasks.
LEMMA SumOf ==
    ASSUME NEW rows, NEW S, IsFiniteSet(S)
    PROVE  Sum(rows, S) = Total(AmountsOf(rows, S), S)
  BY SumOfAmounts DEF Sum, MapThenSumSet, MapThenFoldSet, First

\* A sum does not change when the members and their amounts do not.
LEMMA SumSame ==
    ASSUME NEW rows, NEW new, NEW S, IsFiniteSet(S), \A x \in S : new[x].amount = rows[x].amount
    PROVE  Sum(new, S) = Sum(rows, S)
  <1>1. \A x \in S : AmountsOf(new, S)[x] = AmountsOf(rows, S)[x]
    BY DEF AmountsOf
  <1> QED
    BY <1>1, SumOf, TotalSame

\* One member more.
LEMMA SumAdd ==
    ASSUME NEW rows, NEW S, IsFiniteSet(S), NEW t, t \notin S, \A x \in S \cup {t} : rows[x].amount \in Nat
    PROVE  Sum(rows, S \cup {t}) = Sum(rows, S) + rows[t].amount /\ Sum(rows, S) \in Nat
  <1> DEFINE v == AmountsOf(rows, S \cup {t})
  <1>1. IsFiniteSet(S \cup {t})
    BY FS_AddElement
  <1>2. \A x \in S \cup {t} : v[x] = rows[x].amount
    BY DEF AmountsOf
  <1>3. \A x \in S : AmountsOf(rows, S)[x] = v[x]
    BY DEF AmountsOf
  <1> HIDE DEF v
  <1>4. Total(v, S \cup {t}) = Total(v, S) + v[t] /\ Total(v, S) \in Nat
    BY <1>2, TotalAdd, TotalType
  <1>5. Sum(rows, S) = Total(v, S)
    BY <1>3, SumOf, TotalSame
  <1> QED
    BY <1>1, <1>2, <1>4, <1>5, SumOf DEF v

-----------------------------------------------------------------------------
(* The pages that say what is used. *)

\* A sum when one member comes or goes.
LEMMA SumOne ==
    ASSUME NEW old, NEW after, NEW S, NEW N, IsFiniteSet(S), NEW t, S \ {t} = N \ {t},
           \A x \in S \cup {t} : old[x].amount \in Nat,
           \A x \in S \ {t} : after[x].amount = old[x].amount, after[t].amount \in Nat
    PROVE  /\ t \notin S /\ t \notin N => Sum(after, N) = Sum(old, S)
           /\ t \notin S /\ t \in N => Sum(after, N) = Sum(old, S) + after[t].amount
           /\ t \in S /\ t \notin N => Sum(after, N) = Sum(old, S) - old[t].amount
  <1> DEFINE R == S \ {t}
  <1>1. IsFiniteSet(R)
    BY FS_RemoveElement
  <1>2. /\ t \notin R
        /\ t \notin S => S = R
        /\ t \in S => S = R \cup {t}
        /\ t \notin N => N = R
        /\ t \in N => N = R \cup {t}
    OBVIOUS
  <1>3. /\ \A x \in R : after[x].amount = old[x].amount
        /\ \A x \in R \cup {t} : old[x].amount \in Nat /\ after[x].amount \in Nat
    OBVIOUS
  <1> HIDE DEF R
  <1>4. Sum(after, R) = Sum(old, R)
    BY <1>1, <1>3, SumSame
  <1>5. /\ Sum(old, R \cup {t}) = Sum(old, R) + old[t].amount
        /\ Sum(after, R \cup {t}) = Sum(after, R) + after[t].amount
        /\ Sum(old, R) \in Nat
    BY <1>1, <1>2, <1>3, SumAdd
  <1>6. old[t].amount \in Nat /\ after[t].amount \in Nat
    BY <1>3
  <1>7. CASE t \notin S /\ t \notin N
    <2>1. S = R /\ N = R
      BY <1>2, <1>7
    <2> QED
      BY <1>4, <1>7, <2>1
  <1>8. CASE t \notin S /\ t \in N
    <2>1. S = R /\ N = R \cup {t}
      BY <1>2, <1>8
    <2> QED
      BY <1>4, <1>5, <1>8, <2>1
  <1>9. CASE t \in S /\ t \notin N
    <2>1. S = R \cup {t} /\ N = R
      BY <1>2, <1>9
    <2>2. Sum(old, S) = Sum(after, N) + old[t].amount /\ Sum(after, N) \in Nat
      BY <1>4, <1>5, <2>1
    <2>3. Sum(after, N) = Sum(old, S) - old[t].amount
      BY <1>6, <2>2
    <2> QED
      BY <1>9, <2>3
  <1> QED
    BY <1>7, <1>8, <1>9

\* The counters follow the sums when one task changes what it counts for.
LEMMA CountsOne ==
    ASSUME UsageTypeOK, NEW t \in UsageTasks, NEW new \in [amount : Nat, slo : {"none", "hard", "soft", "released"}],
           task' = [task EXCEPT ![t] = new], NEW slo \in {"hard", "soft"}
    PROVE  /\ task[t].slo # slo /\ new.slo # slo => Sum(task, WithSLO(slo))' = Sum(task, WithSLO(slo))
           /\ task[t].slo # slo /\ new.slo = slo =>
                 Sum(task, WithSLO(slo))' = Sum(task, WithSLO(slo)) + new.amount
           /\ task[t].slo = slo /\ new.slo # slo =>
                 Sum(task, WithSLO(slo))' = Sum(task, WithSLO(slo)) - task[t].amount
  <1>1. task'[t] = new /\ \A x \in UsageTasks \ {t} : task'[x] = task[x]
    BY DEF UsageTypeOK
  <1>2. \A x \in UsageTasks : task[x].amount \in Nat /\ task'[x].amount \in Nat
    BY <1>1 DEF UsageTypeOK
  <1>3. PICK after, old, S, N : /\ after = task' /\ old = task /\ S = WithSLO(slo)
                                /\ N = {x \in UsageTasks : after[x].slo = slo}
    OBVIOUS
  <1>4. Sum(task, WithSLO(slo))' = Sum(after, N)
    <2>1. WithSLO(slo)' = N
      BY <1>3 DEF WithSLO
    <2> QED
      BY <1>3, <2>1 DEF Sum, MapThenSumSet, MapThenFoldSet
  <1>5. /\ S \in SUBSET UsageTasks /\ S \ {t} = N \ {t}
        /\ t \in S <=> task[t].slo = slo
        /\ t \in N <=> new.slo = slo
    BY <1>1, <1>3 DEF WithSLO
  <1>6. /\ \A x \in S \cup {t} : old[x].amount \in Nat
        /\ \A x \in S \ {t} : after[x].amount = old[x].amount
        /\ after[t].amount \in Nat /\ IsFiniteSet(S)
    BY <1>1, <1>2, <1>3, <1>5, UsageAssumption, FS_Subset
  <1>7. /\ t \notin S /\ t \notin N => Sum(after, N) = Sum(old, S)
        /\ t \notin S /\ t \in N => Sum(after, N) = Sum(old, S) + after[t].amount
        /\ t \in S /\ t \notin N => Sum(after, N) = Sum(old, S) - old[t].amount
    BY <1>5, <1>6, SumOne
  <1>8. after[t] = new /\ old = task
    BY <1>1, <1>3
  <1> QED
    BY <1>3, <1>4, <1>5, <1>7, <1>8

\* The steps that change no task count the same.
LEMMA CountsSame ==
    ASSUME CountersCount, UNCHANGED <<task, counters>>
    PROVE  CountersCount'
  BY DEF CountersCount, WithSLO, Sum, MapThenSumSet, MapThenFoldSet

\* What is held is a natural number.
LEMMA HoldingIsNat ==
    ASSUME UsageTypeOK
    PROVE  Holding \in Nat
  <1> DEFINE S == {j \in UsageJobs : work[j].phase = "Running"}
  <1>1. S \in SUBSET UsageJobs
    OBVIOUS
  <1>2. IsFiniteSet(S)
    BY <1>1, UsageAssumption, FS_Subset
  <1>3. \A x \in S : AmountsOf(work, S)[x] \in Nat
    BY DEF UsageTypeOK, AmountsOf
  <1>4. Holding = Sum(work, S)
    BY DEF Holding
  <1> HIDE DEF S
  <1> QED
    BY <1>2, <1>3, <1>4, SumOf, TotalType

LEMMA SubmitKeeps ==
    ASSUME UsageInv, NEW j \in UsageJobs, NEW m \in Members, Submit(j, m)
    PROVE  UsageInv'
  <1> DEFINE new == [member |-> m, amount |-> JobAmount[j], phase |-> "Pending"]
  <1>1. work' = [work EXCEPT ![j] = new] /\ UNCHANGED <<limits, rowPhase, allocated, podPhase, task, counters, collected>>
    BY DEF Submit
  <1>2. new \in [member : Members \cup {"none"}, amount : Nat, phase : WorkPhases]
    BY UsageAssumption DEF Workloads, WorkPhases
  <1>3. UsageTypeOK'
    BY <1>1, <1>2 DEF UsageInv, UsageTypeOK
  <1>4. work[j].phase = "none"
    BY DEF Submit, NotSubmitted
  <1>5. PodsFollowJobs'
    BY <1>1, <1>4 DEF UsageInv, UsageTypeOK, PodsFollowJobs
  <1> QED
    BY <1>1, <1>3, <1>5, CountsSame DEF UsageInv, PodsFollowTasks

LEMMA JobMovesKeeps ==
    ASSUME UsageInv, NEW j \in UsageJobs, JobMoves(j)
    PROVE  UsageInv'
  <1>1. UNCHANGED <<limits, rowPhase, allocated, task, counters, collected>>
    BY DEF JobMoves
  <1>2. PICK phase \in WorkPhases \ {"none"}, p \in {"none", "Running", "Succeeded"} :
           /\ work' = [work EXCEPT ![j].phase = phase] /\ podPhase' = [podPhase EXCEPT ![j] = p]
           /\ phase = "Running" <=> p = "Running"
    BY DEF JobMoves, WorkPhases
  <1>3. work[j].phase # "none"
    BY DEF JobMoves
  <1>4. j \in Workloads /\ \A t \in UsageTasks : t \in Workloads /\ t # j
    BY UsageAssumption DEF Workloads
  <1>5. [work[j] EXCEPT !.phase = phase] \in [member : Members \cup {"none"}, amount : Nat, phase : WorkPhases]
    <2>1. work[j] \in [member : Members \cup {"none"}, amount : Nat, phase : WorkPhases]
      BY DEF UsageInv, UsageTypeOK
    <2>2. phase \in WorkPhases
      OBVIOUS
    <2> QED
      BY <2>1, <2>2
  <1>6. UsageTypeOK'
    <2>1. work' \in [UsageJobs -> [member : Members \cup {"none"}, amount : Nat, phase : WorkPhases]]
      BY <1>2, <1>5 DEF UsageInv, UsageTypeOK
    <2>2. podPhase' \in [Workloads -> {"none", "Running", "Succeeded"}]
      BY <1>2 DEF UsageInv, UsageTypeOK
    <2> QED
      BY <1>1, <2>1, <2>2 DEF UsageInv, UsageTypeOK
  <1>7. PodsFollowJobs'
    <2> SUFFICES ASSUME NEW i \in UsageJobs
                 PROVE  /\ work'[i].phase # "none" => work'[i].member \in Members
                        /\ work'[i].phase = "Running" <=> podPhase'[i] = "Running"
      BY DEF PodsFollowJobs
    <2>1. i \in Workloads
      BY DEF Workloads
    <2>2. CASE i = j
      BY <1>2, <1>3, <1>4, <2>2 DEF UsageInv, UsageTypeOK, PodsFollowJobs
    <2>3. CASE i # j
      BY <1>2, <2>1, <2>3 DEF UsageInv, UsageTypeOK, PodsFollowJobs
    <2> QED
      BY <2>2, <2>3
  <1>8. PodsFollowTasks'
    BY <1>1, <1>2, <1>4 DEF UsageInv, UsageTypeOK, PodsFollowTasks
  <1> QED
    BY <1>1, <1>6, <1>7, <1>8, CountsSame DEF UsageInv

\* Pods end and go; rows and the queue follow.
LEMMA FollowersKeep ==
    ASSUME UsageInv, \/ \E w \in Workloads : PodIsRemoved(w)
                     \/ \E t \in UsageTasks : TaskEnds(t)
                     \/ \E j \in UsageJobs : RowFollows(j)
                     \/ QueueFollows \/ Scrape
    PROVE  UsageInv'
  <1>1. UNCHANGED <<limits, work, task, counters>> /\ collected' \subseteq UsageJobs
    BY DEF PodIsRemoved, TaskEnds, RowFollows, QueueFollows, Scrape, OnGPUs, UsageInv, UsageTypeOK
  <1>2. CASE \E w \in Workloads : PodIsRemoved(w)
    <2>1. PICK w \in Workloads : PodIsRemoved(w)
      BY <1>2
    <2>2. podPhase[w] = "Succeeded" /\ podPhase' = [podPhase EXCEPT ![w] = "none"]
          /\ UNCHANGED <<rowPhase, allocated>>
      BY <2>1 DEF PodIsRemoved
    <2>3. \A x \in Workloads : /\ podPhase'[x] = "Running" <=> podPhase[x] = "Running"
                               /\ podPhase[x] = "none" => podPhase'[x] = "none"
      BY <2>2 DEF UsageInv, UsageTypeOK
    <2>4. UsageTypeOK'
      BY <1>1, <2>2 DEF UsageInv, UsageTypeOK
    <2>5. PodsFollowJobs' /\ PodsFollowTasks'
      BY <1>1, <2>3 DEF UsageInv, PodsFollowJobs, PodsFollowTasks, Workloads
    <2> QED
      BY <1>1, <2>4, <2>5, CountsSame DEF UsageInv
  <1>3. CASE \E t \in UsageTasks : TaskEnds(t)
    <2>1. PICK t \in UsageTasks : TaskEnds(t)
      BY <1>3
    <2>2. podPhase[t] = "Running" /\ podPhase' = [podPhase EXCEPT ![t] = "Succeeded"]
          /\ UNCHANGED <<rowPhase, allocated>>
      BY <2>1 DEF TaskEnds
    <2>3. t \notin UsageJobs
      BY UsageAssumption
    <2>4. \A x \in Workloads : /\ x # t => podPhase'[x] = podPhase[x]
                               /\ podPhase[x] = "none" => podPhase'[x] = "none"
      BY <2>2 DEF UsageInv, UsageTypeOK
    <2>5. UsageTypeOK'
      BY <1>1, <2>2 DEF UsageInv, UsageTypeOK
    <2>6. PodsFollowJobs' /\ PodsFollowTasks'
      BY <1>1, <2>3, <2>4 DEF UsageInv, PodsFollowJobs, PodsFollowTasks, Workloads
    <2> QED
      BY <1>1, <2>5, <2>6, CountsSame DEF UsageInv
  <1>4. CASE QueueFollows \/ Scrape \/ \E j \in UsageJobs : RowFollows(j)
    <2>1. podPhase' = podPhase /\ allocated' \in Nat
      BY <1>4, HoldingIsNat DEF QueueFollows, Scrape, OnGPUs, RowFollows, UsageInv, UsageTypeOK
    <2>2. rowPhase' \in [UsageJobs -> WorkPhases]
      BY <1>4 DEF QueueFollows, Scrape, OnGPUs, RowFollows, UsageInv, UsageTypeOK
    <2> QED
      BY <1>1, <2>1, <2>2, CountsSame DEF UsageInv, UsageTypeOK, PodsFollowJobs, PodsFollowTasks
  <1> QED
    BY <1>2, <1>3, <1>4

LEMMA TaskRunsKeeps ==
    ASSUME UsageInv, NEW t \in UsageTasks, NEW slo \in {"hard", "soft"}, TaskRuns(t, slo)
    PROVE  UsageInv'
  <1> DEFINE new == [amount |-> JobAmount[t], slo |-> slo]
             n == JobAmount[t]
  <1>1. /\ task' = [task EXCEPT ![t] = new] /\ podPhase' = [podPhase EXCEPT ![t] = "Running"]
        /\ counters' = [counters EXCEPT ![slo] = counters[slo] + n]
        /\ UNCHANGED <<limits, work, rowPhase, allocated, collected>>
    BY DEF TaskRuns
  <1>2. n \in Nat /\ task[t].slo = "none" /\ t \notin UsageJobs /\ t \in Workloads
    BY UsageAssumption DEF TaskRuns, NotAdmitted, Workloads
  <1>3. new \in [amount : Nat, slo : {"none", "hard", "soft", "released"}] /\ new.amount = n /\ new.slo = slo
    BY <1>2
  <1> HIDE DEF new, n
  <1>4. /\ counters' \in [hard : Int, soft : Int]
        /\ counters'[slo] = counters[slo] + n
        /\ slo = "hard" => counters'.hard = counters.hard + n /\ counters'.soft = counters.soft
        /\ slo = "soft" => counters'.soft = counters.soft + n /\ counters'.hard = counters.hard
    <2>1. counters \in [hard : Int, soft : Int]
      BY DEF UsageInv, UsageTypeOK
    <2>2. CASE slo = "hard"
      BY <1>1, <1>2, <2>1, <2>2
    <2>3. CASE slo = "soft"
      BY <1>1, <1>2, <2>1, <2>3
    <2> QED
      BY <2>2, <2>3
  <1>5. UsageTypeOK'
    BY <1>1, <1>3, <1>4 DEF UsageInv, UsageTypeOK
  <1>6. PodsFollowJobs' /\ PodsFollowTasks'
    BY <1>1, <1>2, <1>3 DEF UsageInv, UsageTypeOK, PodsFollowJobs, PodsFollowTasks, Workloads
  <1>7. CountersCount'
    <2>1. ASSUME NEW other \in {"hard", "soft"}
          PROVE  Sum(task, WithSLO(other))' = IF other = slo THEN Sum(task, WithSLO(other)) + n
                                              ELSE Sum(task, WithSLO(other))
      BY <1>1, <1>2, <1>3, CountsOne DEF UsageInv
    <2> QED
      BY <1>4, <2>1 DEF UsageInv, CountersCount
  <1> QED
    BY <1>5, <1>6, <1>7 DEF UsageInv

LEMMA TaskReleasedKeeps ==
    ASSUME UsageInv, NEW t \in UsageTasks, TaskReleased(t)
    PROVE  UsageInv'
  <1> DEFINE new == [task[t] EXCEPT !.slo = "released"]
             slo == task[t].slo
             n == task[t].amount
  <1>1. /\ task' = [task EXCEPT ![t] = new]
        /\ counters' = [counters EXCEPT ![slo] = counters[slo] - n]
        /\ UNCHANGED <<limits, work, rowPhase, allocated, podPhase, collected>>
    BY DEF TaskReleased
  <1>2. n \in Nat /\ slo \in {"hard", "soft"}
    BY DEF TaskReleased, UsageInv, UsageTypeOK, PodsFollowTasks
  <1>3. new \in [amount : Nat, slo : {"none", "hard", "soft", "released"}] /\ new.slo = "released"
    BY DEF UsageInv, UsageTypeOK
  <1> HIDE DEF new
  <1>4. /\ counters' \in [hard : Int, soft : Int]
        /\ slo = "hard" => counters'.hard = counters.hard - n /\ counters'.soft = counters.soft
        /\ slo = "soft" => counters'.soft = counters.soft - n /\ counters'.hard = counters.hard
    <2>1. counters \in [hard : Int, soft : Int]
      BY DEF UsageInv, UsageTypeOK
    <2> HIDE DEF slo, n
    <2>2. CASE slo = "hard"
      BY <1>1, <1>2, <2>1, <2>2
    <2>3. CASE slo = "soft"
      BY <1>1, <1>2, <2>1, <2>3
    <2> QED
      BY <1>2, <2>2, <2>3
  <1>5. UsageTypeOK'
    BY <1>1, <1>3, <1>4 DEF UsageInv, UsageTypeOK
  <1>6. PodsFollowJobs' /\ PodsFollowTasks'
    BY <1>1, <1>3 DEF UsageInv, UsageTypeOK, PodsFollowJobs, PodsFollowTasks
  <1>7. CountersCount'
    <2>1. ASSUME NEW other \in {"hard", "soft"}
          PROVE  Sum(task, WithSLO(other))' = IF other = slo THEN Sum(task, WithSLO(other)) - n
                                              ELSE Sum(task, WithSLO(other))
      BY <1>1, <1>2, <1>3, CountsOne DEF UsageInv
    <2> QED
      BY <1>2, <1>4, <2>1 DEF UsageInv, CountersCount
  <1> QED
    BY <1>5, <1>6, <1>7 DEF UsageInv

\* Before anything is submitted nothing is counted.
LEMMA UsageStarts ==
    ASSUME UsageInit
    PROVE  UsageInv
  <1>1. UsageTypeOK /\ PodsFollowJobs /\ PodsFollowTasks
    BY DEF UsageInit, UsageTypeOK, PodsFollowJobs, PodsFollowTasks, NotSubmitted, NotAdmitted, WorkPhases, Workloads
  <1>2. WithSLO("hard") = {} /\ WithSLO("soft") = {}
    BY DEF UsageInit, WithSLO, NotAdmitted
  <1>3. Sum(task, {}) = 0
    BY SumOf, TotalStep, FS_EmptySet
  <1>4. counters.hard = 0 /\ counters.soft = 0
    BY DEF UsageInit
  <1> QED
    BY <1>1, <1>2, <1>3, <1>4 DEF UsageInv, CountersCount

\* The pods are those of jobs that run and of tasks that were admitted, and the
\* counters of the task controller count the tasks that are not released
\* (taskcontroller.go), for any number of jobs, tasks and members.
THEOREM UsageInvariance == UsageSpec => []UsageInv
  <1>1. UsageInv /\ [UsageNext]_usageVars => UsageInv'
    <2> SUFFICES ASSUME UsageInv, [UsageNext]_usageVars PROVE UsageInv'
      OBVIOUS
    <2>1. CASE UsageNext
      BY <2>1, SubmitKeeps, JobMovesKeeps, FollowersKeep, TaskRunsKeeps, TaskReleasedKeeps DEF UsageNext
    <2>2. CASE UNCHANGED usageVars
      BY <2>2, CountsSame DEF usageVars, UsageInv, UsageTypeOK, PodsFollowJobs, PodsFollowTasks
    <2> QED
      BY <2>1, <2>2
  <1> QED
    BY <1>1, UsageStarts, PTL DEF UsageSpec

\* What one pod asks, by its job or task.
Asked == [w \in Workloads |-> PodRequest(w)]

LEMMA RequestsAreNat ==
    ASSUME UsageTypeOK
    PROVE  \A w \in Workloads : Asked[w] \in Nat
  BY DEF UsageTypeOK, Asked, PodRequest, Workloads

\* What the node's page adds up.
LEMMA SumOfRequests ==
    ASSUME NEW S, IsFiniteSet(S), S \subseteq Workloads
    PROVE  (CHOOSE f : f = [s \in SUBSET S |->
                              IF s = {} THEN 0 ELSE PodRequest(First(s)) + f[s \ {First(s)}]])[S]
           = Total(Asked, S)
  <1> DEFINE v == Asked
             P(f) == f = [s \in SUBSET S |->
                            IF s = {} THEN 0 ELSE PodRequest(First(s)) + f[s \ {First(s)}]]
  <1>1. \A f : SumsUp(f, v, S) <=> P(f)
    <2>1. ASSUME NEW f, NEW s \in SUBSET S
          PROVE  (IF s = {} THEN 0 ELSE v[First(s)] + f[s \ {First(s)}])
                 = (IF s = {} THEN 0 ELSE PodRequest(First(s)) + f[s \ {First(s)}])
      <3>1. s # {} => First(s) \in Workloads
        BY FirstIn
      <3> QED
        BY <3>1 DEF Asked
    <2>2. ASSUME NEW f
          PROVE  [s \in SUBSET S |-> IF s = {} THEN 0 ELSE v[First(s)] + f[s \ {First(s)}]]
                 = [s \in SUBSET S |-> IF s = {} THEN 0 ELSE PodRequest(First(s)) + f[s \ {First(s)}]]
      BY <2>1
    <2> HIDE DEF v
    <2> QED
      BY <2>2 DEF SumsUp
  <1>2. \E f : P(f)
    <2> HIDE DEF P
    <2> QED
      BY <1>1, SolutionExists
  <1>3. P(CHOOSE f : P(f))
    <2> HIDE DEF P
    <2> QED
      BY <1>2
  <1>4. (CHOOSE f : P(f))[S] = Total(v, S)
    <2> HIDE DEF P, v
    <2> QED
      BY <1>1, <1>3, TotalOf
  <1> QED
    BY <1>4

\* What the pages of the members show, together.
Shown == [m \in Members |-> ContextGetQuota(m).allocated]

LEMMA SumOfPages == OnPages = Total(Shown, Members)
  <1> DEFINE S == Members
             v == Shown
             P(f) == f = [s \in SUBSET S |->
                            IF s = {} THEN 0 ELSE ContextGetQuota(First(s)).allocated + f[s \ {First(s)}]]
  <1>1. \A f : SumsUp(f, v, S) <=> P(f)
    <2>1. ASSUME NEW f, NEW s \in SUBSET S
          PROVE  (IF s = {} THEN 0 ELSE v[First(s)] + f[s \ {First(s)}])
                 = (IF s = {} THEN 0 ELSE ContextGetQuota(First(s)).allocated + f[s \ {First(s)}])
      <3>1. s # {} => First(s) \in Members
        BY FirstIn
      <3> QED
        BY <3>1 DEF Shown
    <2>2. ASSUME NEW f
          PROVE  [s \in SUBSET S |-> IF s = {} THEN 0 ELSE v[First(s)] + f[s \ {First(s)}]]
                 = [s \in SUBSET S |->
                      IF s = {} THEN 0 ELSE ContextGetQuota(First(s)).allocated + f[s \ {First(s)}]]
      BY <2>1
    <2> HIDE DEF v
    <2> QED
      BY <2>2 DEF SumsUp
  <1>2. \E f : P(f)
    <2> HIDE DEF P
    <2> QED
      BY <1>1, SolutionExists, UsageAssumption
  <1>3. P(CHOOSE f : P(f))
    <2> HIDE DEF P
    <2> QED
      BY <1>2
  <1>4. (CHOOSE f : P(f))[S] = Total(v, S)
    <2> HIDE DEF P, v
    <2> QED
      BY <1>1, <1>3, TotalOf, UsageAssumption
  <1>5. OnPages = (CHOOSE f : P(f))[S]
    BY DEF OnPages, MapThenSumSet, MapThenFoldSet, First
  <1> QED
    BY <1>4, <1>5

\* The sums of the pages are sums of what the pods ask.
LEMMA SumsAreRequests ==
    /\ \A S \in SUBSET UsageJobs : IsFiniteSet(S) /\ Sum(work, S) = Total(Asked, S)
    /\ \A S \in SUBSET UsageTasks : IsFiniteSet(S) /\ Sum(task, S) = Total(Asked, S)
  <1>1. ASSUME NEW S \in SUBSET UsageJobs PROVE IsFiniteSet(S) /\ Sum(work, S) = Total(Asked, S)
    <2>1. IsFiniteSet(S)
      BY UsageAssumption, FS_Subset
    <2>2. \A w \in S : AmountsOf(work, S)[w] = Asked[w]
      BY DEF AmountsOf, Asked, PodRequest, Workloads
    <2> QED
      BY <2>1, <2>2, SumOf, TotalSame
  <1>2. ASSUME NEW S \in SUBSET UsageTasks PROVE IsFiniteSet(S) /\ Sum(task, S) = Total(Asked, S)
    <2>1. IsFiniteSet(S)
      BY UsageAssumption, FS_Subset
    <2>2. \A w \in S : AmountsOf(task, S)[w] = Asked[w]
      BY UsageAssumption DEF AmountsOf, Asked, PodRequest, Workloads
    <2> QED
      BY <2>1, <2>2, SumOf, TotalSame
  <1> QED
    BY <1>1, <1>2

\* Two parts of the jobs and tasks add up.
LEMMA RequestsAddUp ==
    ASSUME UsageTypeOK, NEW A \in SUBSET Workloads, NEW D \in SUBSET Workloads, A \cap D = {}
    PROVE  /\ Total(Asked, A \cup D) = Total(Asked, A) + Total(Asked, D)
           /\ IsFiniteSet(A \cup D)
  <1>1. IsFiniteSet(Workloads)
    BY UsageAssumption, FS_Union DEF Workloads
  <1>2. IsFiniteSet(A) /\ IsFiniteSet(D) /\ IsFiniteSet(A \cup D)
    <2>1. A \cup D \in SUBSET Workloads
      OBVIOUS
    <2> QED
      BY <1>1, <2>1, FS_Subset
  <1>3. \A x \in A \cup D : Asked[x] \in Nat
    BY RequestsAreNat
  <1> QED
    BY <1>2, <1>3, TotalUnion

\* The members' pages show the jobs that run and those that wait.
LEMMA MembersAddUp ==
    ASSUME UsageInv, CaughtUp
    PROVE  OnPages = AccountGetQuota.allocated + Waiting
  <1> DEFINE run == {j \in UsageJobs : work[j].phase = "Running"}
             wait == {j \in UsageJobs : work[j].phase = "Pending"}
             group == [m \in Members |-> {j \in UsageJobs : work[j].member = m /\ Counted(j)}]
  <1>1. \A j \in UsageJobs : Counted(j) <=> j \in run \cup wait
    BY DEF CaughtUp, Counted
  <1>2. \A m \in Members : group[m] \in SUBSET UsageJobs
    OBVIOUS
  <1>3. UNION {group[m] : m \in Members} = run \cup wait
    <2>1. \A j \in run \cup wait : j \in UsageJobs /\ work[j].member \in Members
      BY DEF UsageInv, PodsFollowJobs
    <2> QED
      BY <1>1, <2>1
  <1>4. \A m, n \in Members : m # n => group[m] \cap group[n] = {}
    OBVIOUS
  <1>5. \A m \in Members : Shown[m] = Total(Asked, group[m])
    <2> SUFFICES ASSUME NEW m \in Members PROVE ContextGetQuota(m).allocated = Total(Asked, group[m])
      BY DEF Shown
    <2>1. ContextGetQuota(m).allocated = Sum(work, group[m])
      BY DEF ContextGetQuota
    <2> HIDE DEF group
    <2> QED
      BY <1>2, <2>1, SumsAreRequests
  <1>6. \A w \in UsageJobs : Asked[w] \in Nat
    BY RequestsAreNat DEF UsageInv, Workloads
  <1>7. Total([m \in Members |-> Total(Asked, group[m])], Members) = Total(Asked, run \cup wait)
    <2> HIDE DEF run, wait, group
    <2>1. IsFiniteSet(Members) /\ IsFiniteSet(UsageJobs)
      BY UsageAssumption
    <2>2. Total([m \in Members |-> Total(Asked, group[m])], Members)
          = Total(Asked, UNION {group[m] : m \in Members})
      BY <1>2, <1>4, <1>6, <2>1, TotalGroups
    <2> QED
      BY <1>3, <2>2
  <1>8. OnPages = Total([m \in Members |-> Total(Asked, group[m])], Members)
    <2>1. \A m \in Members : Shown[m] = [x \in Members |-> Total(Asked, group[x])][m]
      BY <1>5
    <2> HIDE DEF group
    <2> QED
      BY <2>1, SumOfPages, TotalSame, UsageAssumption
  <1>9. /\ Total(Asked, run \cup wait) = Total(Asked, run) + Total(Asked, wait)
    <2>1. run \in SUBSET Workloads /\ wait \in SUBSET Workloads /\ run \cap wait = {}
      BY DEF Workloads
    <2> HIDE DEF run, wait
    <2> QED
      BY <2>1, RequestsAddUp DEF UsageInv
  <1>10. allocated = Total(Asked, run) /\ Waiting = Total(Asked, wait)
    <2>1. allocated = Sum(work, run) /\ Waiting = Sum(work, wait)
      BY DEF CaughtUp, Holding, Waiting
    <2>2. run \in SUBSET UsageJobs /\ wait \in SUBSET UsageJobs
      OBVIOUS
    <2> HIDE DEF run, wait
    <2> QED
      BY <2>1, <2>2, SumsAreRequests
  <1>11. AccountGetQuota.allocated = allocated
    BY DEF AccountGetQuota
  <1> QED
    BY <1>7, <1>8, <1>9, <1>10, <1>11

\* The node's page shows the jobs that run and the tasks that are not released.
LEMMA NodesAddUp ==
    ASSUME UsageInv, CaughtUp, limits.deserved
    PROVE  ListNodes.used = AccountGetQuota.allocated + EmiasGetQuota.allocated
  <1> DEFINE run == {j \in UsageJobs : work[j].phase = "Running"}
             hard == WithSLO("hard")
             soft == WithSLO("soft")
  <1>1. OnNode = run \cup (hard \cup soft)
    <2>1. ASSUME NEW w \in Workloads PROVE podPhase[w] # "none" <=> podPhase[w] = "Running"
      BY DEF CaughtUp, UsageInv, UsageTypeOK
    <2>2. \A j \in UsageJobs : podPhase[j] # "none" <=> j \in run
      BY <2>1 DEF UsageInv, PodsFollowJobs, Workloads
    <2>3. \A t \in UsageTasks : podPhase[t] # "none" <=> t \in hard \cup soft
      <3> SUFFICES ASSUME NEW t \in UsageTasks PROVE podPhase[t] # "none" <=> task[t].slo \in {"hard", "soft"}
        BY DEF WithSLO
      <3>1. task[t].slo \in {"none", "hard", "soft", "released"} /\ t \in Workloads
        BY DEF UsageInv, UsageTypeOK, Workloads
      <3>2. task[t] = NotAdmitted <=> task[t].slo = "none"
        BY DEF UsageInv, PodsFollowTasks, NotAdmitted
      <3> QED
        BY <2>1, <3>1, <3>2 DEF CaughtUp, UsageInv, PodsFollowTasks
    <2> QED
      BY <2>2, <2>3 DEF OnNode, Workloads, WithSLO
  <1>2. /\ run \in SUBSET UsageJobs /\ hard \in SUBSET UsageTasks /\ soft \in SUBSET UsageTasks
        /\ run \cap (hard \cup soft) = {} /\ hard \cap soft = {}
    BY UsageAssumption DEF WithSLO
  <1>3. allocated = Sum(work, run) /\ counters.hard = Sum(task, hard) /\ counters.soft = Sum(task, soft)
    BY DEF CaughtUp, Holding, UsageInv, CountersCount
  <1>4. AccountGetQuota.allocated = allocated /\ EmiasGetQuota.allocated = counters.hard + counters.soft
    BY DEF AccountGetQuota, EmiasGetQuota
  <1> HIDE DEF run, hard, soft
  <1>5. /\ run \in SUBSET Workloads /\ hard \in SUBSET Workloads /\ soft \in SUBSET Workloads
        /\ hard \cup soft \in SUBSET Workloads
    BY <1>2 DEF Workloads
  <1>6. /\ Total(Asked, run \cup (hard \cup soft)) = Total(Asked, run) + Total(Asked, hard \cup soft)
        /\ Total(Asked, hard \cup soft) = Total(Asked, hard) + Total(Asked, soft)
        /\ IsFiniteSet(run \cup (hard \cup soft))
    BY <1>2, <1>5, RequestsAddUp DEF UsageInv
  <1>7. ListNodes.used = Total(Asked, OnNode)
    <2>1. IsFiniteSet(OnNode) /\ OnNode \subseteq Workloads
      BY <1>1, <1>6 DEF OnNode
    <2>2. ListNodes.used = (CHOOSE f : f = [s \in SUBSET OnNode |->
                              IF s = {} THEN 0 ELSE PodRequest(First(s)) + f[s \ {First(s)}]])[OnNode]
      BY DEF ListNodes, MapThenSumSet, MapThenFoldSet, First
    <2> QED
      BY <2>1, <2>2, SumOfRequests
  <1>8. /\ Sum(work, run) = Total(Asked, run)
        /\ Sum(task, hard) = Total(Asked, hard) /\ Sum(task, soft) = Total(Asked, soft)
    BY <1>2, SumsAreRequests
  <1>9. /\ Total(Asked, run) \in Nat /\ Total(Asked, hard) \in Nat /\ Total(Asked, soft) \in Nat
    <2>1. IsFiniteSet(run) /\ IsFiniteSet(hard) /\ IsFiniteSet(soft)
      BY <1>2, SumsAreRequests
    <2>2. \A w \in run \cup hard \cup soft : Asked[w] \in Nat
      BY <1>5, RequestsAreNat DEF UsageInv
    <2> QED
      BY <2>1, <2>2, TotalType
  <1> QED
    BY <1>1, <1>3, <1>4, <1>6, <1>7, <1>8, <1>9

\* When every source has caught up, what the members' pages show is what the
\* account's page shows and what waits, and the nodes hold what the account and its
\* EMIAS tasks use (context.go, account.go, emias.go, node.go), for any members,
\* jobs, tasks and amounts.
THEOREM PagesAlwaysAddUp == UsageSpec => []PagesAddUp
  <1>1. UsageInv => PagesAddUp
    <2> SUFFICES ASSUME UsageInv, CaughtUp
                 PROVE  {p.pod : p \in GetPodsForNode} \cap UsageJobs = GetNodeGPUInfo(TRUE)
      BY MembersAddUp, NodesAddUp DEF PagesAddUp
    <2>1. {p.pod : p \in GetPodsForNode} = OnNode
      <3>1. ASSUME NEW p \in GetPodsForNode PROVE p.pod \in OnNode
        BY DEF GetPodsForNode
      <3>2. ASSUME NEW w \in OnNode PROVE \E p \in GetPodsForNode : p.pod = w
        <4>1. [pod |-> w, phase |-> podPhase[w]] \in GetPodsForNode
          BY DEF GetPodsForNode
        <4> QED
          BY <4>1
      <3> QED
        BY <3>1, <3>2
    <2>2. \A w \in Workloads : podPhase[w] # "none" <=> podPhase[w] = "Running"
      BY DEF CaughtUp, UsageInv, UsageTypeOK
    <2> QED
      BY <2>1, <2>2 DEF OnNode, GetNodeGPUInfo, OnGPUs, CaughtUp, Workloads
  <1> QED
    BY <1>1, UsageInvariance, PTL

-----------------------------------------------------------------------------
(* The table of resources. *)

\* A finite set of numbers that is not empty has a largest one.
LEMMA MaxIs ==
    ASSUME NEW S \in SUBSET Nat, IsFiniteSet(S), S # {}
    PROVE  Max(S) \in S /\ \A x \in S : x <= Max(S)
  <1> DEFINE B == {T \in SUBSET S : T # {} /\ ~ \E x \in T : \A y \in T : x >= y}
  <1>1. B = {}
    <2> SUFFICES ASSUME B # {} PROVE FALSE
      OBVIOUS
    <2>1. PICK m \in B : \A T \in SUBSET m : T # m => T \notin B
      <3>1. B \subseteq SUBSET S
        OBVIOUS
      <3> HIDE DEF B
      <3> QED
        BY <3>1, SmallestSubset
    <2>2. PICK t \in m : TRUE
      OBVIOUS
    <2> DEFINE r == m \ {t}
    <2>3. m \subseteq Nat /\ t \in Nat /\ r \in SUBSET m /\ r # m /\ r \in SUBSET S /\ m = r \cup {t}
      BY <2>2
    <2>4. CASE r = {}
      <3>1. m = {t}
        BY <2>3, <2>4
      <3> QED
        BY <2>3, <3>1
    <2>5. CASE r # {}
      <3>1. r \notin B
        BY <2>1, <2>3
      <3>2. PICK x \in r : \A y \in r : x >= y
        BY <2>3, <2>5, <3>1
      <3>3. x \in Nat /\ x \in m
        BY <2>3
      <3>4. CASE x >= t
        <4>1. \A y \in m : x >= y
          BY <2>3, <3>2, <3>4
        <4> QED
          BY <3>3, <4>1
      <3>5. CASE ~(x >= t)
        <4>1. \A y \in m : y \in Nat
          BY <2>3
        <4>2. \A y \in m : t >= y
          BY <2>3, <3>2, <3>3, <3>5, <4>1
        <4> QED
          BY <2>2, <4>2
      <3> QED
        BY <3>4, <3>5
    <2> QED
      BY <2>4, <2>5
  <1>2. \E x \in S : \A y \in S : x >= y
    <2>1. S \notin B
      BY <1>1
    <2> QED
      BY <2>1
  <1>3. Max(S) \in S /\ \A y \in S : Max(S) >= y
    BY <1>2 DEF Max
  <1> QED
    BY <1>3

\* A column of the census: what each node has of one resource.
Column(alloc, k) == [n \in Machines |-> AmountOn(alloc, n, k)]

\* What a sync adds up.
LEMMA SumOfColumn ==
    ASSUME NEW alloc, NEW k, NEW S, IsFiniteSet(S), S \subseteq Machines
    PROVE  (CHOOSE f : f = [s \in SUBSET S |->
                              IF s = {} THEN 0 ELSE AmountOn(alloc, First(s), k) + f[s \ {First(s)}]])[S]
           = Total(Column(alloc, k), S)
  <1> DEFINE v == Column(alloc, k)
             P(f) == f = [s \in SUBSET S |->
                            IF s = {} THEN 0 ELSE AmountOn(alloc, First(s), k) + f[s \ {First(s)}]]
  <1>1. \A f : SumsUp(f, v, S) <=> P(f)
    <2>1. ASSUME NEW f, NEW s \in SUBSET S
          PROVE  (IF s = {} THEN 0 ELSE v[First(s)] + f[s \ {First(s)}])
                 = (IF s = {} THEN 0 ELSE AmountOn(alloc, First(s), k) + f[s \ {First(s)}])
      <3>1. s # {} => First(s) \in Machines
        BY FirstIn
      <3> QED
        BY <3>1 DEF Column
    <2>2. ASSUME NEW f
          PROVE  [s \in SUBSET S |-> IF s = {} THEN 0 ELSE v[First(s)] + f[s \ {First(s)}]]
                 = [s \in SUBSET S |-> IF s = {} THEN 0 ELSE AmountOn(alloc, First(s), k) + f[s \ {First(s)}]]
      BY <2>1
    <2> HIDE DEF v
    <2> QED
      BY <2>2 DEF SumsUp
  <1>2. \E f : P(f)
    <2> HIDE DEF P
    <2> QED
      BY <1>1, SolutionExists
  <1>3. P(CHOOSE f : P(f))
    <2> HIDE DEF P
    <2> QED
      BY <1>2
  <1>4. (CHOOSE f : P(f))[S] = Total(v, S)
    <2> HIDE DEF P, v
    <2> QED
      BY <1>1, <1>3, TotalOf
  <1> QED
    BY <1>4

\* Those that have nothing add nothing.
LEMMA TotalZero ==
    ASSUME NEW S, IsFiniteSet(S), NEW v, \A x \in S : v[x] = 0
    PROVE  Total(v, S) = 0
  <1> DEFINE B == {T \in SUBSET S : Total(v, T) # 0}
  <1> SUFFICES ASSUME B # {} PROVE FALSE
    <2>1. S \in SUBSET S
      OBVIOUS
    <2> QED
      BY <2>1
  <1>1. PICK m \in B : \A T \in SUBSET m : T # m => T \notin B
    <2>1. B \subseteq SUBSET S
      OBVIOUS
    <2> HIDE DEF B
    <2> QED
      BY <2>1, SmallestSubset
  <1>2. m \in SUBSET S /\ IsFiniteSet(m) /\ Total(v, m) # 0
    BY FS_Subset
  <1>3. m # {}
    BY <1>2, TotalStep
  <1>4. First(m) \in m /\ v[First(m)] = 0
    BY <1>2, <1>3, FirstIn
  <1> DEFINE r == m \ {First(m)}
  <1>5. Total(v, r) = 0
    BY <1>1, <1>2, <1>4
  <1>6. Total(v, m) = v[First(m)] + Total(v, r)
    BY <1>2, <1>3, TotalStep
  <1> HIDE DEF r
  <1> QED
    BY <1>2, <1>4, <1>5, <1>6

\* What a sync writes of a resource is the sum over all nodes and the largest node.
LEMMA QuantityIs ==
    ASSUME NEW alloc \in Census, NEW k \in Listed(alloc)
    PROVE  /\ Quantity(alloc, k).total = Total(Column(alloc, k), Machines)
           /\ Quantity(alloc, k).total \in Nat /\ Quantity(alloc, k).max \in Nat
           /\ IsMaximum(Quantity(alloc, k).max, Range(Column(alloc, k)))
  <1> DEFINE having == {n \in Machines : Lists(alloc, n, k)}
             others == {n \in Machines : ~Lists(alloc, n, k)}
             v == Column(alloc, k)
             values == {AmountOn(alloc, n, k) : n \in having}
  <1>1. /\ \A n \in Machines : v[n] = AmountOn(alloc, n, k) /\ v[n] \in Nat
        /\ having # {}
    <2>1. \A n \in Machines : alloc[n][k] \in 0..MaxOnNode + 1
      BY DEF Listed, Census, Entries, Unlisted
    <2> QED
      BY <2>1, ResourcesAssumption DEF Listed, Column, AmountOn
  <1>2. having \cup others = Machines /\ having \cap others = {} /\ having \subseteq Machines
    OBVIOUS
  <1>3. IsFiniteSet(having) /\ IsFiniteSet(others) /\ IsFiniteSet(Machines)
    <2>1. having \in SUBSET Machines /\ others \in SUBSET Machines
      OBVIOUS
    <2> QED
      BY <2>1, ResourcesAssumption, FS_Subset
  <1>4. \A n \in others : v[n] = 0
    BY <1>1 DEF AmountOn
  <1>5. Quantity(alloc, k).total = Total(v, having)
    <2>1. PICK H : H = having
      OBVIOUS
    <2>2. Quantity(alloc, k).total =
            (CHOOSE f : f = [s \in SUBSET H |->
                               IF s = {} THEN 0 ELSE AmountOn(alloc, First(s), k) + f[s \ {First(s)}]])[H]
      BY <2>1 DEF Quantity, MapThenSumSet, MapThenFoldSet, First
    <2>3. IsFiniteSet(H) /\ H \subseteq Machines
      BY <1>2, <1>3, <2>1
    <2>4. Quantity(alloc, k).total = Total(Column(alloc, k), H)
      BY <2>2, <2>3, SumOfColumn
    <2> QED
      BY <2>1, <2>4
  <1>6. Total(v, Machines) = Total(v, having) /\ Total(v, having) \in Nat
    <2> HIDE DEF having, others, v
    <2>1. Total(v, others) = 0
      BY <1>3, <1>4, TotalZero
    <2>2. Total(v, having \cup others) = Total(v, having) + Total(v, others)
      BY <1>1, <1>2, <1>3, TotalUnion
    <2>3. Total(v, having) \in Nat
      BY <1>1, <1>2, <1>3, TotalType
    <2> QED
      BY <1>2, <2>1, <2>2, <2>3
  <1>7. values \in SUBSET Nat /\ values # {} /\ IsFiniteSet(values)
    <2>1. values \in SUBSET Nat /\ values # {}
      BY <1>1
    <2>2. IsFiniteSet(values)
      <3>1. values \in SUBSET (0..MaxOnNode)
        <4>1. \A n \in Machines : alloc[n][k] \in 0..MaxOnNode + 1
          BY DEF Listed, Census, Entries, Unlisted
        <4> QED
          BY <4>1, ResourcesAssumption DEF AmountOn, Lists, Unlisted
      <3>2. IsFiniteSet(0..MaxOnNode)
        BY ResourcesAssumption, FS_Interval
      <3> QED
        BY <3>1, <3>2, FS_Subset
    <2> QED
      BY <2>1, <2>2
  <1>8. Quantity(alloc, k).max = Max(values)
    BY DEF Quantity
  <1>9. Max(values) \in values /\ \A x \in values : x <= Max(values)
    <2> HIDE DEF values
    <2> QED
      BY <1>7, MaxIs
  <1>10. Max(values) \in Nat
    BY <1>7, <1>9
  <1>11. PICK largest : largest = Max(values)
    OBVIOUS
  <1>12. largest \in Nat /\ \E n \in having : AmountOn(alloc, n, k) = largest
    BY <1>9, <1>10, <1>11
  <1>13. \A n \in Machines : v[n] <= largest
    <2> SUFFICES ASSUME NEW n \in Machines PROVE v[n] <= largest
      OBVIOUS
    <2>1. CASE n \in having
      <3>1. AmountOn(alloc, n, k) \in values
        BY <2>1
      <3> QED
        BY <1>1, <1>9, <1>11, <3>1
    <2>2. CASE n \in others
      BY <1>4, <1>12, <2>2
    <2> QED
      BY <1>2, <2>1, <2>2
  <1>14. Range(v) = {v[n] : n \in Machines}
    BY DEF Range, Column
  <1>15. IsMaximum(largest, Range(v))
    <2>1. largest \in Range(v)
      BY <1>1, <1>12, <1>14
    <2>2. \A x \in Range(v) : x <= largest
      BY <1>13, <1>14
    <2> QED
      BY <2>1, <2>2 DEF IsMaximum
  <1> QED
    BY <1>5, <1>6, <1>8, <1>10, <1>11, <1>15

\* The steps of the administrators that delete nothing change nothing that a sync
\* looks at; the nodes may change below it.
LEMMA OthersKeep ==
    ASSUME ResourceInv, UNCHANGED sync, allocatable' \in Census, resource' \in [Kinds -> Row],
           \A k \in Kinds : /\ resource'[k].state = resource[k].state
                            /\ resource'[k].total = resource[k].total
                            /\ resource'[k].max = resource[k].max
    PROVE  ResourceInv'
  <1>1. ResourceTypeOK' /\ WritesListed'
    BY DEF ResourceInv, ResourceTypeOK, WritesListed
  <1>2. \A k \in Kinds : InTable(k)' <=> InTable(k)
    BY DEF InTable
  <1>3. ListResource' = ListResource
    BY <1>2 DEF ListResource
  <1>4. ASSUME NEW s \in Syncs, NEW k \in Listed(sync[s].seen)
        PROVE  Copied(k, sync[s].seen)' <=> Copied(k, sync[s].seen)
    <2>1. k \in Kinds
      BY DEF Listed
    <2> QED
      BY <1>2, <2>1 DEF Copied
  <1>5. AloneIsCopied'
    <2> SUFFICES ASSUME NEW s \in Syncs, sync[s].alone, sync[s].pc \in {"write", "drop", "done"}
                 PROVE  /\ \A t \in Syncs \ {s} : sync[t].pc \notin {"write", "drop"}
                        /\ \A k \in Listed(sync[s].seen) :
                              (sync[s].pc = "write" /\ k \in sync[s].todo) \/ Copied(k, sync[s].seen)'
                        /\ sync[s].pc # "write" =>
                              ListResource' \ Listed(sync[s].seen) \subseteq sync[s].todo
                              /\ sync[s].todo \cap Listed(sync[s].seen) = {}
                        /\ sync[s].pc = "done" => sync[s].todo = {}
      BY DEF AloneIsCopied
    <2> QED
      BY <1>3, <1>4 DEF ResourceInv, AloneIsCopied
  <1> QED
    BY <1>1, <1>5 DEF ResourceInv

\* A step of one sync that leaves the table alone, seen from the others.
LEMMA SyncStarts ==
    ASSUME ResourceInv, NEW s \in Syncs, SyncResource(s)
    PROVE  ResourceInv'
  <1>1. UNCHANGED <<allocatable, resource>>
    BY DEF SyncResource
  <1>2. PICK alone \in BOOLEAN :
           /\ alone <=> \A t \in Syncs \ {s} : sync[t].pc \notin {"write", "drop"}
           /\ sync' = [t \in Syncs |->
                IF t = s THEN [pc |-> "write", seen |-> allocatable, todo |-> Listed(allocatable), alone |-> alone]
                ELSE [sync[t] EXCEPT !.alone = FALSE, !.pc = IF @ = "done" THEN "idle" ELSE @]]
    BY DEF SyncResource
  <1>3. Listed(allocatable) \in SUBSET Kinds /\ allocatable \in Census
    BY DEF Listed, ResourceInv, ResourceTypeOK
  <1>4. /\ sync'[s].pc = "write" /\ sync'[s].seen = allocatable /\ sync'[s].todo = Listed(allocatable)
        /\ sync'[s].alone = alone /\ sync'[s] \in Sync
    BY <1>2, <1>3 DEF Sync
  <1>5. \A t \in Syncs \ {s} :
           /\ sync'[t] \in Sync /\ sync'[t].alone = FALSE
           /\ sync'[t].pc = IF sync[t].pc = "done" THEN "idle" ELSE sync[t].pc
           /\ sync'[t].seen = sync[t].seen /\ sync'[t].todo = sync[t].todo
    BY <1>2 DEF ResourceInv, ResourceTypeOK, Sync
  <1>6. ResourceTypeOK'
    BY <1>1, <1>2, <1>4, <1>5 DEF ResourceInv, ResourceTypeOK
  <1>7. WritesListed'
    BY <1>4, <1>5 DEF ResourceInv, WritesListed
  <1>8. AloneIsCopied'
    <2> SUFFICES ASSUME NEW t \in Syncs, sync'[t].alone, sync'[t].pc \in {"write", "drop", "done"}
                 PROVE  /\ \A u \in Syncs \ {t} : sync'[u].pc \notin {"write", "drop"}
                        /\ \A k \in Listed(sync'[t].seen) :
                              (sync'[t].pc = "write" /\ k \in sync'[t].todo) \/ Copied(k, sync[t].seen)'
                        /\ sync'[t].pc # "write" =>
                              ListResource' \ Listed(sync'[t].seen) \subseteq sync'[t].todo
                              /\ sync'[t].todo \cap Listed(sync'[t].seen) = {}
                        /\ sync'[t].pc = "done" => sync'[t].todo = {}
      BY DEF AloneIsCopied
    <2>1. t = s /\ alone
      BY <1>4, <1>5
    <2>2. \A u \in Syncs \ {s} : sync'[u].pc \notin {"write", "drop"}
      <3>1. \A u \in Syncs \ {s} : sync[u].pc \notin {"write", "drop"}
        BY <1>2, <2>1
      <3> SUFFICES ASSUME NEW u \in Syncs \ {s} PROVE sync'[u].pc \notin {"write", "drop"}
        OBVIOUS
      <3>2. sync'[u].pc = IF sync[u].pc = "done" THEN "idle" ELSE sync[u].pc
        BY <1>5
      <3> QED
        BY <3>1, <3>2
    <2> QED
      BY <1>4, <2>1, <2>2
  <1> QED
    BY <1>6, <1>7, <1>8 DEF ResourceInv

\* A sync that takes its next step: who else is alone is through, and so is not alone.
LEMMA OneSync ==
    ASSUME ResourceInv, NEW s \in Syncs, sync[s].pc \in {"write", "drop"},
           NEW new \in Sync, sync' = [sync EXCEPT ![s] = new], new.alone => sync[s].alone \/ new.pc = "idle",
           UNCHANGED allocatable, resource' \in [Kinds -> Row],
           new.pc = "write" => new.todo \subseteq Listed(new.seen),
           new.alone /\ new.pc \in {"write", "drop", "done"} =>
              /\ \A k \in Listed(new.seen) : (new.pc = "write" /\ k \in new.todo) \/ Copied(k, new.seen)'
              /\ new.pc # "write" => ListResource' \ Listed(new.seen) \subseteq new.todo
                                     /\ new.todo \cap Listed(new.seen) = {}
              /\ new.pc = "done" => new.todo = {}
    PROVE  ResourceInv'
  <1>1. sync'[s] = new /\ \A t \in Syncs \ {s} : sync'[t] = sync[t]
    BY DEF ResourceInv, ResourceTypeOK
  <1>2. ResourceTypeOK' /\ WritesListed'
    BY <1>1 DEF ResourceInv, ResourceTypeOK, WritesListed
  <1>3. AloneIsCopied'
    <2> SUFFICES ASSUME NEW t \in Syncs, sync'[t].alone, sync'[t].pc \in {"write", "drop", "done"}
                 PROVE  /\ \A u \in Syncs \ {t} : sync'[u].pc \notin {"write", "drop"}
                        /\ \A k \in Listed(sync'[t].seen) :
                              (sync'[t].pc = "write" /\ k \in sync'[t].todo) \/ Copied(k, sync[t].seen)'
                        /\ sync'[t].pc # "write" =>
                              ListResource' \ Listed(sync'[t].seen) \subseteq sync'[t].todo
                              /\ sync'[t].todo \cap Listed(sync'[t].seen) = {}
                        /\ sync'[t].pc = "done" => sync'[t].todo = {}
      BY DEF AloneIsCopied
    <2>1. t = s
      <3> SUFFICES ASSUME t # s PROVE FALSE
        OBVIOUS
      <3>1. sync[t].alone /\ sync[t].pc \in {"write", "drop", "done"}
        BY <1>1
      <3> QED
        BY <3>1 DEF ResourceInv, AloneIsCopied
    <2>2. \A u \in Syncs \ {s} : sync[u].pc \notin {"write", "drop"}
      BY <1>1, <2>1 DEF ResourceInv, AloneIsCopied
    <2>3. sync'[t] = new
      BY <1>1, <2>1
    <2>4. \A k : Copied(k, sync[t].seen)' <=> Copied(k, new.seen)'
      BY <2>3 DEF Copied
    <2> QED
      BY <1>1, <2>1, <2>2, <2>3, <2>4
  <1> QED
    BY <1>2, <1>3 DEF ResourceInv

LEMMA WriteKeeps ==
    ASSUME ResourceInv, NEW s \in Syncs, NEW k \in Kinds, WriteResource(s, k)
    PROVE  ResourceInv'
  <1>1. sync[s] \in Sync /\ sync[s].pc = "write" /\ k \in sync[s].todo /\ UNCHANGED allocatable
        /\ sync[s].todo \subseteq Listed(sync[s].seen)
    BY DEF WriteResource, ResourceInv, ResourceTypeOK, WritesListed
  <1>2. CASE resource[k].state # "deleted"
    <2>0. PICK new, seen, q : /\ new = [sync[s] EXCEPT !.todo = sync[s].todo \ {k}]
                              /\ seen = sync[s].seen /\ q = Quantity(seen, k)
      OBVIOUS
    <2>1. /\ resource' = [resource EXCEPT ![k].state = "live", ![k].total = q.total, ![k].max = q.max]
          /\ sync' = [sync EXCEPT ![s] = new]
      BY <1>2, <2>0 DEF WriteResource, SetSync
    <2>2. seen \in Census /\ k \in Listed(seen)
      BY <1>1, <2>0 DEF Sync
    <2>3. q.total \in Nat /\ q.max \in Nat
      BY <2>0, <2>2, QuantityIs
    <2>4. new \in Sync /\ new.pc = "write" /\ new.seen = seen /\ new.todo = sync[s].todo \ {k}
          /\ new.alone = sync[s].alone
      BY <1>1, <2>0 DEF Sync
    <2>5. /\ resource' \in [Kinds -> Row]
          /\ resource'[k].state = "live" /\ resource'[k].total = q.total /\ resource'[k].max = q.max
          /\ \A i \in Kinds \ {k} : resource'[i] = resource[i]
      <3>1. resource[k] \in Row
        BY DEF ResourceInv, ResourceTypeOK
      <3>2. [resource[k] EXCEPT !.state = "live", !.total = q.total, !.max = q.max] \in Row
        BY <2>3, <3>1 DEF Row
      <3>3. resource' = [resource EXCEPT ![k] = [resource[k] EXCEPT !.state = "live", !.total = q.total, !.max = q.max]]
        BY <2>1 DEF ResourceInv, ResourceTypeOK
      <3> QED
        BY <3>1, <3>2, <3>3 DEF ResourceInv, ResourceTypeOK, Row
    <2>6. ASSUME sync[s].alone, NEW i \in Listed(seen)
          PROVE  i \in new.todo \/ Copied(i, seen)'
      <3>1. i \in Kinds
        BY DEF Listed
      <3>2. CASE i = k
        BY <2>0, <2>5, <3>2 DEF Copied, InTable
      <3>3. CASE i # k
        <4>1. i \in sync[s].todo \/ Copied(i, seen)
          BY <1>1, <2>0, <2>6 DEF ResourceInv, AloneIsCopied
        <4> QED
          BY <2>4, <2>5, <3>1, <3>3, <4>1 DEF Copied, InTable
      <3> QED
        BY <3>2, <3>3
    <2>7. \A i \in Listed(new.seen) : new.alone => i \in new.todo \/ Copied(i, new.seen)'
      BY <2>4, <2>6
    <2>8. new.todo \subseteq Listed(new.seen)
      BY <1>1, <2>0, <2>4
    <2> QED
      BY <1>1, <2>1, <2>4, <2>5, <2>7, <2>8, OneSync
  <1>3. CASE resource[k].state = "deleted"
    <2>1. UNCHANGED resource /\ sync' = [sync EXCEPT ![s] = NoSync]
      BY <1>3 DEF WriteResource, SetSync
    <2>2. NoSync \in Sync /\ NoSync.pc = "idle"
      BY ResourcesAssumption DEF NoSync, Sync, Census, Entries, Unlisted
    <2>3. resource' \in [Kinds -> Row]
      BY <2>1 DEF ResourceInv, ResourceTypeOK
    <2> HIDE DEF NoSync
    <2> QED
      BY <1>1, <2>1, <2>2, <2>3, OneSync
  <1> QED
    BY <1>2, <1>3

LEMMA ListKeeps ==
    ASSUME ResourceInv, NEW s \in Syncs, ListObsolete(s)
    PROVE  ResourceInv'
  <1>0. PICK seen, todo, new : /\ seen = sync[s].seen /\ todo = ListResource \ Listed(seen)
                               /\ new = [sync[s] EXCEPT !.pc = "drop", !.todo = todo]
    OBVIOUS
  <1>1. sync[s] \in Sync /\ sync[s].pc = "write" /\ sync[s].todo = {} /\ UNCHANGED <<allocatable, resource>>
    BY DEF ListObsolete, ResourceInv, ResourceTypeOK
  <1>2. sync' = [sync EXCEPT ![s] = new]
    BY <1>0 DEF ListObsolete, SetSync, ListResource
  <1>3. todo \in SUBSET Kinds
    BY <1>0 DEF ListResource
  <1>4. new \in Sync /\ new.pc = "drop" /\ new.seen = seen /\ new.todo = todo /\ new.alone = sync[s].alone
    BY <1>0, <1>1, <1>3 DEF Sync
  <1>5. ListResource' = ListResource /\ \A i : Copied(i, seen)' <=> Copied(i, seen)
    BY <1>1 DEF ListResource, InTable, Copied
  <1>6. ASSUME sync[s].alone, NEW i \in Listed(seen) PROVE Copied(i, seen)'
    BY <1>0, <1>1, <1>5, <1>6 DEF ResourceInv, AloneIsCopied
  <1>7. resource' \in [Kinds -> Row]
    BY <1>1 DEF ResourceInv, ResourceTypeOK
  <1>8. todo \cap Listed(seen) = {} /\ ListResource' \ Listed(seen) \subseteq todo
    BY <1>0, <1>5
  <1> QED
    BY <1>1, <1>2, <1>4, <1>6, <1>7, <1>8, OneSync

LEMMA DropKeeps ==
    ASSUME ResourceInv, NEW s \in Syncs, NEW k \in Kinds, DropResource(s, k)
    PROVE  ResourceInv'
  <1>0. PICK seen, new : seen = sync[s].seen /\ new = [sync[s] EXCEPT !.todo = sync[s].todo \ {k}]
    OBVIOUS
  <1>1. sync[s] \in Sync /\ sync[s].pc = "drop" /\ k \in sync[s].todo /\ UNCHANGED allocatable
    BY DEF DropResource, ResourceInv, ResourceTypeOK
  <1>2. sync' = [sync EXCEPT ![s] = new] /\ resource' = [resource EXCEPT ![k] = NoResource]
    BY <1>0 DEF DropResource, SetSync
  <1>3. new \in Sync /\ new.pc = "drop" /\ new.seen = seen /\ new.todo = sync[s].todo \ {k}
        /\ new.alone = sync[s].alone
    BY <1>0, <1>1 DEF Sync
  <1>4. /\ resource' \in [Kinds -> Row] /\ resource'[k].state = "none"
        /\ \A i \in Kinds \ {k} : resource'[i] = resource[i]
    <2>1. NoResource \in Row /\ NoResource.state = "none"
      BY DEF NoResource, Row
    <2> HIDE DEF NoResource
    <2> QED
      BY <1>2, <2>1 DEF ResourceInv, ResourceTypeOK
  <1>5. ASSUME sync[s].alone
        PROVE  /\ \A i \in Listed(seen) : Copied(i, seen)'
               /\ ListResource' \ Listed(seen) \subseteq new.todo
               /\ new.todo \cap Listed(seen) = {}
    <2>1. /\ \A i \in Listed(seen) : Copied(i, seen)
          /\ ListResource \ Listed(seen) \subseteq sync[s].todo
          /\ sync[s].todo \cap Listed(seen) = {}
      BY <1>0, <1>1, <1>5 DEF ResourceInv, AloneIsCopied
    <2>2. ASSUME NEW i \in Listed(seen) PROVE Copied(i, seen)'
      <3>1. i \in Kinds /\ i # k
        BY <1>1, <2>1 DEF Listed
      <3> QED
        BY <1>4, <2>1, <3>1 DEF Copied, InTable
    <2>3. ListResource' = ListResource \ {k}
      BY <1>4 DEF ListResource, InTable
    <2> QED
      BY <1>3, <2>1, <2>2, <2>3
  <1> QED
    BY <1>1, <1>2, <1>3, <1>4, <1>5, OneSync

LEMMA EndKeeps ==
    ASSUME ResourceInv, NEW s \in Syncs, EndSync(s)
    PROVE  ResourceInv'
  <1>0. PICK seen, new : seen = sync[s].seen /\ new = [sync[s] EXCEPT !.pc = "done"]
    OBVIOUS
  <1>1. sync[s] \in Sync /\ sync[s].pc = "drop" /\ sync[s].todo = {} /\ UNCHANGED <<allocatable, resource>>
    BY DEF EndSync, ResourceInv, ResourceTypeOK
  <1>2. sync' = [sync EXCEPT ![s] = new]
    BY <1>0 DEF EndSync, SetSync
  <1>3. new \in Sync /\ new.pc = "done" /\ new.seen = seen /\ new.todo = {} /\ new.alone = sync[s].alone
    BY <1>0, <1>1 DEF Sync
  <1>4. resource' \in [Kinds -> Row]
    BY <1>1 DEF ResourceInv, ResourceTypeOK
  <1>5. ASSUME sync[s].alone
        PROVE  /\ \A i \in Listed(seen) : Copied(i, seen)'
               /\ ListResource' \ Listed(seen) \subseteq {}
    <2>1. /\ \A i \in Listed(seen) : Copied(i, seen)
          /\ ListResource \ Listed(seen) \subseteq sync[s].todo
      BY <1>0, <1>1, <1>5 DEF ResourceInv, AloneIsCopied
    <2>2. ListResource' = ListResource /\ \A i : Copied(i, seen)' <=> Copied(i, seen)
      BY <1>1 DEF ListResource, InTable, Copied
    <2> QED
      BY <1>1, <2>1, <2>2
  <1> QED
    BY <1>1, <1>2, <1>3, <1>4, <1>5, OneSync

\* A row that is deleted beside a sync leaves no sync alone.
LEMMA DeleteKeeps ==
    ASSUME ResourceInv, NEW k \in Kinds, DeleteResource(k)
    PROVE  ResourceInv'
  <1>1. /\ UNCHANGED allocatable /\ resource' = [resource EXCEPT ![k].state = "deleted"]
        /\ sync' = [s \in Syncs |-> IF sync[s].pc = "done" THEN NoSync ELSE [sync[s] EXCEPT !.alone = FALSE]]
    BY DEF DeleteResource, Administered
  <1>2. NoSync \in Sync /\ NoSync.pc = "idle"
    BY ResourcesAssumption DEF NoSync, Sync, Census, Entries, Unlisted
  <1>3. resource' \in [Kinds -> Row]
    BY <1>1 DEF ResourceInv, ResourceTypeOK, Row
  <1>4. \A s \in Syncs : /\ sync'[s] \in Sync
                         /\ sync'[s].pc = "idle" \/ (/\ ~sync'[s].alone /\ sync'[s].pc = sync[s].pc
                                                     /\ sync'[s].todo = sync[s].todo /\ sync'[s].seen = sync[s].seen)
    <2> SUFFICES ASSUME NEW s \in Syncs
                 PROVE  /\ sync'[s] \in Sync
                        /\ sync'[s].pc = "idle" \/ (/\ ~sync'[s].alone /\ sync'[s].pc = sync[s].pc
                                                    /\ sync'[s].todo = sync[s].todo /\ sync'[s].seen = sync[s].seen)
      OBVIOUS
    <2>1. sync[s] \in Sync
      BY DEF ResourceInv, ResourceTypeOK
    <2> HIDE DEF NoSync
    <2> QED
      BY <1>1, <1>2, <2>1 DEF Sync
  <1>5. ResourceTypeOK'
    <2>1. sync' \in [Syncs -> Sync]
      BY <1>1, <1>4
    <2> QED
      BY <1>1, <1>3, <2>1 DEF ResourceInv, ResourceTypeOK
  <1>6. WritesListed' /\ AloneIsCopied'
    BY <1>4 DEF ResourceInv, WritesListed, AloneIsCopied
  <1> QED
    BY <1>5, <1>6 DEF ResourceInv

\* Who syncs alone has copied what it is through with (SyncResource), for any nodes,
\* resources and requests.
THEOREM ResourceInvariance == ResourceSpec => []ResourceInv
  <1>1. ResourceInit => ResourceInv
    <2> SUFFICES ASSUME ResourceInit PROVE ResourceInv
      OBVIOUS
    <2>1. NoSync \in Sync /\ NoSync.pc = "idle" /\ NoResource \in Row
      BY ResourcesAssumption DEF NoSync, Sync, Census, Entries, Unlisted, NoResource, Row
    <2> HIDE DEF NoSync, NoResource
    <2>2. allocatable \in Census
      BY ResourcesAssumption DEF ResourceInit, Census, Entries, Unlisted
    <2>3. /\ sync = [s \in Syncs |-> NoSync] /\ resource = [k \in Kinds |-> NoResource]
      BY DEF ResourceInit
    <2> QED
      BY <2>1, <2>2, <2>3 DEF ResourceInv, ResourceTypeOK, WritesListed, AloneIsCopied
  <1>2. ResourceInv /\ [ResourceNext]_resourceVars => ResourceInv'
    <2> SUFFICES ASSUME ResourceInv, [ResourceNext]_resourceVars PROVE ResourceInv'
      OBVIOUS
    <2>0. allocatable \in Census /\ resource \in [Kinds -> Row]
      BY DEF ResourceInv, ResourceTypeOK
    <2>1. ASSUME NEW n \in Machines, NEW k \in Kinds, NEW a \in Entries, ChangeMachine(n, k, a)
          PROVE  ResourceInv'
      <3>1. allocatable' \in Census
        <4>1. [allocatable[n] EXCEPT ![k] = a] \in [Kinds -> Entries]
          BY <2>0 DEF Census
        <4> QED
          BY <2>0, <2>1, <4>1 DEF ChangeMachine, Census
      <3> QED
        BY <2>0, <2>1, <3>1, OthersKeep DEF ChangeMachine
    <2>2. ASSUME NEW k \in Kinds, NEW type \in ResourceTypes, UpdateResource(k, type)
          PROVE  ResourceInv'
      <3>1. resource' = [resource EXCEPT ![k].type = type]
        BY <2>2 DEF UpdateResource
      <3>2. /\ resource' \in [Kinds -> Row]
            /\ \A i \in Kinds : /\ resource'[i].state = resource[i].state
                                /\ resource'[i].total = resource[i].total
                                /\ resource'[i].max = resource[i].max
        <4>1. resource[k] \in Row
          BY <2>0
        <4>2. [resource[k] EXCEPT !.type = type] \in Row
          BY <4>1 DEF Row
        <4>3. resource' = [resource EXCEPT ![k] = [resource[k] EXCEPT !.type = type]]
          BY <2>0, <3>1
        <4> QED
          BY <2>0, <4>1, <4>2, <4>3 DEF Row
      <3> QED
        BY <2>0, <2>2, <3>2, OthersKeep DEF UpdateResource
    <2>3. ASSUME UNCHANGED <<allocatable, resource, sync>> PROVE ResourceInv'
      BY <2>0, <2>3, OthersKeep
    <2>4. ASSUME NEW g \in Kinds, NEW k \in Kinds,
                 LinkGPUToRDMA(g, k) \/ \E min, max \in Bounds : LinkGPUToVGPU(g, k, min, max)
          PROVE  ResourceInv'
      BY <2>3, <2>4 DEF LinkGPUToRDMA, LinkGPUToVGPU
    <2>5. ASSUME NEW l \in links, \/ DeleteResourceLink(l) \/ DeleteGPUVGPULink(l)
                                  \/ \E k \in Kinds, min, max \in Bounds : UpdateGPUVGPULink(l, k, min, max)
          PROVE  ResourceInv'
      BY <2>3, <2>5 DEF DeleteResourceLink, DeleteGPUVGPULink, UpdateGPUVGPULink
    <2>6. CASE UNCHANGED resourceVars
      BY <2>3, <2>6 DEF resourceVars
    <2>7. CASE ResourceNext
      BY <2>1, <2>2, <2>4, <2>5, <2>7, SyncStarts, WriteKeeps, ListKeeps, DropKeeps, EndKeeps, DeleteKeeps
         DEF ResourceNext
    <2> QED
      BY <2>6, <2>7
  <1> QED
    BY <1>1, <1>2, PTL DEF ResourceSpec

\* A sync that ended well and alone leaves in the table the sum and the largest
\* amount over the nodes of every resource the cluster had, and nothing else
\* (SyncResource), for any nodes and resources.
THEOREM SyncCopiesCluster == ResourceSpec => []SyncedIsCluster
  <1>1. ResourceInv => SyncedIsCluster
    <2> SUFFICES ASSUME ResourceInv, NEW s \in Syncs, sync[s].pc = "done" /\ sync[s].alone
                 PROVE  /\ ListResource = Listed(sync[s].seen)
                        /\ \A k \in ListResource :
                              LET of == [n \in Machines |-> AmountOn(sync[s].seen, n, k)] IN
                              /\ resource[k].total = FoldFunction(+, 0, of)
                              /\ IsMaximum(resource[k].max, Range(of))
      BY DEF SyncedIsCluster
    <2>1. PICK seen \in Census : seen = sync[s].seen
      BY DEF ResourceInv, ResourceTypeOK, Sync
    <2>2. /\ \A k \in Listed(seen) : Copied(k, seen)
          /\ ListResource \ Listed(seen) = {}
      BY <2>1 DEF ResourceInv, AloneIsCopied
    <2>3. ListResource = Listed(seen)
      BY <2>2 DEF Copied, ListResource, Listed
    <2>4. ASSUME NEW k \in ListResource
          PROVE  /\ resource[k].total = FoldFunction(+, 0, Column(seen, k))
                 /\ IsMaximum(resource[k].max, Range(Column(seen, k)))
      <3>1. k \in Listed(seen) /\ resource[k].total = Quantity(seen, k).total /\ resource[k].max = Quantity(seen, k).max
        BY <2>2, <2>3 DEF Copied
      <3>2. DOMAIN Column(seen, k) = Machines
        BY DEF Column
      <3>3. PICK v : v = Column(seen, k)
        OBVIOUS
      <3>4. FoldFunction(+, 0, v) = Total(v, Machines)
        BY <3>2, <3>3 DEF FoldFunction, FoldFunctionOnSet, MapThenFoldSet, Total, Solution, SumsUp, First
      <3> QED
        BY <3>1, <3>3, <3>4, QuantityIs
    <2> QED
      BY <2>1, <2>3, <2>4 DEF Column
  <1> QED
    BY <1>1, ResourceInvariance, PTL

=============================================================================
