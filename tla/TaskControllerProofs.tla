------------------------ MODULE TaskControllerProofs ------------------------
(***************************************************************************)
(* TaskController keeps its types, admits guaranteed tasks only within the *)
(* hard limit, never creates the AIJob of a task twice, and implements     *)
(* QuotaLedger, for every set of tasks, accounts, requests and quotas,     *)
(* whichever calls may fail.                                               *)
(* First come the operators of ResourceList and Quota, what they preserve  *)
(* for every set of resources and tasks and every request, and what        *)
(* SumRequests is, which Folds.tla defines by recursion over an arbitrary  *)
(* order of the tasks.                                                     *)
(***************************************************************************)
EXTENDS TaskController, FiniteSetTheorems, WellFoundedInduction, TLAPS

-----------------------------------------------------------------------------
(* Resource lists and quotas *)

\* Adding and subtracting a request keeps a usage a resource list
\* (AddResourceList and SubResourceList of utils.go).
LEMMA AddSubType ==
    ASSUME NEW a, IsResourceList(a), NEW b, IsNatResourceList(b)
    PROVE  IsResourceList(AddResourceList(a, b)) /\ IsResourceList(SubResourceList(a, b))
  <1>1. \A k \in DOMAIN a \cup DOMAIN b : Quantity(a, k) \in Int /\ Quantity(b, k) \in Int
    BY DEF IsResourceList, IsNatResourceList, Quantity
  <1>2. IsResourceList(AddResourceList(a, b))
    BY <1>1 DEF IsResourceList, IsNatResourceList, AddResourceList
  <1>3. \A k \in DOMAIN a : a[k] - Quantity(b, k) \in Int
    BY <1>1 DEF IsResourceList
  <1>4. IsResourceList(SubResourceList(a, b))
    BY <1>3 DEF IsResourceList, SubResourceList
  <1> QED
    BY <1>2, <1>4

\* A usage with which a request fits still fits it after any subtraction.
LEMMA SubStillFits ==
    ASSUME NEW hard, IsNatResourceList(hard), NEW used, IsResourceList(used),
           NEW req, IsNatResourceList(req), NEW freed, IsNatResourceList(freed),
           ~CheckResourceListExceed(hard, used, req)
    PROVE  ~CheckResourceListExceed(hard, SubResourceList(used, freed), req)
  <1> DEFINE sub == SubResourceList(used, freed)
  <1>1. DOMAIN sub = DOMAIN used
    BY DEF SubResourceList
  <1>2. SUFFICES ASSUME NEW k \in DOMAIN used \cup DOMAIN req
                 PROVE  k \in DOMAIN hard
                        /\ ~(Quantity(sub, k) + Quantity(req, k) > hard[k])
    BY <1>1 DEF CheckResourceListExceed, AddResourceList
  <1>3. k \in DOMAIN hard /\ ~(Quantity(used, k) + Quantity(req, k) > hard[k])
    BY DEF CheckResourceListExceed, AddResourceList
  <1>4. Quantity(used, k) \in Int /\ Quantity(req, k) \in Int /\ hard[k] \in Int
    BY <1>3 DEF IsResourceList, IsNatResourceList, Quantity
  <1>5. Quantity(sub, k) \in Int /\ Quantity(sub, k) <= Quantity(used, k)
    BY <1>1 DEF IsResourceList, IsNatResourceList, Quantity, SubResourceList
  <1> QED
    BY <1>3, <1>4, <1>5

\* Counting or releasing a task keeps an entry of the quota cache well formed
\* (QuotaInfo.AddTask and QuotaInfo.DeleteTask).
LEMMA TaskType ==
    ASSUME NEW info, IsQuotaInfo(info), NEW t \in Tasks
    PROVE  IsQuotaInfo(AddTask(info, t)) /\ IsQuotaInfo(DeleteTask(info, t))
  <1>1. IsNatResourceList(Request[t])
    BY RequestType
  <1>2. /\ IsResourceList(AddResourceList(info.HardUsed, Request[t]))
        /\ IsResourceList(AddResourceList(info.SoftUsed, Request[t]))
        /\ IsResourceList(SubResourceList(info.HardUsed, Request[t]))
        /\ IsResourceList(SubResourceList(info.SoftUsed, Request[t]))
    BY <1>1, AddSubType DEF IsQuotaInfo
  <1>3. IsQuotaInfo(AddTask(info, t))
    BY <1>2 DEF IsQuotaInfo, AddTask
  <1>4. IsQuotaInfo(DeleteTask(info, t))
    BY <1>2 DEF IsQuotaInfo, DeleteTask
  <1> QED
    BY <1>3, <1>4

\* No entry, and a fresh entry, are well formed (AddOrUpdateQuotaInfo).
LEMMA NewType ==
    /\ IsQuotaInfo(NoQuotaInfo)
    /\ \A hard : IsNatResourceList(hard) => IsQuotaInfo(NewQuotaInfo(hard))
  <1>1. IsResourceList(EmptyList) /\ IsNatResourceList(EmptyList)
    BY DEF IsResourceList, IsNatResourceList, EmptyList
  <1> QED
    BY <1>1 DEF IsQuotaInfo, NoQuotaInfo, NewQuotaInfo

\* What fitted before some task was released fits after it: a release can
\* never invalidate a check that CheckHardQuotaExceed has passed.
LEMMA ReleaseStillFits ==
    ASSUME NEW info, IsQuotaInfo(info), NEW t \in Tasks, NEW u \in Tasks,
           ~CheckHardQuotaExceed(info, u)
    PROVE  ~CheckHardQuotaExceed(DeleteTask(info, t), u)
  <1>1. IsNatResourceList(Request[t]) /\ IsNatResourceList(Request[u])
    BY RequestType
  <1>2. CASE t \notin info.UsedTasks \/ SLO[t] # HighSLO \/ SLO[u] = LowSLO
    BY <1>2 DEF DeleteTask, CheckHardQuotaExceed, IsQuotaInfo
  <1>3. CASE t \in info.UsedTasks /\ SLO[t] = HighSLO /\ SLO[u] # LowSLO
    <2>1. /\ DeleteTask(info, t).Hard = info.Hard
          /\ DeleteTask(info, t).HardUsed = SubResourceList(info.HardUsed, Request[t])
      BY <1>3 DEF DeleteTask, IsQuotaInfo
    <2>2. ~CheckResourceListExceed(info.Hard, SubResourceList(info.HardUsed, Request[t]), Request[u])
      BY <1>1, <1>3, SubStillFits DEF IsQuotaInfo, CheckHardQuotaExceed
    <2> QED
      BY <2>1, <2>2 DEF CheckHardQuotaExceed
  <1> QED
    BY <1>2, <1>3

\* Counting a guaranteed task that passed the check leaves the usage within
\* the hard limit.
LEMMA AddedFits ==
    ASSUME NEW info, IsQuotaInfo(info), NEW t \in Tasks, SLO[t] = HighSLO,
           ~CheckHardQuotaExceed(info, t)
    PROVE  WithinHard(AddTask(info, t).Hard, AddTask(info, t).HardUsed)
  <1> DEFINE total == AddResourceList(info.HardUsed, Request[t])
  <1>1. IsNatResourceList(Request[t])
    BY RequestType
  <1>2. ~CheckResourceListExceed(info.Hard, info.HardUsed, Request[t])
    BY DEF CheckHardQuotaExceed, HighSLO, LowSLO
  <1>3. \A k \in DOMAIN total : k \in DOMAIN info.Hard /\ ~(total[k] > info.Hard[k])
    BY <1>2 DEF CheckResourceListExceed
  <1>4. \A k \in DOMAIN total : total[k] \in Int
    BY <1>1, AddSubType DEF IsQuotaInfo, IsResourceList
  <1>5. \A k \in DOMAIN total : k \in DOMAIN info.Hard /\ total[k] <= info.Hard[k]
    BY <1>3, <1>4 DEF IsQuotaInfo, IsNatResourceList
  <1>6. \A k \in DOMAIN info.HardUsed :
          k \in DOMAIN total /\ info.HardUsed[k] \in Int /\ info.HardUsed[k] <= total[k]
    BY <1>1 DEF AddResourceList, Quantity, IsQuotaInfo, IsResourceList, IsNatResourceList
  <1>7. CASE t \in info.UsedTasks
    <2>1. AddTask(info, t) = info
      BY <1>7 DEF AddTask
    <2>2. \A k \in DOMAIN info.HardUsed : k \in DOMAIN info.Hard /\ info.HardUsed[k] <= info.Hard[k]
      BY <1>4, <1>5, <1>6 DEF IsQuotaInfo, IsNatResourceList
    <2> QED
      BY <2>1, <2>2 DEF WithinHard
  <1>8. CASE t \notin info.UsedTasks
    <2>1. AddTask(info, t).Hard = info.Hard /\ AddTask(info, t).HardUsed = total
      BY <1>8 DEF AddTask, IsQuotaInfo
    <2> QED
      BY <2>1, <1>5 DEF WithinHard
  <1> QED
    BY <1>7, <1>8

-----------------------------------------------------------------------------
\* Of some subsets of a finite set, one has no other one below it: the induction
\* that the lemmas on sums need.
LEMMA SmallestSubset ==
    ASSUME NEW S, IsFiniteSet(S), NEW B, B \subseteq SUBSET S, B # {}
    PROVE  \E m \in B : \A T \in SUBSET m : T # m => T \notin B
  <1>1. IsWellFoundedOn(StrictSubsetOrdering(S), FiniteSubsetsOf(S))
    BY FS_StrictSubsetOrderingWellFounded
  <1>2. FiniteSubsetsOf(S) = SUBSET S
    BY FS_FiniteSubsetsOfFinite
  <1>3. PICK m \in B : \A y \in B : ~(<<y, m>> \in StrictSubsetOrdering(S))
    BY <1>1, <1>2, WFMin
  <1>4. ASSUME NEW T \in SUBSET m, T # m, T \in B PROVE FALSE
    BY <1>3, <1>4 DEF StrictSubsetOrdering
  <1> QED
    BY <1>3, <1>4

\* The fold takes the members of a set in the order of CHOOSE.
First(s) == CHOOSE t \in s : TRUE
\* The equation that the function of FoldSet solves over the subsets of S.
SumsOver(f, S) ==
    f = [s \in SUBSET S |-> IF s = {} THEN EmptyList
                            ELSE AddResourceList(f[s \ {First(s)}], Request[First(s)])]

\* SumRequests is the value of such a function, if there is one.
LEMMA SumIsFold ==
    ASSUME NEW S
    PROVE SumRequests(S) = (CHOOSE f : SumsOver(f, S))[S]
  BY DEF SumRequests, FoldSet, MapThenFoldSet, SumsOver, First

\* The first member is a member.
LEMMA FirstIn == \A s : s # {} => First(s) \in s
  BY DEF First

\* Two solutions agree where both are defined.
LEMMA SumsUnique ==
    ASSUME NEW S, IsFiniteSet(S), NEW T, NEW f, SumsOver(f, S), NEW g, SumsOver(g, T)
    PROVE  \A s \in SUBSET (S \cap T) : f[s] = g[s]
  <1> DEFINE B == {s \in SUBSET (S \cap T) : f[s] # g[s]}
  <1> SUFFICES ASSUME B # {} PROVE FALSE
    OBVIOUS
  <1>1. PICK m \in B : \A s \in SUBSET m : s # m => s \notin B
    <2>1. B \subseteq SUBSET S
      OBVIOUS
    <2> HIDE DEF B
    <2> QED
      BY <2>1, SmallestSubset
  <1>2. m \in SUBSET S /\ m \in SUBSET T
    OBVIOUS
  <1>3. CASE m = {}
    <2>1. f[m] = EmptyList /\ g[m] = EmptyList
      BY <1>2, <1>3 DEF SumsOver
    <2> QED
      BY <2>1
  <1>4. CASE m # {}
    <2> DEFINE r == m \ {First(m)}
    <2>1. r \in SUBSET m /\ r # m
      BY <1>4, FirstIn
    <2>2. r \notin B
      BY <1>1, <2>1
    <2>3. f[r] = g[r]
      BY <2>1, <2>2, <1>2
    <2>4. f[m] = AddResourceList(f[r], Request[First(m)])
      BY <1>2, <1>4 DEF SumsOver
    <2>5. g[m] = AddResourceList(g[r], Request[First(m)])
      BY <1>2, <1>4 DEF SumsOver
    <2> QED
      BY <2>3, <2>4, <2>5
  <1> QED
    BY <1>3, <1>4

\* A solution, if there is one.
SumsOf(S) == CHOOSE f : SumsOver(f, S)

\* There is a solution over every finite set.
LEMMA SumsExist ==
    ASSUME NEW S, IsFiniteSet(S)
    PROVE  SumsOver(SumsOf(S), S)
  <1> DEFINE B == {T \in SUBSET S : ~\E f : SumsOver(f, T)}
  <1>1. SUFFICES ASSUME B # {} PROVE FALSE
    BY DEF SumsOf
  <1>2. PICK m \in B : \A T \in SUBSET m : T # m => T \notin B
    <2>1. B \subseteq SUBSET S
      OBVIOUS
    <2> HIDE DEF B
    <2> QED
      BY <1>1, <2>1, SmallestSubset
  <1>3. ASSUME NEW T \in SUBSET m, T # m PROVE SumsOver(SumsOf(T), T) /\ IsFiniteSet(T)
    <2>1. \E f : SumsOver(f, T)
      BY <1>2, <1>3
    <2>2. SumsOver(SumsOf(T), T)
      BY <2>1 DEF SumsOf
    <2>3. T \in SUBSET S
      OBVIOUS
    <2> QED
      BY <2>2, <2>3, FS_Subset
  <1> DEFINE rest(s) == s \ {First(s)}
             sum(s) == SumsOf(s)[s]
             step(s) == AddResourceList(sum(rest(s)), Request[First(s)])
             g == [s \in SUBSET m |-> IF s = {} THEN EmptyList ELSE step(s)]
  <1>4. ASSUME NEW s \in SUBSET m, s # m PROVE sum(s) = g[s]
    <2>1. SumsOver(SumsOf(s), s) /\ IsFiniteSet(s)
      BY <1>3, <1>4
    <2>2. CASE s = {}
      <3>1. sum(s) = EmptyList
        BY <2>1, <2>2 DEF SumsOver
      <3> QED
        BY <3>1, <2>2
    <2>3. CASE s # {}
      <3>1. rest(s) \in SUBSET s /\ rest(s) \in SUBSET m /\ rest(s) # m
        BY <1>4
      <3>2. SumsOver(SumsOf(rest(s)), rest(s)) /\ IsFiniteSet(rest(s))
        BY <1>3, <3>1
      <3>3. SumsOf(s)[rest(s)] = sum(rest(s))
        <4> HIDE DEF rest
        <4>1. rest(s) \in SUBSET (s \cap rest(s))
          BY <3>1
        <4> QED
          BY <2>1, <3>2, <4>1, SumsUnique
      <3>4. sum(s) = AddResourceList(SumsOf(s)[rest(s)], Request[First(s)])
        BY <2>1, <2>3 DEF SumsOver
      <3> QED
        BY <3>3, <3>4, <2>3
    <2> QED
      BY <2>2, <2>3
  <1>5. ASSUME NEW s \in SUBSET m, s # {} PROVE g[s] = AddResourceList(g[rest(s)], Request[First(s)])
    <2>1. rest(s) \in SUBSET m /\ rest(s) # m
      BY <1>5, FirstIn
    <2>2. sum(rest(s)) = g[rest(s)]
      <3> HIDE DEF rest, sum, g
      <3> QED
        BY <2>1, <1>4
    <2>3. g[s] = AddResourceList(sum(rest(s)), Request[First(s)])
      BY <1>5
    <2> QED
      BY <2>2, <2>3
  <1>6. SumsOver(g, m)
    <2>1. g[{}] = EmptyList
      OBVIOUS
    <2>2. g = [s \in SUBSET m |-> g[s]]
      OBVIOUS
    <2>3. ASSUME NEW s \in SUBSET m
          PROVE  g[s] = (IF s = {} THEN EmptyList ELSE AddResourceList(g[s \ {First(s)}], Request[First(s)]))
      BY <1>5, <2>1
    <2> HIDE DEF g
    <2> QED
      BY <2>2, <2>3 DEF SumsOver
  <1> QED
    BY <1>2, <1>6

\* So SumRequests satisfies its recursive equation.
LEMMA SumStep ==
    /\ SumRequests({}) = EmptyList
    /\ \A S : IsFiniteSet(S) /\ S # {} =>
         SumRequests(S) = AddResourceList(SumRequests(S \ {First(S)}), Request[First(S)])
  <1>1. SumRequests({}) = EmptyList
    <2>1. SumsOver(SumsOf({}), {})
      BY SumsExist, FS_EmptySet
    <2>2. SumsOf({})[{}] = EmptyList
      BY <2>1 DEF SumsOver
    <2> QED
      BY <2>2, SumIsFold DEF SumsOf
  <1>2. ASSUME NEW S, IsFiniteSet(S), S # {}
        PROVE  SumRequests(S) = AddResourceList(SumRequests(S \ {First(S)}), Request[First(S)])
    <2> DEFINE r == S \ {First(S)}
    <2>1. IsFiniteSet(r)
      BY <1>2, FS_RemoveElement
    <2>2. SumsOver(SumsOf(S), S) /\ SumsOver(SumsOf(r), r)
      BY <1>2, <2>1, SumsExist
    <2>3. SumsOf(S)[r] = SumsOf(r)[r]
      BY <1>2, <2>2, SumsUnique
    <2>4. SumsOf(S)[S] = AddResourceList(SumsOf(S)[r], Request[First(S)])
      BY <1>2, <2>2 DEF SumsOver
    <2>5. SumRequests(S) = SumsOf(S)[S] /\ SumRequests(r) = SumsOf(r)[r]
      BY SumIsFold DEF SumsOf
    <2> QED
      BY <2>3, <2>4, <2>5
  <1> QED
    BY <1>1, <1>2

\* The total of guaranteed tasks, or of best-effort ones, is a list of naturals.
LEMMA SumType ==
    ASSUME NEW S \in SUBSET Tasks, IsFiniteSet(S)
    PROVE  IsNatResourceList(SumRequests(S))
  <1> DEFINE B == {T \in SUBSET S : ~IsNatResourceList(SumRequests(T))}
  <1> SUFFICES ASSUME B # {} PROVE FALSE
    OBVIOUS
  <1>1. PICK m \in B : \A T \in SUBSET m : T # m => T \notin B
    <2>1. B \subseteq SUBSET S
      OBVIOUS
    <2> HIDE DEF B
    <2> QED
      BY <2>1, SmallestSubset
  <1>2. IsFiniteSet(m) /\ m \in SUBSET S
    BY FS_Subset
  <1>3. CASE m = {}
    BY <1>1, <1>3, SumStep DEF IsNatResourceList, EmptyList
  <1>4. CASE m # {}
    <2> DEFINE r == m \ {First(m)}
    <2>1. First(m) \in m /\ First(m) \in Tasks
      BY <1>2, <1>4, FirstIn
    <2>2. IsNatResourceList(SumRequests(r))
      BY <1>1, <1>2, <2>1
    <2>3. SumRequests(m) = AddResourceList(SumRequests(r), Request[First(m)])
      BY <1>2, <1>4, SumStep
    <2>4. IsNatResourceList(Request[First(m)])
      BY <2>1, RequestType
    <2> HIDE DEF r
    <2>5. ASSUME NEW a, IsNatResourceList(a), NEW b, IsNatResourceList(b)
          PROVE  IsNatResourceList(AddResourceList(a, b))
      BY <2>5 DEF IsNatResourceList, AddResourceList, Quantity
    <2> QED
      BY <1>1, <2>2, <2>3, <2>4, <2>5
  <1> QED
    BY <1>3, <1>4

\* Quantities add up.
LEMMA AddQuantity ==
    ASSUME NEW a, IsResourceList(a), NEW b, IsResourceList(b), NEW k
    PROVE  /\ Quantity(a, k) \in Int /\ Quantity(b, k) \in Int
           /\ Quantity(AddResourceList(a, b), k) = Quantity(a, k) + Quantity(b, k)
  BY DEF IsResourceList, AddResourceList, Quantity

\* A list of naturals is a resource list without negative quantities.
LEMMA NatList ==
    ASSUME NEW a, IsNatResourceList(a)
    PROVE  IsResourceList(a) /\ \A k : Quantity(a, k) \in Nat
  BY DEF IsNatResourceList, IsResourceList, Quantity

\* The total does not depend on the order: any task may be taken as the last.
LEMMA SumRemove ==
    ASSUME NEW S \in SUBSET Tasks, IsFiniteSet(S), NEW k
    PROVE  \A t \in S : Quantity(SumRequests(S), k)
                        = Quantity(SumRequests(S \ {t}), k) + Quantity(Request[t], k)
  <1> DEFINE total(T) == Quantity(SumRequests(T), k)
             req(t) == Quantity(Request[t], k)
             B == {T \in SUBSET S : \E t \in T : total(T) # total(T \ {t}) + req(t)}
  <1> SUFFICES ASSUME B # {} PROVE FALSE
    OBVIOUS
  <1>1. PICK m \in B : \A T \in SUBSET m : T # m => T \notin B
    <2>1. B \subseteq SUBSET S
      OBVIOUS
    <2> HIDE DEF B
    <2> QED
      BY <2>1, SmallestSubset
  <1>2. PICK t \in m : total(m) # total(m \ {t}) + req(t)
    OBVIOUS
  <1>3. \A T \in SUBSET m : IsFiniteSet(T) /\ IsNatResourceList(SumRequests(T)) /\ total(T) \in Nat
    <2>1. \A T \in SUBSET m : T \in SUBSET S /\ T \in SUBSET Tasks
      OBVIOUS
    <2> QED
      BY <2>1, FS_Subset, SumType, NatList
  <1>4. \A u \in m : IsNatResourceList(Request[u]) /\ req(u) \in Nat
    BY RequestType, NatList
  <1>5. ASSUME NEW T \in SUBSET m, T # {}
        PROVE  total(T) = total(T \ {First(T)}) + req(First(T))
    <2>1. First(T) \in m /\ T \ {First(T)} \in SUBSET m
      BY <1>5, FirstIn
    <2>2. SumRequests(T) = AddResourceList(SumRequests(T \ {First(T)}), Request[First(T)])
      BY <1>3, <1>5, SumStep
    <2>3. /\ IsResourceList(SumRequests(T \ {First(T)}))
          /\ IsResourceList(Request[First(T)])
      BY <2>1, <1>3, <1>4, NatList
    <2> QED
      BY <2>2, <2>3, AddQuantity
  <1> DEFINE x == First(m)
  <1>6. x \in m /\ total(m) = total(m \ {x}) + req(x)
    BY <1>2, <1>5, FirstIn
  <1>7. t # x
    BY <1>2, <1>6
  <1>8. total(m \ {x}) = total((m \ {x}) \ {t}) + req(t)
    <2>1. m \ {x} \in SUBSET m /\ m \ {x} # m /\ t \in m \ {x}
      BY <1>6, <1>7
    <2> HIDE DEF x
    <2> QED
      BY <1>1, <2>1
  <1>9. total(m \ {t}) = total((m \ {t}) \ {x}) + req(x)
    <2>1. m \ {t} \in SUBSET m /\ m \ {t} # m /\ x \in m \ {t}
      BY <1>6, <1>7
    <2> HIDE DEF x
    <2> QED
      BY <1>1, <2>1
  <1>10. (m \ {x}) \ {t} = (m \ {t}) \ {x} /\ (m \ {x}) \ {t} \in SUBSET m
    OBVIOUS
  <1>11. /\ total((m \ {x}) \ {t}) \in Nat /\ req(t) \in Nat /\ req(x) \in Nat
         /\ total((m \ {t}) \ {x}) = total((m \ {x}) \ {t})
    <2> HIDE DEF x
    <2> QED
      BY <1>3, <1>4, <1>6, <1>10
  <1> HIDE DEF total, req, x
  <1> QED
    BY <1>2, <1>6, <1>8, <1>9, <1>11

\* The tasks of one service level that an entry counts.
OfLevel(info, level) == {t \in info.UsedTasks : SLO[t] = level}

\* What is counted of a level, after one more task of the level.
LEMMA LevelAdds ==
    ASSUME NEW used, IsResourceList(used), NEW S \in SUBSET Tasks, IsFiniteSet(S),
           NEW t \in Tasks, t \notin S, NEW k,
           Quantity(used, k) = Quantity(SumRequests(S), k)
    PROVE  Quantity(AddResourceList(used, Request[t]), k) = Quantity(SumRequests(S \cup {t}), k)
  <1> DEFINE U == S \cup {t}
  <1>1. U \in SUBSET Tasks /\ IsFiniteSet(U) /\ t \in U /\ U \ {t} = S
    BY FS_AddElement
  <1>2. Quantity(SumRequests(U), k) = Quantity(SumRequests(S), k) + Quantity(Request[t], k)
    <2> HIDE DEF U
    <2> QED
      BY <1>1, SumRemove
  <1>3. IsResourceList(Request[t])
    BY RequestType, NatList
  <1> QED
    BY <1>2, <1>3, AddQuantity

\* And after one of them is released: SubResourceList drops no key that matters.
LEMMA LevelSubtracts ==
    ASSUME NEW used, IsResourceList(used), NEW S \in SUBSET Tasks, IsFiniteSet(S),
           NEW t \in S, NEW k, Quantity(used, k) = Quantity(SumRequests(S), k)
    PROVE  Quantity(SubResourceList(used, Request[t]), k) = Quantity(SumRequests(S \ {t}), k)
  <1>1. Quantity(SumRequests(S), k) = Quantity(SumRequests(S \ {t}), k) + Quantity(Request[t], k)
    BY SumRemove
  <1>2. Quantity(SumRequests(S \ {t}), k) \in Nat /\ Quantity(Request[t], k) \in Nat
    <2>1. S \ {t} \in SUBSET Tasks /\ IsFiniteSet(S \ {t})
      BY FS_RemoveElement
    <2> QED
      BY <2>1, SumType, NatList, RequestType
  <1>3. Quantity(used, k) \in Int
    BY DEF IsResourceList, Quantity
  <1>4. CASE k \in DOMAIN used
    <2>1. Quantity(SubResourceList(used, Request[t]), k) = Quantity(used, k) - Quantity(Request[t], k)
      BY <1>4 DEF SubResourceList, Quantity
    <2> QED
      BY <1>1, <1>2, <1>3, <2>1
  <1>5. CASE k \notin DOMAIN used
    <2>1. Quantity(SubResourceList(used, Request[t]), k) = 0 /\ Quantity(used, k) = 0
      BY <1>5 DEF SubResourceList, Quantity
    <2> QED
      BY <1>1, <1>2, <2>1
  <1> QED
    BY <1>4, <1>5

\* Counting a task keeps the account right, whether it is counted already or not.
LEMMA AddAccounted ==
    ASSUME NEW info, IsQuotaInfo(info), IsFiniteSet(info.UsedTasks), Accounted(info), NEW t \in Tasks
    PROVE  IsFiniteSet(AddTask(info, t).UsedTasks) /\ Accounted(AddTask(info, t))
  <1>1. CASE t \in info.UsedTasks
    BY <1>1 DEF AddTask
  <1>2. CASE t \notin info.UsedTasks
    <2> DEFINE new == AddTask(info, t)
    <2>1. /\ new.UsedTasks = info.UsedTasks \cup {t}
          /\ new.HardUsed = IF SLO[t] = HighSLO THEN AddResourceList(info.HardUsed, Request[t])
                            ELSE info.HardUsed
          /\ new.SoftUsed = IF SLO[t] = LowSLO THEN AddResourceList(info.SoftUsed, Request[t])
                            ELSE info.SoftUsed
      BY <1>2 DEF AddTask, IsQuotaInfo
    <2>2. IsFiniteSet(new.UsedTasks)
      BY <2>1, FS_AddElement
    <2>3. \A level : /\ OfLevel(info, level) \in SUBSET Tasks /\ IsFiniteSet(OfLevel(info, level))
                     /\ t \notin OfLevel(info, level)
                     /\ OfLevel(new, level) = IF SLO[t] = level THEN OfLevel(info, level) \cup {t}
                                              ELSE OfLevel(info, level)
      <3>1. \A level : OfLevel(info, level) \in SUBSET info.UsedTasks /\ OfLevel(info, level) \in SUBSET Tasks
        BY DEF OfLevel, IsQuotaInfo
      <3>2. \A level : t \notin OfLevel(info, level)
        BY <1>2 DEF OfLevel
      <3>3. \A level : OfLevel(new, level) = IF SLO[t] = level THEN OfLevel(info, level) \cup {t}
                                              ELSE OfLevel(info, level)
        BY <2>1 DEF OfLevel
      <3> HIDE DEF new
      <3> QED
        BY <3>1, <3>2, <3>3, FS_Subset
    <2>4. IsResourceList(info.HardUsed) /\ IsResourceList(info.SoftUsed)
      BY DEF IsQuotaInfo
    <2>5. ASSUME NEW k \in Resources
          PROVE  /\ Quantity(new.HardUsed, k) = Quantity(SumRequests(OfLevel(new, HighSLO)), k)
                 /\ Quantity(new.SoftUsed, k) = Quantity(SumRequests(OfLevel(new, LowSLO)), k)
      <3>1. /\ Quantity(info.HardUsed, k) = Quantity(SumRequests(OfLevel(info, HighSLO)), k)
            /\ Quantity(info.SoftUsed, k) = Quantity(SumRequests(OfLevel(info, LowSLO)), k)
        BY DEF Accounted, OfLevel
      <3> HIDE DEF new
      <3> QED
        BY <2>1, <2>3, <2>4, <3>1, LevelAdds
    <2> HIDE DEF new
    <2>6. Accounted(new)
      BY <2>5 DEF Accounted, OfLevel
    <2> QED
      BY <2>2, <2>6 DEF new
  <1> QED
    BY <1>1, <1>2

\* Releasing a task keeps the account right, whether it is counted or not.
LEMMA DeleteAccounted ==
    ASSUME NEW info, IsQuotaInfo(info), IsFiniteSet(info.UsedTasks), Accounted(info), NEW t \in Tasks
    PROVE  IsFiniteSet(DeleteTask(info, t).UsedTasks) /\ Accounted(DeleteTask(info, t))
  <1>1. CASE t \notin info.UsedTasks
    BY <1>1 DEF DeleteTask
  <1>2. CASE t \in info.UsedTasks
    <2> DEFINE new == DeleteTask(info, t)
    <2>1. /\ new.UsedTasks = info.UsedTasks \ {t}
          /\ new.HardUsed = IF SLO[t] = HighSLO THEN SubResourceList(info.HardUsed, Request[t])
                            ELSE info.HardUsed
          /\ new.SoftUsed = IF SLO[t] = LowSLO THEN SubResourceList(info.SoftUsed, Request[t])
                            ELSE info.SoftUsed
      BY <1>2 DEF DeleteTask, IsQuotaInfo
    <2>2. IsFiniteSet(new.UsedTasks)
      BY <2>1, FS_RemoveElement
    <2>3. \A level : /\ OfLevel(info, level) \in SUBSET Tasks /\ IsFiniteSet(OfLevel(info, level))
                     /\ SLO[t] = level => t \in OfLevel(info, level)
                     /\ OfLevel(new, level) = IF SLO[t] = level THEN OfLevel(info, level) \ {t}
                                              ELSE OfLevel(info, level)
      <3>1. \A level : OfLevel(info, level) \in SUBSET info.UsedTasks /\ OfLevel(info, level) \in SUBSET Tasks
        BY DEF OfLevel, IsQuotaInfo
      <3>2. \A level : SLO[t] = level => t \in OfLevel(info, level)
        BY <1>2 DEF OfLevel
      <3>3. \A level : OfLevel(new, level) = IF SLO[t] = level THEN OfLevel(info, level) \ {t}
                                              ELSE OfLevel(info, level)
        BY <2>1 DEF OfLevel
      <3> HIDE DEF new
      <3> QED
        BY <3>1, <3>2, <3>3, FS_Subset
    <2>4. IsResourceList(info.HardUsed) /\ IsResourceList(info.SoftUsed)
      BY DEF IsQuotaInfo
    <2>5. ASSUME NEW k \in Resources
          PROVE  /\ Quantity(new.HardUsed, k) = Quantity(SumRequests(OfLevel(new, HighSLO)), k)
                 /\ Quantity(new.SoftUsed, k) = Quantity(SumRequests(OfLevel(new, LowSLO)), k)
      <3>1. /\ Quantity(info.HardUsed, k) = Quantity(SumRequests(OfLevel(info, HighSLO)), k)
            /\ Quantity(info.SoftUsed, k) = Quantity(SumRequests(OfLevel(info, LowSLO)), k)
        BY DEF Accounted, OfLevel
      <3> HIDE DEF new
      <3>2. Quantity(new.HardUsed, k) = Quantity(SumRequests(OfLevel(new, HighSLO)), k)
        <4>1. CASE SLO[t] = HighSLO
          <5>1. t \in OfLevel(info, HighSLO)
            BY <2>3, <4>1
          <5> QED
            BY <2>1, <2>3, <2>4, <3>1, <4>1, <5>1, LevelSubtracts
        <4> QED
          BY <2>1, <2>3, <3>1, <4>1
      <3>3. Quantity(new.SoftUsed, k) = Quantity(SumRequests(OfLevel(new, LowSLO)), k)
        <4>1. CASE SLO[t] = LowSLO
          <5>1. t \in OfLevel(info, LowSLO)
            BY <2>3, <4>1
          <5> QED
            BY <2>1, <2>3, <2>4, <3>1, <4>1, <5>1, LevelSubtracts
        <4> QED
          BY <2>1, <2>3, <3>1, <4>1
      <3> QED
        BY <3>2, <3>3
    <2> HIDE DEF new
    <2>6. Accounted(new)
      BY <2>5 DEF Accounted, OfLevel
    <2> QED
      BY <2>2, <2>6 DEF new
  <1> QED
    BY <1>1, <1>2

\* An entry that counts nothing is accounted for.
LEMMA NewAccounted ==
    /\ IsFiniteSet(NoQuotaInfo.UsedTasks) /\ Accounted(NoQuotaInfo)
    /\ \A hard : IsFiniteSet(NewQuotaInfo(hard).UsedTasks) /\ Accounted(NewQuotaInfo(hard))
  <1>1. {t \in {} : SLO[t] = HighSLO} = {} /\ {t \in {} : SLO[t] = LowSLO} = {}
    OBVIOUS
  <1>2. /\ NoQuotaInfo.UsedTasks = {} /\ NoQuotaInfo.HardUsed = EmptyList /\ NoQuotaInfo.SoftUsed = EmptyList
        /\ \A hard : /\ NewQuotaInfo(hard).UsedTasks = {}
                      /\ NewQuotaInfo(hard).HardUsed = EmptyList /\ NewQuotaInfo(hard).SoftUsed = EmptyList
    BY DEF NoQuotaInfo, NewQuotaInfo
  <1> QED
    BY <1>1, <1>2, SumStep, FS_EmptySet DEF Accounted

-----------------------------------------------------------------------------
(* The task controller *)

USE DEF DBVars, BootVars, ClusterVars

\* Updating one value of a function keeps its type.
LEMMA UpdateType ==
    ASSUME NEW S, NEW T, NEW f \in [S -> T], NEW x \in S, NEW y \in T
    PROVE  [f EXCEPT ![x] = y] \in [S -> T]
  OBVIOUS

\* Writing one column keeps a row of the task table a row.
LEMMA RowType ==
    ASSUME NEW r \in Row
    PROVE  /\ \A s \in TaskStatus : [r EXCEPT !.status = s] \in Row
           /\ [r EXCEPT !.jobName = TRUE] \in Row
           /\ [r EXCEPT !.isDeleted = TRUE] \in Row
  BY DEF Row

\* taskQueue.AddTask and taskQueue.DeleteTask keep the queues sets of tasks.
LEMMA QueueType ==
    ASSUME userQueues \in [Accounts -> SUBSET Tasks], NEW t \in Tasks
    PROVE  /\ Enqueue(t) \in [Accounts -> SUBSET Tasks]
           /\ Dequeue(t) \in [Accounts -> SUBSET Tasks]
  <1>1. Owner[t] \in Accounts
    BY OwnerType
  <1>2. /\ userQueues[Owner[t]] \cup {t} \in SUBSET Tasks
        /\ userQueues[Owner[t]] \ {t} \in SUBSET Tasks
    BY <1>1
  <1> QED
    BY <1>1, <1>2, UpdateType DEF Enqueue, Dequeue

\* The initial state is well typed.
LEMMA InitType == Init => TypeOK
  <1> SUFFICES ASSUME Init PROVE TypeOK
    OBVIOUS
  <1>1. IsNatResourceList(InitQuota)
    BY QuotaType
  <1>2. \A a \in Accounts : IsNatResourceList(deserved[a])
    BY <1>1 DEF Init
  <1>3. DOMAIN deserved = Accounts /\ DOMAIN quotaInfos = Accounts
    BY DEF Init
  <1>4. \A a \in Accounts : IsQuotaInfo(quotaInfos[a])
    BY NewType DEF Init
  <1>5. db \in [Tasks -> Row]
    BY DEF Init, Row, TaskStatus
  <1>6. /\ del \in [Tasks -> [step : DeleteSteps, jobName : BOOLEAN]]
        /\ sched \in [step : SchedSteps, candidates : SUBSET Tasks, task : Tasks \cup {NoTask}]
    BY DEF Init, IdleDelete, DeleteSteps, IdleSched, SchedSteps
  <1>7. /\ aijobs \in [Tasks -> Phases]
        /\ events \in [Tasks -> Seq(NotifiedPhases)]
    BY DEF Init, Phases
  <1> QED
    BY <1>2, <1>3, <1>4, <1>5, <1>6, <1>7, AccountsType DEF Init, TypeOK

\* The steps that write the quota cache: loading, counting, releasing.
LEMMA TypeQuotaSteps ==
    ASSUME TypeOK
    PROVE  /\ \A a \in Accounts : AddOrUpdateQuotaInfo(a) => TypeOK'
           /\ \A a \in Accounts, t \in Tasks : LoadTask(a, t) => TypeOK'
           /\ \A t \in Tasks : DeleteQuota(t) => TypeOK'
           /\ WatchRelease => TypeOK'
           /\ AddQuota /\ sched.task # NoTask => TypeOK'
  <1>1. ASSUME NEW a \in Accounts, AddOrUpdateQuotaInfo(a) PROVE TypeOK'
    <2>1. IsQuotaInfo(NewQuotaInfo(deserved[a]))
      BY NewType DEF TypeOK
    <2>2. DOMAIN quotaInfos' = Accounts /\ \A b \in Accounts : IsQuotaInfo(quotaInfos'[b])
      BY <1>1, <2>1 DEF AddOrUpdateQuotaInfo, TypeOK
    <2>3. loading' \in [Accounts -> SUBSET Tasks]
      BY <1>1 DEF AddOrUpdateQuotaInfo, TypeOK, ListByUserAndStatuses, TasksOf
    <2> QED
      BY <1>1, <2>2, <2>3 DEF AddOrUpdateQuotaInfo, TypeOK
  <1>2. ASSUME NEW a \in Accounts, NEW t \in Tasks, LoadTask(a, t) PROVE TypeOK'
    <2>1. IsQuotaInfo(AddTask(quotaInfos[a], t))
      BY TaskType DEF TypeOK
    <2>2. DOMAIN quotaInfos' = Accounts /\ \A b \in Accounts : IsQuotaInfo(quotaInfos'[b])
      BY <1>2, <2>1 DEF LoadTask, TypeOK
    <2> QED
      BY <1>2, <2>2 DEF LoadTask, TypeOK
  <1>0. ASSUME NEW t \in Tasks, ReleaseQuota(t)
        PROVE  DOMAIN quotaInfos' = Accounts /\ \A b \in Accounts : IsQuotaInfo(quotaInfos'[b])
    <2>1. Owner[t] \in Accounts /\ IsQuotaInfo(DeleteTask(quotaInfos[Owner[t]], t))
      BY TaskType, OwnerType DEF TypeOK
    <2> QED
      BY <1>0, <2>1 DEF ReleaseQuota, TypeOK
  <1>3. ASSUME NEW t \in Tasks, DeleteQuota(t) PROVE TypeOK'
    <2>2. DOMAIN quotaInfos' = Accounts /\ \A b \in Accounts : IsQuotaInfo(quotaInfos'[b])
      BY <1>0, <1>3 DEF DeleteQuota
    <2>3. del' \in [Tasks -> [step : DeleteSteps, jobName : BOOLEAN]]
      BY <1>3 DEF DeleteQuota, TypeOK, DeleteSteps
    <2> QED
      BY <1>3, <2>2, <2>3 DEF DeleteQuota, TypeOK
  <1>4. ASSUME WatchRelease PROVE TypeOK'
    <2>1. watch \in Tasks
      BY <1>4 DEF WatchRelease, TypeOK
    <2>3. DOMAIN quotaInfos' = Accounts /\ \A b \in Accounts : IsQuotaInfo(quotaInfos'[b])
      BY <1>0, <1>4, <2>1 DEF WatchRelease
    <2> QED
      BY <1>4, <2>3 DEF WatchRelease, TypeOK
  <1>5. ASSUME AddQuota, sched.task # NoTask PROVE TypeOK'
    <2>1. sched.task \in Tasks
      BY <1>5 DEF TypeOK
    <2>2. Owner[sched.task] \in Accounts
          /\ IsQuotaInfo(AddTask(quotaInfos[Owner[sched.task]], sched.task))
      BY <2>1, TaskType, OwnerType DEF TypeOK
    <2>3. DOMAIN quotaInfos' = Accounts /\ \A b \in Accounts : IsQuotaInfo(quotaInfos'[b])
      BY <1>5, <2>2 DEF AddQuota, TypeOK
    <2>4. sched' \in [step : SchedSteps, candidates : SUBSET Tasks, task : Tasks \cup {NoTask}]
      BY <1>5 DEF AddQuota, TypeOK, SchedSteps
    <2> QED
      BY <1>5, <2>3, <2>4 DEF AddQuota, TypeOK
  <1> QED
    BY <1>1, <1>2, <1>3, <1>4, <1>5

\* Initialisation, crash and the handlers that only move rows and queues.
LEMMA TypeHandlerSteps ==
    ASSUME TypeOK
    PROVE  /\ \A a \in Accounts : InitUserQueue(a) => TypeOK'
           /\ Start => TypeOK'
           /\ Crash => TypeOK'
           /\ \A a \in Accounts : CreateAccount(a) => TypeOK'
           /\ \A a \in Accounts : UpdateAccountQuota(a) => TypeOK'
           /\ \A t \in Tasks : SubmitTask(t) => TypeOK'
           /\ \A t \in Tasks : NotifyCreate(t) => TypeOK'
           /\ \A t \in Tasks : DeleteBegin(t) => TypeOK'
           /\ \A t \in Tasks : DeleteJob(t) => TypeOK'
           /\ \A t \in Tasks : DeleteMark(t) => TypeOK'
  <1>1. ASSUME NEW a \in Accounts, InitUserQueue(a) PROVE TypeOK'
    <2>1. userQueues' \in [Accounts -> SUBSET Tasks] /\ hasQueue' \subseteq Accounts
      <3> DEFINE Q == {t \in ListByUserAndStatuses(a, QueueingStatuses) : Queueable(t)}
      <3>1. Q \in SUBSET Tasks
        BY DEF ListByUserAndStatuses, TasksOf
      <3>2. \/ hasQueue' = hasQueue \cup {a} /\ userQueues' = [userQueues EXCEPT ![a] = Q]
            \/ UNCHANGED <<hasQueue, userQueues>>
        BY <1>1 DEF InitUserQueue
      <3> HIDE DEF Q
      <3> QED
        BY <3>1, <3>2 DEF TypeOK
    <2> QED
      BY <1>1, <2>1 DEF InitUserQueue, TypeOK
  <1>2. ASSUME Start PROVE TypeOK'
    <2>1. events' \in [Tasks -> Seq(NotifiedPhases)]
      BY <1>2 DEF Start, ListedEvents, TypeOK
    <2> QED
      BY <1>2, <2>1 DEF Start, TypeOK
  <1>3. ASSUME Crash PROVE TypeOK'
    <2>1. DOMAIN quotaInfos' = Accounts /\ \A b \in Accounts : IsQuotaInfo(quotaInfos'[b])
      BY <1>3, NewType DEF Crash
    <2>2. /\ del' \in [Tasks -> [step : DeleteSteps, jobName : BOOLEAN]]
          /\ sched' \in [step : SchedSteps, candidates : SUBSET Tasks, task : Tasks \cup {NoTask}]
      BY <1>3 DEF Crash, IdleDelete, DeleteSteps, IdleSched, SchedSteps
    <2>3. events' \in [Tasks -> Seq(NotifiedPhases)]
      BY <1>3 DEF Crash
    <2> QED
      BY <1>3, <2>1, <2>2, <2>3 DEF Crash, TypeOK
  <1>4. ASSUME NEW a \in Accounts, CreateAccount(a) PROVE TypeOK'
    BY <1>4 DEF CreateAccount, TypeOK
  <1>5. ASSUME NEW a \in Accounts, UpdateAccountQuota(a) PROVE TypeOK'
    <2>1. PICK q \in QuotaChoices : deserved' = [deserved EXCEPT ![a] = q]
      BY <1>5 DEF UpdateAccountQuota
    <2>2. IsNatResourceList(q)
      BY QuotaType
    <2>3. DOMAIN deserved' = Accounts /\ \A b \in Accounts : IsNatResourceList(deserved'[b])
      BY <2>1, <2>2 DEF TypeOK
    <2> QED
      BY <1>5, <2>3 DEF UpdateAccountQuota, TypeOK
  <1>6. ASSUME NEW t \in Tasks, SubmitTask(t) PROVE TypeOK'
    <2>1. db' \in [Tasks -> Row]
      <3>1. "Queueing" \in TaskStatus
        BY DEF TaskStatus
      <3> QED
        BY <1>6, <3>1, RowType, UpdateType DEF SubmitTask, TypeOK
    <2> QED
      BY <1>6, <2>1 DEF SubmitTask, TypeOK
  <1>7. ASSUME NEW t \in Tasks, NotifyCreate(t) PROVE TypeOK'
    <2>1. userQueues' \in [Accounts -> SUBSET Tasks]
      BY <1>7, QueueType DEF NotifyCreate, TypeOK
    <2> QED
      BY <1>7, <2>1 DEF NotifyCreate, TypeOK
  <1>8. ASSUME NEW t \in Tasks, DeleteBegin(t) PROVE TypeOK'
    <2>1. userQueues' \in [Accounts -> SUBSET Tasks]
      BY <1>8, QueueType DEF DeleteBegin, TypeOK
    <2>2. del' \in [Tasks -> [step : DeleteSteps, jobName : BOOLEAN]]
      <3>1. db[t].jobName \in BOOLEAN
        BY DEF TypeOK, Row
      <3> QED
        <4>1. /\ [step |-> "quota", jobName |-> db[t].jobName] \in [step : DeleteSteps, jobName : BOOLEAN]
              /\ [step |-> "mark", jobName |-> FALSE] \in [step : DeleteSteps, jobName : BOOLEAN]
          BY <3>1 DEF DeleteSteps
        <4> QED
          <5>1. \/ del' = [del EXCEPT ![t] = [step |-> "quota", jobName |-> db[t].jobName]]
                \/ del' = [del EXCEPT ![t] = [step |-> "mark", jobName |-> FALSE]]
            BY <1>8 DEF DeleteBegin
          <5>2. del \in [Tasks -> [step : DeleteSteps, jobName : BOOLEAN]]
            BY DEF TypeOK
          <5> QED
            BY <4>1, <5>1, <5>2, UpdateType
    <2> QED
      BY <1>8, <2>1, <2>2 DEF DeleteBegin, TypeOK
  <1>9. ASSUME NEW t \in Tasks, DeleteJob(t) PROVE TypeOK'
    <2>1. del' \in [Tasks -> [step : DeleteSteps, jobName : BOOLEAN]]
      BY <1>9 DEF DeleteJob, DeleteSteps, TypeOK
    <2>2. aijobs' \in [Tasks -> Phases]
      BY <1>9 DEF DeleteJob, TypeOK, Phases
    <2> QED
      BY <1>9, <2>1, <2>2 DEF DeleteJob, TypeOK
  <1>10. ASSUME NEW t \in Tasks, DeleteMark(t) PROVE TypeOK'
    <2>1. db' \in [Tasks -> Row]
      <3>1. db' = [db EXCEPT ![t].isDeleted = TRUE] \/ db' = db
        BY <1>10 DEF DeleteMark
      <3>2. db \in [Tasks -> Row] /\ [db[t] EXCEPT !.isDeleted = TRUE] \in Row
        BY RowType DEF TypeOK
      <3> QED
        BY <3>1, <3>2, UpdateType
    <2>2. del' \in [Tasks -> [step : DeleteSteps, jobName : BOOLEAN]]
      BY <1>10 DEF DeleteMark, IdleDelete, DeleteSteps, TypeOK
    <2> QED
      BY <1>10, <2>1, <2>2 DEF DeleteMark, TypeOK
  <1> QED
    BY <1>1, <1>2, <1>3, <1>4, <1>5, <1>6, <1>7, <1>8, <1>9, <1>10

\* The cluster, the watcher's receive and the scheduler's other steps.
LEMMA TypeOtherSteps ==
    ASSUME TypeOK
    PROVE  /\ \A t \in Tasks : Cluster(t) => TypeOK'
           /\ \A t \in Tasks : WatchReceive(t) => TypeOK'
           /\ Collect \/ Pick => TypeOK'
           /\ (CreateJobFromTask \/ DequeueTask) /\ sched.task # NoTask => TypeOK'
           /\ (MarkFailed \/ MarkCreated \/ UpdateJobName) /\ sched.task # NoTask => TypeOK'
  <1> DEFINE SchedOK(x) ==
        x \in [step : SchedSteps, candidates : SUBSET Tasks, task : Tasks \cup {NoTask}]
  <1>0. \A rest \in SUBSET Tasks : SchedOK(NextCandidate(rest))
    BY DEF NextCandidate, IdleSched, SchedSteps
  <1>1. ASSUME NEW t \in Tasks, NEW from, NEW to \in NotifiedPhases, PhaseChange(t, from, to)
        PROVE  TypeOK'
    <2>1. aijobs' \in [Tasks -> Phases]
      BY <1>1 DEF PhaseChange, TypeOK, Phases
    <2>2. events' \in [Tasks -> Seq(NotifiedPhases)]
      BY <1>1 DEF PhaseChange, TypeOK
    <2> QED
      BY <1>1, <2>1, <2>2 DEF PhaseChange, TypeOK
  <1>2. ASSUME NEW t \in Tasks, Resync(t) PROVE TypeOK'
    <2>1. events' \in [Tasks -> Seq(NotifiedPhases)]
      BY <1>2 DEF Resync, TypeOK
    <2> QED
      BY <1>2, <2>1 DEF Resync, TypeOK
  <1>3. \A t \in Tasks : Cluster(t) => TypeOK'
    BY <1>1, <1>2 DEF Cluster, JobRuns, JobPreempted, JobEnds, NotifiedPhases, CompletedPhases
  <1>4. ASSUME NEW t \in Tasks, WatchReceive(t) PROVE TypeOK'
    <2>1. Head(events[t]) \in NotifiedPhases /\ Tail(events[t]) \in Seq(NotifiedPhases)
      BY <1>4 DEF WatchReceive, TypeOK
    <2>2. events' \in [Tasks -> Seq(NotifiedPhases)]
      BY <1>4, <2>1 DEF WatchReceive, TypeOK
    <2>3. Head(events[t]) \in TaskStatus
      BY <2>1 DEF NotifiedPhases, TaskStatus
    <2>4. db' \in [Tasks -> Row]
      <3>1. db' = [db EXCEPT ![t].status = Head(events[t])] \/ db' = db
        BY <1>4 DEF WatchReceive
      <3>2. db \in [Tasks -> Row] /\ [db[t] EXCEPT !.status = Head(events[t])] \in Row
        BY <2>3, RowType DEF TypeOK
      <3> QED
        BY <3>1, <3>2, UpdateType
    <2> QED
      BY <1>4, <2>2, <2>4 DEF WatchReceive, TypeOK
  <1>5. ASSUME Collect PROVE TypeOK'
    <2>1. PICK sel \in [hasQueue -> SUBSET Tasks] :
            sched' = [step |-> "pick",
                      candidates |-> UNION {sel[a] \cup BestEffort(a) : a \in hasQueue},
                      task |-> NoTask]
      BY <1>5 DEF Collect
    <2>2. SchedOK(sched')
      BY <2>1 DEF BestEffort, SchedSteps, TypeOK
    <2> QED
      BY <1>5, <2>2 DEF Collect, TypeOK
  <1>6. ASSUME Pick PROVE TypeOK'
    <2>1. SchedOK(sched')
      BY <1>6, <1>0 DEF Pick, SchedSteps, TypeOK
    <2> QED
      BY <1>6, <2>1 DEF Pick, TypeOK
  <1>7. ASSUME CreateJobFromTask, sched.task # NoTask PROVE TypeOK'
    <2>1. SchedOK(sched')
      BY <1>7 DEF CreateJobFromTask, SchedSteps, TypeOK
    <2>2. aijobs' \in [Tasks -> Phases]
      BY <1>7 DEF CreateJobFromTask, TypeOK, Phases
    <2>3. launched' \subseteq Tasks
      BY <1>7 DEF CreateJobFromTask, TypeOK
    <2> QED
      BY <1>7, <2>1, <2>2, <2>3 DEF CreateJobFromTask, TypeOK
  <1>8. ASSUME DequeueTask, sched.task # NoTask PROVE TypeOK'
    <2>1. SchedOK(sched')
      BY <1>8, <1>0 DEF DequeueTask, TypeOK
    <2>2. userQueues' \in [Accounts -> SUBSET Tasks]
      BY <1>8, QueueType DEF DequeueTask, TypeOK
    <2> QED
      BY <1>8, <2>1, <2>2 DEF DequeueTask, TypeOK
  <1>9. ASSUME NEW from, NEW to \in SchedSteps, NEW row,
               sched.task \in Tasks, row \in Row, SchedWrite(from, to, row)
        PROVE  TypeOK'
    <2>1. SchedOK(sched')
      BY <1>9, <1>0 DEF SchedWrite, TypeOK
    <2>2. db' \in [Tasks -> Row]
      BY <1>9, UpdateType DEF SchedWrite, TypeOK
    <2> QED
      BY <1>9, <2>1, <2>2 DEF SchedWrite, TypeOK
  <1>10. sched.task \in Tasks =>
           /\ [db[sched.task] EXCEPT !.status = "Failed"] \in Row
           /\ [db[sched.task] EXCEPT !.status = "Created"] \in Row
           /\ [db[sched.task] EXCEPT !.jobName = TRUE] \in Row
    <2>1. {"Failed", "Created"} \subseteq TaskStatus
      BY DEF TaskStatus
    <2> QED
      BY <2>1, RowType DEF TypeOK
  <1>11. {"dequeueFailed", "setJobName", "addQuota"} \subseteq SchedSteps
    BY DEF SchedSteps
  <1>12. (MarkFailed \/ MarkCreated \/ UpdateJobName) /\ sched.task \in Tasks => TypeOK'
    BY <1>9, <1>10, <1>11 DEF MarkFailed, MarkCreated, UpdateJobName
  <1>13. sched.task # NoTask => sched.task \in Tasks
    BY DEF TypeOK
  <1> QED
    BY <1>3, <1>4, <1>5, <1>6, <1>7, <1>8, <1>12, <1>13

-----------------------------------------------------------------------------
\* The steps of Next, with the loading of a quota entry named once.
LEMMA StepCases ==
    ASSUME Next
    PROVE  \/ Start \/ Crash
           \/ \E a \in Accounts : AddOrUpdateQuotaInfo(a)
           \/ \E a \in Accounts, t \in Tasks : LoadTask(a, t)
           \/ \E a \in Accounts : InitUserQueue(a)
           \/ \E a \in Accounts : CreateAccount(a) \/ UpdateAccountQuota(a)
           \/ \E t \in Tasks : SubmitTask(t)
           \/ \E t \in Tasks : NotifyCreate(t)
           \/ \E t \in Tasks : DeleteBegin(t)
           \/ \E t \in Tasks : DeleteQuota(t)
           \/ \E t \in Tasks : DeleteJob(t)
           \/ \E t \in Tasks : DeleteMark(t)
           \/ \E t \in Tasks : Cluster(t)
           \/ \E t \in Tasks : WatchReceive(t)
           \/ WatchRelease \/ Collect \/ Pick \/ CreateJobFromTask
           \/ MarkFailed \/ MarkCreated \/ UpdateJobName \/ AddQuota \/ DequeueTask
  BY DEF Next, Boot, Load, Watch, Schedule, Handle, InitQuotaInfo, GetQuotaInfo

\* The cluster touches AIJobs that exist, and they go on existing.
LEMMA ClusterSteps ==
    ASSUME TypeOK, NEW t \in Tasks, Cluster(t)
    PROVE  /\ UNCHANGED <<DBVars, BootVars, userQueues, quotaInfos, submit, del, sched,
                          watch, launched>>
           /\ \A u \in Tasks : aijobs'[u] = "None" <=> aijobs[u] = "None"
  <1>1. ASSUME NEW from, "None" \notin from, NEW to, to # "None", PhaseChange(t, from, to)
        PROVE  /\ UNCHANGED <<DBVars, BootVars, userQueues, quotaInfos, submit, del, sched,
                              watch, launched>>
               /\ \A u \in Tasks : aijobs'[u] = "None" <=> aijobs[u] = "None"
    BY <1>1 DEF PhaseChange, TypeOK
  <1>2. CASE JobRuns(t) \/ JobPreempted(t) \/ JobEnds(t)
    BY <1>1, <1>2 DEF JobRuns, JobPreempted, JobEnds, CompletedPhases
  <1>3. CASE Resync(t)
    BY <1>3 DEF Resync
  <1> QED
    BY <1>2, <1>3 DEF Cluster

\* While the scheduler works on a task, it is a task.
LEMMA SchedTask ==
    ASSUME TypeOK, SchedulerShape, sched.step \notin {"idle", "pick"}
    PROVE  /\ sched.task \in Tasks /\ sched.task # NoTask
           /\ Owner[sched.task] \in Accounts /\ Owner[sched.task] \in hasQueue
  <1>1. sched.task \in Tasks /\ sched.task # NoTask
    BY DEF TypeOK, SchedulerShape
  <1> QED
    BY <1>1, OwnerType DEF SchedulerShape

\* Every step keeps the types.
LEMMA TypeStep ==
    ASSUME TypeOK, SchedulerShape, Next
    PROVE  TypeOK'
  <1>1. CreateJobFromTask \/ DequeueTask \/ MarkFailed \/ MarkCreated \/ UpdateJobName \/ AddQuota
          => sched.task # NoTask
    BY SchedTask DEF CreateJobFromTask, DequeueTask, MarkFailed, MarkCreated, UpdateJobName,
                     SchedWrite, AddQuota
  <1> QED
    BY <1>1, StepCases, TypeQuotaSteps, TypeHandlerSteps, TypeOtherSteps

-----------------------------------------------------------------------------
\* An account with a queue keeps its loaded entry, and a queue holds tasks of
\* its account only.
LEMMA QueuesLoadedStep ==
    ASSUME TypeOK, QueuesLoaded, SchedulerShape, Next
    PROVE  QueuesLoaded'
  <1>0. CASE UNCHANGED <<hasQueue, quotaInfos, loading, userQueues>>
    BY <1>0 DEF QueuesLoaded, QuotaReady
  <1>1. ASSUME NEW a \in Accounts, AddOrUpdateQuotaInfo(a) PROVE QueuesLoaded'
    <2>1. a \notin hasQueue /\ hasQueue' = hasQueue /\ userQueues' = userQueues
      BY <1>1 DEF AddOrUpdateQuotaInfo, QueuesLoaded, QuotaReady
    <2>2. \A b \in hasQueue : quotaInfos'[b] = quotaInfos[b] /\ loading'[b] = loading[b]
      BY <1>1, <2>1 DEF AddOrUpdateQuotaInfo, TypeOK
    <2> QED
      BY <2>1, <2>2 DEF QueuesLoaded, QuotaReady
  <1>2. ASSUME NEW a \in Accounts, NEW t \in Tasks, LoadTask(a, t) PROVE QueuesLoaded'
    <2>1. a \notin hasQueue /\ hasQueue' = hasQueue /\ userQueues' = userQueues
      BY <1>2 DEF LoadTask, QueuesLoaded, QuotaReady
    <2>2. \A b \in hasQueue : quotaInfos'[b] = quotaInfos[b] /\ loading'[b] = loading[b]
      BY <1>2, <2>1 DEF LoadTask, TypeOK
    <2> QED
      BY <2>1, <2>2 DEF QueuesLoaded, QuotaReady
  <1>3. ASSUME NEW a \in Accounts, InitUserQueue(a) PROVE QueuesLoaded'
    <2>1. \A b \in hasQueue' : QuotaReady(b)'
      BY <1>3 DEF InitUserQueue, QueuesLoaded, QuotaReady
    <2>2. \A b \in Accounts : \A t \in userQueues'[b] : Owner[t] = b
      <3> DEFINE Q == {t \in ListByUserAndStatuses(a, QueueingStatuses) : Queueable(t)}
      <3>1. \A t \in Q : Owner[t] = a
        BY DEF ListByUserAndStatuses, TasksOf
      <3>2. userQueues' = [userQueues EXCEPT ![a] = Q] \/ userQueues' = userQueues
        BY <1>3 DEF InitUserQueue
      <3> HIDE DEF Q
      <3> QED
        BY <3>1, <3>2 DEF QueuesLoaded, TypeOK
    <2> QED
      BY <2>1, <2>2 DEF QueuesLoaded
  <1>4. ASSUME Crash PROVE QueuesLoaded'
    BY <1>4 DEF Crash, QueuesLoaded
  <1>5. ASSUME NEW t \in Tasks, userQueues' \in {userQueues, Enqueue(t), Dequeue(t)},
               UNCHANGED <<hasQueue, quotaInfos, loading>>
        PROVE  QueuesLoaded'
    <2>1. \A b \in hasQueue' : QuotaReady(b)'
      BY <1>5 DEF QueuesLoaded, QuotaReady
    <2>2. \A b \in Accounts : userQueues'[b] \subseteq userQueues[b] \cup {u \in {t} : Owner[u] = b}
      <3>1. Owner[t] \in Accounts
        BY OwnerType
      <3>2. \/ userQueues' = userQueues
            \/ userQueues' = [userQueues EXCEPT ![Owner[t]] = @ \cup {t}]
            \/ userQueues' = [userQueues EXCEPT ![Owner[t]] = @ \ {t}]
        BY <1>5 DEF Enqueue, Dequeue
      <3> QED
        BY <3>1, <3>2 DEF TypeOK
    <2>3. \A b \in Accounts : \A u \in userQueues'[b] : Owner[u] = b
      BY <2>2 DEF QueuesLoaded
    <2> QED
      BY <2>1, <2>3 DEF QueuesLoaded
  <1>6. ASSUME NEW b \in Accounts, NEW info, info.loaded = quotaInfos[b].loaded,
               quotaInfos' = [quotaInfos EXCEPT ![b] = info],
               UNCHANGED <<hasQueue, userQueues, loading>>
        PROVE  QueuesLoaded'
    BY <1>6 DEF QueuesLoaded, QuotaReady, TypeOK
  <1>7. \A b \in Accounts, t \in Tasks :
          /\ AddTask(quotaInfos[b], t).loaded = quotaInfos[b].loaded
          /\ DeleteTask(quotaInfos[b], t).loaded = quotaInfos[b].loaded
    BY DEF AddTask, DeleteTask, TypeOK, IsQuotaInfo
  <1>8. ASSUME NEW t \in Tasks, DeleteQuota(t) PROVE QueuesLoaded'
    BY <1>0, <1>6, <1>7, <1>8, OwnerType DEF DeleteQuota, ReleaseQuota
  <1>9. ASSUME WatchRelease PROVE QueuesLoaded'
    <2>1. watch \in Tasks
      BY <1>9 DEF WatchRelease, TypeOK
    <2> QED
      BY <1>0, <1>6, <1>7, <1>9, <2>1, OwnerType DEF WatchRelease, ReleaseQuota
  <1>10. ASSUME AddQuota PROVE QueuesLoaded'
    <2>1. sched.task \in Tasks /\ Owner[sched.task] \in Accounts
      BY <1>10, SchedTask DEF AddQuota
    <2> QED
      BY <1>6, <1>7, <1>10, <2>1 DEF AddQuota
  <1>11. ASSUME NEW t \in Tasks, NotifyCreate(t) \/ DeleteBegin(t) PROVE QueuesLoaded'
    BY <1>5, <1>11 DEF NotifyCreate, DeleteBegin
  <1>12. ASSUME DequeueTask PROVE QueuesLoaded'
    BY <1>5, <1>12, SchedTask DEF DequeueTask
  <1>13. ASSUME Start \/ Collect \/ Pick \/ CreateJobFromTask \/ MarkFailed \/ MarkCreated
                \/ UpdateJobName \/ \E a \in Accounts : CreateAccount(a) \/ UpdateAccountQuota(a)
         PROVE  QueuesLoaded'
    BY <1>0, <1>13 DEF Start, Collect, Pick, CreateJobFromTask, MarkFailed, MarkCreated,
                       UpdateJobName, SchedWrite, CreateAccount, UpdateAccountQuota
  <1>14. ASSUME NEW t \in Tasks,
                SubmitTask(t) \/ DeleteJob(t) \/ DeleteMark(t) \/ Cluster(t) \/ WatchReceive(t)
         PROVE  QueuesLoaded'
    BY <1>0, <1>14, ClusterSteps DEF SubmitTask, DeleteJob, DeleteMark, WatchReceive
  <1> QED
    BY StepCases, <1>1, <1>2, <1>3, <1>4, <1>8, <1>9, <1>10, <1>11, <1>12, <1>13, <1>14

-----------------------------------------------------------------------------
\* The scheduler's own shape: one task at a time, of an account with a queue.
LEMMA SchedulerShapeStep ==
    ASSUME TypeOK, QueuesLoaded, SchedulerShape, Next
    PROVE  SchedulerShape'
  <1>0. ASSUME sched' = sched, hasQueue \subseteq hasQueue', submit' \subseteq submit, up' = up
        PROVE  SchedulerShape'
    BY <1>0 DEF SchedulerShape
  <1>1. NoTask \notin Tasks
    BY TasksAreNumbers DEF NoTask
  <1>2. ASSUME up, up' = up, hasQueue' = hasQueue, sched.step # "idle",
               NEW rest \in SUBSET sched.candidates, sched' = NextCandidate(rest)
        PROVE  SchedulerShape'
    BY <1>1, <1>2 DEF SchedulerShape, NextCandidate, IdleSched, TypeOK
  <1>3. ASSUME up, up' = up, hasQueue' = hasQueue, sched.step \notin {"idle", "pick"},
               NEW to \in SchedSteps \ {"idle", "pick"}, sched' = [sched EXCEPT !.step = to]
        PROVE  SchedulerShape'
    BY <1>3 DEF SchedulerShape, TypeOK
  <1>4. sched.step # "idle" => up
    BY DEF SchedulerShape, IdleSched
  <1>5. ASSUME Start PROVE SchedulerShape'
    BY <1>5 DEF Start, SchedulerShape
  <1>6. ASSUME Crash PROVE SchedulerShape'
    BY <1>6 DEF Crash, SchedulerShape, IdleSched
  <1>7. ASSUME NEW t \in Tasks, SubmitTask(t) PROVE SchedulerShape'
    BY <1>7 DEF SubmitTask, SchedulerShape
  <1>8. ASSUME Collect PROVE SchedulerShape'
    <2>1. PICK sel \in [hasQueue -> SUBSET Tasks] :
            /\ \A a \in hasQueue : sel[a] \in Selections(a)
            /\ sched' = [step |-> "pick",
                         candidates |-> UNION {sel[a] \cup BestEffort(a) : a \in hasQueue},
                         task |-> NoTask]
      BY <1>8 DEF Collect
    <2>2. \A a \in hasQueue : sel[a] \subseteq userQueues[a]
      BY <2>1 DEF Selections
    <2>3. \A a \in hasQueue : BestEffort(a) \subseteq userQueues[a]
      BY DEF BestEffort
    <2>4. \A t \in sched'.candidates : t \in Tasks /\ Owner[t] \in hasQueue
      BY <2>1, <2>2, <2>3 DEF QueuesLoaded, TypeOK
    <2>5. up /\ up' /\ hasQueue' = hasQueue
      BY <1>8 DEF Collect
    <2>6. sched'.step = "pick" /\ sched'.task = NoTask
      BY <2>1
    <2> QED
      BY <1>1, <2>4, <2>5, <2>6 DEF SchedulerShape
  <1>9. ASSUME Pick PROVE SchedulerShape'
    <2>1. PICK t \in sched.candidates :
            \/ sched' = [step |-> "create", candidates |-> sched.candidates \ {t}, task |-> t]
            \/ sched' = NextCandidate(sched.candidates \ {t})
      BY <1>9 DEF Pick
    <2>2. sched.step = "pick" /\ up /\ up' = up /\ hasQueue' = hasQueue
      BY <1>4, <1>9 DEF Pick
    <2>3. CASE sched' = NextCandidate(sched.candidates \ {t})
      BY <1>2, <2>2, <2>3
    <2>4. CASE sched' = [step |-> "create", candidates |-> sched.candidates \ {t}, task |-> t]
      BY <1>1, <2>2, <2>4 DEF SchedulerShape, TypeOK
    <2> QED
      BY <2>1, <2>3, <2>4
  <1>10. ASSUME CreateJobFromTask \/ MarkFailed \/ MarkCreated \/ UpdateJobName \/ AddQuota
                \/ DequeueTask
         PROVE  SchedulerShape'
    <2>1. /\ sched.step \notin {"idle", "pick"} /\ up' = up /\ hasQueue' = hasQueue
          /\ \/ \E to \in SchedSteps \ {"idle", "pick"} : sched' = [sched EXCEPT !.step = to]
             \/ sched' = NextCandidate(sched.candidates)
      BY <1>10 DEF CreateJobFromTask, MarkFailed, MarkCreated, UpdateJobName, SchedWrite,
                   AddQuota, DequeueTask, SchedSteps
    <2> QED
      BY <1>2, <1>3, <1>4, <2>1
  <1>11. ASSUME NEW t \in Tasks,
                NotifyCreate(t) \/ DeleteBegin(t) \/ DeleteQuota(t) \/ DeleteJob(t)
                \/ DeleteMark(t) \/ Cluster(t) \/ WatchReceive(t)
         PROVE  SchedulerShape'
    BY <1>0, <1>11, ClusterSteps DEF NotifyCreate, DeleteBegin, DeleteQuota, DeleteJob,
             DeleteMark, WatchReceive
  <1>12. ASSUME WatchRelease \/ \E a \in Accounts, t \in Tasks : LoadTask(a, t)
         PROVE  SchedulerShape'
    BY <1>0, <1>12 DEF WatchRelease, LoadTask
  <1>13. ASSUME NEW a \in Accounts,
                AddOrUpdateQuotaInfo(a) \/ InitUserQueue(a) \/ CreateAccount(a) \/ UpdateAccountQuota(a)
         PROVE  SchedulerShape'
    BY <1>0, <1>13 DEF AddOrUpdateQuotaInfo, InitUserQueue, CreateAccount, UpdateAccountQuota
  <1> QED
    BY StepCases, <1>5, <1>6, <1>7, <1>8, <1>9, <1>10, <1>11, <1>12, <1>13

-----------------------------------------------------------------------------
\* The quota check of admitTask stays true until the task is counted: the
\* only other writers of the entry release quota.
LEMMA CheckStillHoldsStep ==
    ASSUME TypeOK, QueuesLoaded, SchedulerShape, CheckStillHolds, Next
    PROVE  CheckStillHolds'
  <1>0. CASE UNCHANGED <<sched, quotaInfos>>
    BY <1>0 DEF CheckStillHolds, Admitting
  <1>1. Admitting => /\ sched.task \in Tasks
                     /\ Owner[sched.task] \in Accounts
                     /\ QuotaReady(Owner[sched.task])
    BY SchedTask DEF Admitting, QueuesLoaded
  <1>2. ASSUME NEW a \in Accounts, ~QuotaReady(a), NEW info,
               quotaInfos' = [quotaInfos EXCEPT ![a] = info], sched' = sched
        PROVE  CheckStillHolds'
    <2>1. Admitting => quotaInfos'[Owner[sched.task]] = quotaInfos[Owner[sched.task]]
      BY <1>1, <1>2 DEF TypeOK
    <2> QED
      BY <1>2, <2>1 DEF CheckStillHolds, Admitting
  <1>3. ASSUME NEW t \in Tasks, sched' = sched,
               quotaInfos' = [quotaInfos EXCEPT ![Owner[t]] = DeleteTask(@, t)]
        PROVE  CheckStillHolds'
    <2> SUFFICES ASSUME Admitting
                 PROVE  ~CheckHardQuotaExceed(quotaInfos'[Owner[sched.task]], sched.task)
      BY <1>3 DEF CheckStillHolds, Admitting
    <2>1. Owner[t] \in Accounts /\ IsQuotaInfo(quotaInfos[Owner[t]])
      BY OwnerType DEF TypeOK
    <2>2. ~CheckHardQuotaExceed(quotaInfos[Owner[sched.task]], sched.task)
      BY DEF CheckStillHolds
    <2>3. CASE Owner[t] = Owner[sched.task]
      <3>1. ~CheckHardQuotaExceed(DeleteTask(quotaInfos[Owner[t]], t), sched.task)
        BY <1>1, <2>1, <2>2, <2>3, ReleaseStillFits
      <3> QED
        BY <1>3, <2>1, <2>3, <3>1 DEF TypeOK
    <2>4. CASE Owner[t] # Owner[sched.task]
      BY <1>1, <1>3, <2>1, <2>2, <2>4 DEF TypeOK
    <2> QED
      BY <2>3, <2>4
  <1>4. ASSUME NEW rest, sched' = NextCandidate(rest) PROVE CheckStillHolds'
    BY <1>4 DEF CheckStillHolds, Admitting, NextCandidate, IdleSched
  <1>5. ASSUME sched' = [sched EXCEPT !.step = sched'.step], quotaInfos' = quotaInfos,
               Admitting' => Admitting
        PROVE  CheckStillHolds'
    <2>1. sched'.task = sched.task
      BY <1>5 DEF TypeOK
    <2> QED
      BY <1>5, <2>1 DEF CheckStillHolds
  <1>6. ASSUME NEW a \in Accounts, AddOrUpdateQuotaInfo(a) PROVE CheckStillHolds'
    BY <1>2, <1>6 DEF AddOrUpdateQuotaInfo, QuotaReady
  <1>7. ASSUME NEW a \in Accounts, NEW t \in Tasks, LoadTask(a, t) PROVE CheckStillHolds'
    BY <1>2, <1>7 DEF LoadTask, QuotaReady
  <1>8. ASSUME NEW t \in Tasks, DeleteQuota(t) PROVE CheckStillHolds'
    BY <1>0, <1>3, <1>8 DEF DeleteQuota, ReleaseQuota
  <1>9. ASSUME WatchRelease PROVE CheckStillHolds'
    <2>1. watch \in Tasks
      BY <1>9 DEF WatchRelease, TypeOK
    <2> QED
      BY <1>0, <1>3, <1>9, <2>1 DEF WatchRelease, ReleaseQuota
  <1>10. ASSUME Crash \/ Collect PROVE CheckStillHolds'
    BY <1>10 DEF Crash, Collect, CheckStillHolds, Admitting, IdleSched
  <1>11. ASSUME Pick PROVE CheckStillHolds'
    <2>1. PICK t \in sched.candidates :
            \/ /\ ~CheckHardQuotaExceed(quotaInfos[Owner[t]], t)
               /\ sched' = [step |-> "create", candidates |-> sched.candidates \ {t}, task |-> t]
            \/ sched' = NextCandidate(sched.candidates \ {t})
      BY <1>11 DEF Pick
    <2>2. quotaInfos' = quotaInfos
      BY <1>11 DEF Pick
    <2> QED
      BY <1>4, <2>1, <2>2 DEF CheckStillHolds
  <1>12. ASSUME CreateJobFromTask PROVE CheckStillHolds'
    <2>1. sched.step = "create" /\ quotaInfos' = quotaInfos
          /\ \E to \in {"markCreated", "markFailed"} : sched' = [sched EXCEPT !.step = to]
      BY <1>12 DEF CreateJobFromTask
    <2> QED
      BY <1>5, <2>1 DEF Admitting, TypeOK
  <1>13. ASSUME MarkFailed \/ MarkCreated \/ UpdateJobName PROVE CheckStillHolds'
    <2>1. /\ quotaInfos' = quotaInfos
          /\ \/ sched' = NextCandidate(sched.candidates)
             \/ sched.step = "markFailed" /\ sched' = [sched EXCEPT !.step = "dequeueFailed"]
             \/ sched.step = "markCreated" /\ sched' = [sched EXCEPT !.step = "setJobName"]
             \/ sched.step = "setJobName" /\ sched' = [sched EXCEPT !.step = "addQuota"]
      BY <1>13 DEF MarkFailed, MarkCreated, UpdateJobName, SchedWrite
    <2> QED
      BY <1>4, <1>5, <2>1 DEF Admitting, TypeOK
  <1>14. ASSUME AddQuota \/ DequeueTask PROVE CheckStillHolds'
    BY <1>4, <1>14 DEF AddQuota, DequeueTask, CheckStillHolds, Admitting, TypeOK
  <1>15. ASSUME Start \/ \E a \in Accounts : InitUserQueue(a) \/ CreateAccount(a) \/ UpdateAccountQuota(a)
         PROVE  CheckStillHolds'
    BY <1>0, <1>15 DEF Start, InitUserQueue, CreateAccount, UpdateAccountQuota
  <1>16. ASSUME NEW t \in Tasks,
                SubmitTask(t) \/ NotifyCreate(t) \/ DeleteBegin(t) \/ DeleteJob(t) \/ DeleteMark(t)
                \/ Cluster(t) \/ WatchReceive(t)
         PROVE  CheckStillHolds'
    BY <1>0, <1>16, ClusterSteps DEF SubmitTask, NotifyCreate, DeleteBegin, DeleteJob,
             DeleteMark, WatchReceive
  <1> QED
    BY StepCases, <1>6, <1>7, <1>8, <1>9, <1>10, <1>11, <1>12, <1>13, <1>14, <1>15, <1>16

-----------------------------------------------------------------------------
\* What a step may do to the rows: none disappears or goes back to Queueing,
\* and only UpdateJobName, as the last of the scheduler's writes, names a job.
LEMMA RowSteps ==
    ASSUME TypeOK, SchedulerShape, Next, NEW u \in Tasks
    PROVE  /\ db'[u].status = "None" => db[u].status = "None"
           /\ db[u].status \notin {"None", "Queueing"} => db'[u].status \notin {"None", "Queueing"}
           /\ db'[u].jobName = db[u].jobName
              \/ /\ UpdateJobName /\ u = sched.task /\ db'[u].status = db[u].status
                 /\ db'[u].jobName /\ sched' = [sched EXCEPT !.step = "addQuota"]
  <1> DEFINE Goal ==
        /\ db'[u].status = "None" => db[u].status = "None"
        /\ db[u].status \notin {"None", "Queueing"} => db'[u].status \notin {"None", "Queueing"}
        /\ db'[u].jobName = db[u].jobName
           \/ /\ UpdateJobName /\ u = sched.task /\ db'[u].status = db[u].status
              /\ db'[u].jobName /\ sched' = [sched EXCEPT !.step = "addQuota"]
  <1> SUFFICES Goal
    OBVIOUS
  <1>0. CASE db' = db
    BY <1>0
  <1>1. ASSUME NEW t \in Tasks, NEW s, s # "None", s # "Queueing" \/ db[t].status = "None",
               db' = [db EXCEPT ![t].status = s]
        PROVE  Goal
    BY <1>1 DEF TypeOK, Row
  <1>2. ASSUME NEW t \in Tasks, SubmitTask(t) PROVE Goal
    BY <1>1, <1>2 DEF SubmitTask
  <1>3. ASSUME NEW t \in Tasks, DeleteMark(t) PROVE Goal
    <2>1. db' = [db EXCEPT ![t].isDeleted = TRUE] \/ db' = db
      BY <1>3 DEF DeleteMark
    <2> QED
      <3>1. CASE db' = [db EXCEPT ![t].isDeleted = TRUE]
        <4>1. db'[u].status = db[u].status
          BY <3>1 DEF TypeOK, Row
        <4>2. db'[u].jobName = db[u].jobName
          BY <3>1 DEF TypeOK, Row
        <4> QED
          BY <4>1, <4>2
      <3> QED
        BY <1>0, <2>1, <3>1
  <1>4. ASSUME NEW t \in Tasks, WatchReceive(t) PROVE Goal
    <2>1. Head(events[t]) \in NotifiedPhases
      BY <1>4 DEF WatchReceive, TypeOK
    <2>2. Head(events[t]) # "None" /\ Head(events[t]) # "Queueing"
      BY <2>1 DEF NotifiedPhases
    <2>3. db' = [db EXCEPT ![t].status = Head(events[t])] \/ db' = db
      BY <1>4 DEF WatchReceive
    <2> QED
      BY <1>0, <1>1, <2>2, <2>3
  <1>5. ASSUME MarkFailed \/ MarkCreated PROVE Goal
    <2>1. sched.task \in Tasks
      BY <1>5, SchedTask DEF MarkFailed, MarkCreated, SchedWrite
    <2>2. db' = db \/ \E s \in {"Failed", "Created"} : db' = [db EXCEPT ![sched.task].status = s]
      BY <1>5 DEF MarkFailed, MarkCreated, SchedWrite
    <2> QED
      BY <1>0, <1>1, <2>1, <2>2
  <1>6. ASSUME UpdateJobName PROVE Goal
    <2>1. sched.task \in Tasks
      BY <1>6, SchedTask DEF UpdateJobName, SchedWrite
    <2>2. db' = db \/ /\ db' = [db EXCEPT ![sched.task].jobName = TRUE]
                      /\ sched' = [sched EXCEPT !.step = "addQuota"]
      BY <1>6 DEF UpdateJobName, SchedWrite
    <2>3. CASE db' = [db EXCEPT ![sched.task].jobName = TRUE]
      <3>1. CASE u = sched.task
        <4>1. db'[u].jobName /\ db'[u].status = db[u].status
          BY <2>1, <2>3, <3>1 DEF TypeOK, Row
        <4> QED
          BY <1>6, <2>2, <3>1, <4>1, <1>0
      <3>2. CASE u # sched.task
        BY <2>1, <2>3, <3>2 DEF TypeOK
      <3> QED
        BY <3>1, <3>2
    <2> QED
      BY <1>0, <2>2, <2>3
  <1>7. ASSUME NEW t \in Tasks,
               NotifyCreate(t) \/ DeleteBegin(t) \/ DeleteQuota(t) \/ DeleteJob(t) \/ Cluster(t)
        PROVE  Goal
    <2>1. db' = db
      BY <1>7, ClusterSteps DEF NotifyCreate, DeleteBegin, DeleteQuota, DeleteJob
    <2> QED
      BY <1>0, <2>1
  <1>8. ASSUME Start \/ Crash \/ WatchRelease \/ Collect \/ Pick \/ CreateJobFromTask \/ AddQuota
               \/ DequeueTask
        PROVE  Goal
    <2>1. db' = db
      BY <1>8 DEF Start, Crash, WatchRelease, Collect, Pick, CreateJobFromTask, AddQuota, DequeueTask
    <2> QED
      BY <1>0, <2>1
  <1>9. ASSUME NEW a \in Accounts,
               AddOrUpdateQuotaInfo(a) \/ InitUserQueue(a) \/ CreateAccount(a) \/ UpdateAccountQuota(a)
               \/ \E t \in Tasks : LoadTask(a, t)
        PROVE  Goal
    <2>1. db' = db
      BY <1>9 DEF AddOrUpdateQuotaInfo, InitUserQueue, CreateAccount, UpdateAccountQuota, LoadTask
    <2> QED
      BY <1>0, <2>1
  <1> HIDE DEF Goal
  <1> QED
    BY StepCases, <1>2, <1>3, <1>4, <1>5, <1>6, <1>7, <1>8, <1>9

\* A task comes within the scheduler's reach by the notification of its
\* submit handler, or as a Queueing row that Init finds.
LEMMA ReachSteps ==
    ASSUME TypeOK, QueuesLoaded, SchedulerShape, Next, NEW u \in Tasks, Reachable(u)'
    PROVE  \/ Reachable(u)
           \/ u \in submit /\ u \notin submit'
           \/ submit = {} /\ db' = db /\ db[u].status = "Queueing" /\ submit' = submit
  <1> DEFINE Goal == \/ Reachable(u)
                     \/ u \in submit /\ u \notin submit'
                     \/ submit = {} /\ db' = db /\ db[u].status = "Queueing" /\ submit' = submit
  <1> SUFFICES Goal
    OBVIOUS
  <1>0. Owner[u] \in Accounts /\ u # NoTask
    BY OwnerType, TasksAreNumbers DEF NoTask
  <1>1. ASSUME userQueues'[Owner[u]] \subseteq userQueues[Owner[u]],
               \/ sched'.candidates \subseteq sched.candidates
               \/ u \in sched'.candidates => u \in userQueues[Owner[u]],
               sched'.task \in {sched.task, NoTask} \cup sched.candidates
        PROVE  Goal
    BY <1>0, <1>1 DEF Reachable
  <1>2. \A t \in Tasks : Dequeue(t)[Owner[u]] \subseteq userQueues[Owner[u]]
    BY <1>0, OwnerType DEF Dequeue, TypeOK
  <1>3. \A rest \in SUBSET sched.candidates :
          NextCandidate(rest).candidates \subseteq sched.candidates /\ NextCandidate(rest).task = NoTask
    BY DEF NextCandidate, IdleSched
  <1>4. ASSUME NEW a \in Accounts, InitUserQueue(a) PROVE Goal
    <2>1. submit = {} /\ submit' = submit /\ db' = db /\ sched' = sched
      BY <1>4 DEF InitUserQueue, SchedulerShape
    <2>2. CASE u \in userQueues'[Owner[u]] \ userQueues[Owner[u]]
      <3>1. u \in ListByUserAndStatuses(a, QueueingStatuses)
        <4> DEFINE Q == {t \in ListByUserAndStatuses(a, QueueingStatuses) : Queueable(t)}
        <4>1. userQueues' = [userQueues EXCEPT ![a] = Q] \/ userQueues' = userQueues
          BY <1>4 DEF InitUserQueue
        <4> HIDE DEF Q
        <4>2. u \in Q
          BY <1>0, <2>2, <4>1 DEF TypeOK
        <4> QED
          BY <4>2 DEF Q
      <3> QED
        BY <2>1, <3>1 DEF ListByUserAndStatuses, TasksOf, QueueingStatuses
    <2> QED
      BY <2>1, <2>2 DEF Reachable
  <1>5. ASSUME NEW t \in Tasks, NotifyCreate(t) PROVE Goal
    <2>1. sched' = sched /\ t \in submit /\ t \notin submit'
      BY <1>5 DEF NotifyCreate
    <2>2. u # t => userQueues'[Owner[u]] \subseteq userQueues[Owner[u]] \cup {t}
      BY <1>0, <1>5, OwnerType DEF NotifyCreate, Enqueue, TypeOK
    <2> QED
      BY <2>1, <2>2 DEF Reachable
  <1>6. ASSUME NEW t \in Tasks, DeleteBegin(t) PROVE Goal
    <2>1. sched' = sched /\ (userQueues' = userQueues \/ userQueues' = Dequeue(t))
      BY <1>6 DEF DeleteBegin
    <2> QED
      BY <1>1, <1>2, <2>1
  <1>7. ASSUME Crash PROVE Goal
    <2>1. userQueues'[Owner[u]] = {} /\ sched'.candidates = {} /\ sched'.task = NoTask
      BY <1>0, <1>7 DEF Crash, IdleSched
    <2> QED
      BY <1>1, <2>1
  <1>8. ASSUME Collect PROVE Goal
    <2>1. PICK sel \in [hasQueue -> SUBSET Tasks] :
            /\ \A a \in hasQueue : sel[a] \in Selections(a)
            /\ sched' = [step |-> "pick",
                         candidates |-> UNION {sel[a] \cup BestEffort(a) : a \in hasQueue},
                         task |-> NoTask]
      BY <1>8 DEF Collect
    <2>2. \A a \in hasQueue : sel[a] \subseteq userQueues[a] /\ BestEffort(a) \subseteq userQueues[a]
      BY <2>1 DEF Selections, BestEffort
    <2>3. u \in sched'.candidates => \E a \in hasQueue : u \in userQueues[a]
      BY <2>1, <2>2
    <2>4. u \in sched'.candidates => u \in userQueues[Owner[u]]
      BY <2>3 DEF QueuesLoaded, TypeOK
    <2>5. sched'.task = NoTask /\ userQueues' = userQueues
      BY <1>8, <2>1 DEF Collect
    <2> QED
      BY <1>1, <2>4, <2>5
  <1>9. ASSUME Pick PROVE Goal
    <2>1. PICK t \in sched.candidates :
            \/ sched' = [step |-> "create", candidates |-> sched.candidates \ {t}, task |-> t]
            \/ sched' = NextCandidate(sched.candidates \ {t})
      BY <1>9 DEF Pick
    <2>2. sched'.candidates \subseteq sched.candidates
          /\ sched'.task \in {sched.task, NoTask} \cup sched.candidates
      BY <1>3, <2>1
    <2>3. userQueues' = userQueues
      BY <1>9 DEF Pick
    <2> QED
      BY <1>1, <2>2, <2>3
  <1>10. ASSUME CreateJobFromTask \/ MarkFailed \/ MarkCreated \/ UpdateJobName \/ AddQuota
         PROVE  Goal
    <2>1. /\ userQueues' = userQueues
          /\ (\E to \in SchedSteps : sched' = [sched EXCEPT !.step = to])
             \/ sched' = NextCandidate(sched.candidates)
      BY <1>10 DEF CreateJobFromTask, MarkFailed, MarkCreated, UpdateJobName, SchedWrite, AddQuota,
                   SchedSteps
    <2>2. sched'.candidates \subseteq sched.candidates
          /\ sched'.task \in {sched.task, NoTask} \cup sched.candidates
      BY <1>3, <2>1 DEF TypeOK
    <2> QED
      BY <1>1, <2>1, <2>2
  <1>11. ASSUME DequeueTask PROVE Goal
    <2>1. /\ userQueues'[Owner[u]] \subseteq userQueues[Owner[u]]
          /\ sched' = NextCandidate(sched.candidates)
      BY <1>2, <1>11, SchedTask DEF DequeueTask
    <2> QED
      BY <1>1, <1>3, <2>1
  <1>12. ASSUME UNCHANGED <<userQueues, sched>> PROVE Goal
    BY <1>1, <1>12
  <1>13. ASSUME NEW t \in Tasks,
                SubmitTask(t) \/ DeleteQuota(t) \/ DeleteJob(t) \/ DeleteMark(t) \/ Cluster(t)
                \/ WatchReceive(t)
         PROVE  Goal
    BY <1>12, <1>13, ClusterSteps DEF SubmitTask, DeleteQuota, DeleteJob, DeleteMark, WatchReceive
  <1>14. ASSUME Start \/ WatchRelease \/ \E a \in Accounts :
                    \/ AddOrUpdateQuotaInfo(a) \/ CreateAccount(a) \/ UpdateAccountQuota(a)
                    \/ \E t \in Tasks : LoadTask(a, t)
         PROVE  Goal
    BY <1>12, <1>14 DEF Start, WatchRelease, AddOrUpdateQuotaInfo, CreateAccount,
              UpdateAccountQuota, LoadTask
  <1> HIDE DEF Goal
  <1> QED
    BY StepCases, <1>4, <1>5, <1>6, <1>7, <1>8, <1>9, <1>10, <1>11, <1>13, <1>14

-----------------------------------------------------------------------------
\* A task enters the set of submitting handlers when its row is inserted.
LEMMA SubmitSteps ==
    ASSUME Next, NEW u \in Tasks, u \in submit'
    PROVE  u \in submit \/ SubmitTask(u)
  <1>1. ASSUME submit' \subseteq submit PROVE u \in submit \/ SubmitTask(u)
    BY <1>1
  <1>2. ASSUME NEW t \in Tasks, SubmitTask(t) PROVE u \in submit \/ SubmitTask(u)
    BY <1>2 DEF SubmitTask
  <1>3. ASSUME NEW t \in Tasks,
               NotifyCreate(t) \/ DeleteBegin(t) \/ DeleteQuota(t) \/ DeleteJob(t) \/ DeleteMark(t)
               \/ WatchReceive(t)
        PROVE  submit' \subseteq submit
    BY <1>3 DEF NotifyCreate, DeleteBegin, DeleteQuota, DeleteJob, DeleteMark, WatchReceive
  <1>4. ASSUME NEW t \in Tasks, Cluster(t) PROVE submit' \subseteq submit
    BY <1>4 DEF Cluster, JobRuns, JobPreempted, JobEnds, PhaseChange, Resync
  <1>5. ASSUME Start \/ Crash \/ WatchRelease \/ Collect \/ Pick \/ CreateJobFromTask \/ AddQuota
               \/ DequeueTask \/ MarkFailed \/ MarkCreated \/ UpdateJobName
        PROVE  submit' \subseteq submit
    BY <1>5 DEF Start, Crash, WatchRelease, Collect, Pick, CreateJobFromTask, AddQuota, DequeueTask,
             MarkFailed, MarkCreated, UpdateJobName, SchedWrite
  <1>6. ASSUME NEW a \in Accounts,
               AddOrUpdateQuotaInfo(a) \/ InitUserQueue(a) \/ CreateAccount(a) \/ UpdateAccountQuota(a)
               \/ \E t \in Tasks : LoadTask(a, t)
        PROVE  submit' \subseteq submit
    BY <1>6 DEF AddOrUpdateQuotaInfo, InitUserQueue, CreateAccount, UpdateAccountQuota, LoadTask
  <1> QED
    BY StepCases, <1>1, <1>2, <1>3, <1>4, <1>5, <1>6

\* The scheduler cannot reach a task before the notification of its handler.
LEMMA SubmittedLaterStep ==
    ASSUME TypeOK, QueuesLoaded, SchedulerShape, SubmittedLater, Next
    PROVE  SubmittedLater'
  <1> SUFFICES ASSUME NEW u \in Tasks, db'[u].status = "None" \/ u \in submit'
               PROVE  ~Reachable(u)' /\ (db'[u].status = "None" => u \notin submit')
    BY DEF SubmittedLater
  <1>1. ASSUME SubmitTask(u)
        PROVE  db[u].status = "None" /\ db'[u].status = "Queueing"
    BY <1>1 DEF SubmitTask, TypeOK, Row
  <1>2. db'[u].status = "None" => u \notin submit'
    BY <1>1, RowSteps, SubmitSteps DEF SubmittedLater
  <1>3. db[u].status = "None" \/ u \in submit
    BY <1>1, RowSteps, SubmitSteps
  <1>4. ASSUME Reachable(u)' PROVE FALSE
    <2>1. ~Reachable(u)
      BY <1>3 DEF SubmittedLater
    <2>2. CASE u \in submit /\ u \notin submit'
      BY <2>2, RowSteps DEF SubmittedLater
    <2>3. CASE submit = {} /\ db' = db /\ db[u].status = "Queueing" /\ submit' = submit
      BY <1>3, <2>3
    <2> QED
      BY <1>4, <2>1, <2>2, <2>3, ReachSteps
  <1> QED
    BY <1>2, <1>4

\* From the scheduler's last steps on a task there is no way but forward.
LEMMA SchedulerSteps ==
    ASSUME TypeOK, QueuesLoaded, SchedulerShape, Next
    PROVE  \/ sched' = sched
           \/ Crash
           \/ sched.step \in {"idle", "pick", "create", "markFailed", "dequeueFailed"}
              /\ sched'.step # "setJobName"
           \/ MarkCreated
           \/ UpdateJobName
           \/ AddQuota
           \/ DequeueTask
  <1> DEFINE Goal == \/ sched' = sched \/ Crash
                     \/ /\ sched.step \in {"idle", "pick", "create", "markFailed", "dequeueFailed"}
                        /\ sched'.step # "setJobName"
                     \/ MarkCreated \/ UpdateJobName \/ AddQuota \/ DequeueTask
  <1>1. ASSUME NEW t \in Tasks,
               SubmitTask(t) \/ NotifyCreate(t) \/ DeleteBegin(t) \/ DeleteQuota(t) \/ DeleteJob(t)
               \/ DeleteMark(t) \/ WatchReceive(t) \/ Cluster(t)
        PROVE  sched' = sched
    BY <1>1, ClusterSteps DEF SubmitTask, NotifyCreate, DeleteBegin, DeleteQuota, DeleteJob,
             DeleteMark, WatchReceive
  <1>2. ASSUME Start \/ WatchRelease PROVE sched' = sched
    BY <1>2 DEF Start, WatchRelease
  <1>3. ASSUME NEW a \in Accounts,
               AddOrUpdateQuotaInfo(a) \/ InitUserQueue(a) \/ CreateAccount(a) \/ UpdateAccountQuota(a)
               \/ \E t \in Tasks : LoadTask(a, t)
        PROVE  sched' = sched
    BY <1>3 DEF AddOrUpdateQuotaInfo, InitUserQueue, CreateAccount, UpdateAccountQuota, LoadTask
  <1>4. \A rest : NextCandidate(rest).step # "setJobName"
    BY DEF NextCandidate, IdleSched
  <1>5. ASSUME Collect PROVE Goal
    BY <1>5 DEF Collect
  <1>6. ASSUME Pick PROVE Goal
    BY <1>4, <1>6 DEF Pick
  <1>7. ASSUME CreateJobFromTask PROVE Goal
    BY <1>7 DEF CreateJobFromTask, TypeOK
  <1>8. ASSUME MarkFailed PROVE Goal
    BY <1>4, <1>8 DEF MarkFailed, SchedWrite, TypeOK
  <1> QED
    BY StepCases, <1>1, <1>2, <1>3, <1>5, <1>6, <1>7, <1>8

\* A task whose job is named is counted and leaves the queue, and the
\* scheduler never meets it again.
LEMMA NamedIsDoneStep ==
    ASSUME TypeOK, QueuesLoaded, SchedulerShape, SubmittedLater, NamedIsDone, Next
    PROVE  NamedIsDone'
  <1>0. \A u \in Tasks : u # NoTask /\ Owner[u] \in Accounts
    BY OwnerType, TasksAreNumbers DEF NoTask
  <1>1. ASSUME NEW u \in Tasks, db[u].jobName
        PROVE  /\ db'[u].status \notin {"None", "Queueing"}
               /\ u \notin submit'
               /\ Reachable(u)' => sched'.task = u /\ sched'.step \in {"addQuota", "dequeue"}
    <2>1. db[u].status \notin {"None", "Queueing"} /\ u \notin submit
      BY <1>1 DEF NamedIsDone
    <2>2. db'[u].status \notin {"None", "Queueing"}
      BY <2>1, RowSteps
    <2>3. u \notin submit'
      BY <2>1, SubmitSteps DEF SubmitTask
    <2>4. ASSUME Reachable(u)'
          PROVE  sched'.task = u /\ sched'.step \in {"addQuota", "dequeue"}
      <3>1. Reachable(u)
        BY <2>1, <2>4, ReachSteps
      <3>2. sched.task = u /\ sched.step \in {"addQuota", "dequeue"}
        BY <1>1, <3>1 DEF NamedIsDone
      <3>3. ~Crash
        <4>1. ASSUME Crash PROVE ~Reachable(u)'
          BY <1>0, <4>1 DEF Crash, Reachable, IdleSched
        <4> QED
          BY <2>4, <4>1
      <3>4. ~DequeueTask
        <4>1. ASSUME DequeueTask PROVE ~Reachable(u)'
          <5>1. u \notin userQueues'[Owner[u]]
            BY <1>0, <3>2, <4>1 DEF DequeueTask, Dequeue, TypeOK
          <5>2. sched' = NextCandidate(sched.candidates) /\ u \notin sched.candidates
            BY <3>2, <4>1 DEF DequeueTask, SchedulerShape
          <5>3. u \notin sched'.candidates /\ sched'.task = NoTask
            BY <5>2 DEF NextCandidate, IdleSched
          <5> QED
            BY <1>0, <5>1, <5>3 DEF Reachable
        <4> QED
          BY <2>4, <4>1
      <3>5. CASE AddQuota
        BY <3>2, <3>5 DEF AddQuota, TypeOK
      <3>6. CASE sched' = sched
        BY <3>2, <3>6
      <3>7. ~MarkCreated /\ ~UpdateJobName
        BY <3>2 DEF MarkCreated, UpdateJobName, SchedWrite
      <3> QED
        BY <3>2, <3>3, <3>4, <3>5, <3>6, <3>7, SchedulerSteps
    <2> QED
      BY <2>2, <2>3, <2>4
  <1>2. ASSUME NEW u \in Tasks, db'[u].jobName, ~db[u].jobName
        PROVE  /\ db'[u].status \notin {"None", "Queueing"}
               /\ u \notin submit'
               /\ Reachable(u)' => sched'.task = u /\ sched'.step \in {"addQuota", "dequeue"}
    <2>1. /\ UpdateJobName /\ u = sched.task /\ db'[u].status = db[u].status
          /\ sched' = [sched EXCEPT !.step = "addQuota"]
      BY <1>2, RowSteps
    <2>2. sched.step = "setJobName" /\ submit' = submit
      BY <2>1 DEF UpdateJobName, SchedWrite
    <2>3. db'[u].status \notin {"None", "Queueing"}
      BY <2>1, <2>2 DEF NamedIsDone
    <2>4. u \notin submit'
      BY <2>1, <2>2 DEF SubmittedLater, Reachable
    <2>5. sched'.task = u /\ sched'.step = "addQuota"
      BY <2>1 DEF TypeOK
    <2> QED
      BY <2>3, <2>4, <2>5
  <1>3. ASSUME sched'.step = "setJobName"
        PROVE  db'[sched'.task].status \notin {"None", "Queueing"}
    <2>1. CASE sched' = sched
      <3>1. sched.task \in Tasks
        BY <1>3, <2>1, SchedTask
      <3> QED
        BY <1>3, <2>1, <3>1, RowSteps DEF NamedIsDone
    <2>2. CASE MarkCreated
      <3>1. sched.task \in Tasks
        BY <2>2, SchedTask DEF MarkCreated, SchedWrite
      <3>2. \/ sched' = NextCandidate(sched.candidates)
            \/ /\ db' = [db EXCEPT ![sched.task] = [db[sched.task] EXCEPT !.status = "Created"]]
               /\ sched' = [sched EXCEPT !.step = "setJobName"]
        BY <2>2 DEF MarkCreated, SchedWrite
      <3>3. sched' # NextCandidate(sched.candidates)
        BY <1>3 DEF NextCandidate, IdleSched
      <3>4. sched'.task = sched.task /\ db'[sched.task].status = "Created"
        BY <3>1, <3>2, <3>3 DEF TypeOK, Row
      <3> QED
        BY <3>4
    <2>3. CASE UpdateJobName
      BY <1>3, <2>3 DEF UpdateJobName, SchedWrite, NextCandidate, IdleSched, TypeOK
    <2>4. CASE Crash \/ AddQuota \/ DequeueTask
      BY <1>3, <2>4 DEF Crash, AddQuota, DequeueTask, NextCandidate, IdleSched, TypeOK
    <2> QED
      BY <1>3, <2>1, <2>2, <2>3, <2>4, SchedulerSteps
  <1> QED
    BY <1>1, <1>2, <1>3 DEF NamedIsDone

\* An AIJob disappears only by a delete that knew its name.
LEMMA GoneHadNameStep ==
    ASSUME TypeOK, SchedulerShape, GoneHadName, Next
    PROVE  GoneHadName'
  <1> DEFINE Named == \A u \in Tasks : db[u].jobName => db'[u].jobName
  <1>0. Named
    BY RowSteps
  <1> HIDE DEF Named
  <1>1. ASSUME UNCHANGED <<aijobs, launched, del>> PROVE GoneHadName'
    BY <1>0, <1>1 DEF GoneHadName, Named
  <1>2. ASSUME Crash PROVE GoneHadName'
    BY <1>0, <1>2 DEF Crash, GoneHadName, Named, IdleDelete
  <1>3. ASSUME NEW t \in Tasks, DeleteBegin(t) PROVE GoneHadName'
    <2>1. aijobs' = aijobs /\ launched' = launched /\ db' = db
      BY <1>3 DEF DeleteBegin
    <2>2. \/ del' = [del EXCEPT ![t] = [step |-> "quota", jobName |-> db[t].jobName]]
          \/ del' = [del EXCEPT ![t] = [step |-> "mark", jobName |-> FALSE]]
      BY <1>3 DEF DeleteBegin
    <2>3. \A u \in Tasks : del'[u].jobName => db'[u].jobName
      <3>1. TAKE u \in Tasks
      <3>2. CASE u # t
        <4>1. del'[u] = del[u]
          BY <2>2, <3>2 DEF TypeOK
        <4> QED
          BY <2>1, <4>1 DEF GoneHadName
      <3>3. CASE u = t
        <4>1. del'[t] = [step |-> "quota", jobName |-> db[t].jobName]
              \/ del'[t] = [step |-> "mark", jobName |-> FALSE]
          BY <2>2 DEF TypeOK
        <4> QED
          BY <2>1, <3>3, <4>1
      <3> QED
        BY <3>2, <3>3
    <2> QED
      BY <2>1, <2>3 DEF GoneHadName
  <1>4. ASSUME NEW t \in Tasks, DeleteQuota(t) PROVE GoneHadName'
    <2>1. \A u \in Tasks : del'[u].jobName = del[u].jobName
      BY <1>4 DEF DeleteQuota, TypeOK
    <2> QED
      BY <1>4, <2>1 DEF DeleteQuota, GoneHadName
  <1>5. ASSUME NEW t \in Tasks, DeleteJob(t) PROVE GoneHadName'
    <2>1. \A u \in Tasks : del'[u].jobName = del[u].jobName
      BY <1>5 DEF DeleteJob, TypeOK
    <2>2. db' = db /\ launched' = launched
      BY <1>5 DEF DeleteJob
    <2>3. \A u \in Tasks : /\ aijobs'[u] # "None" => aijobs[u] # "None"
                           /\ aijobs'[u] = "None" /\ aijobs[u] # "None" => del[u].jobName
      BY <1>5 DEF DeleteJob, TypeOK
    <2> QED
      BY <2>1, <2>2, <2>3 DEF GoneHadName
  <1>6. ASSUME NEW t \in Tasks, DeleteMark(t) PROVE GoneHadName'
    <2>1. \A u \in Tasks : del'[u].jobName => del[u].jobName
      BY <1>6 DEF DeleteMark, TypeOK, IdleDelete
    <2>2. aijobs' = aijobs /\ launched' = launched
      BY <1>6 DEF DeleteMark
    <2> QED
      BY <1>0, <2>1, <2>2 DEF GoneHadName, Named
  <1>7. ASSUME NEW t \in Tasks, Cluster(t) PROVE GoneHadName'
    BY <1>7, ClusterSteps DEF GoneHadName
  <1>8. ASSUME CreateJobFromTask PROVE GoneHadName'
    <2>1. sched.task \in Tasks /\ db' = db /\ del' = del
      BY <1>8, SchedTask DEF CreateJobFromTask
    <2>2. \/ /\ aijobs' = [aijobs EXCEPT ![sched.task] = "Pending"]
             /\ launched' = launched \cup {sched.task}
          \/ aijobs' = aijobs /\ launched' = launched
      BY <1>8 DEF CreateJobFromTask
    <2> QED
      BY <2>1, <2>2 DEF GoneHadName, TypeOK
  <1>9. ASSUME NEW t \in Tasks, SubmitTask(t) \/ NotifyCreate(t) \/ WatchReceive(t)
        PROVE  GoneHadName'
    BY <1>1, <1>9 DEF SubmitTask, NotifyCreate, WatchReceive
  <1>10. ASSUME Start \/ WatchRelease \/ Collect \/ Pick \/ MarkFailed \/ MarkCreated \/ UpdateJobName
                \/ AddQuota \/ DequeueTask
         PROVE  GoneHadName'
    BY <1>1, <1>10 DEF Start, WatchRelease, Collect, Pick, MarkFailed, MarkCreated, UpdateJobName,
             SchedWrite, AddQuota, DequeueTask
  <1>11. ASSUME NEW a \in Accounts,
               AddOrUpdateQuotaInfo(a) \/ InitUserQueue(a) \/ CreateAccount(a) \/ UpdateAccountQuota(a)
               \/ \E t \in Tasks : LoadTask(a, t)
         PROVE  GoneHadName'
    BY <1>1, <1>11 DEF AddOrUpdateQuotaInfo, InitUserQueue, CreateAccount, UpdateAccountQuota, LoadTask
  <1> QED
    BY StepCases, <1>2, <1>3, <1>4, <1>5, <1>6, <1>7, <1>8, <1>9, <1>10, <1>11

-----------------------------------------------------------------------------
\* The invariant holds when the process starts for the first time.
LEMMA InitIInv == Init => IInv
  <1> SUFFICES ASSUME Init PROVE IInv
    OBVIOUS
  <1>0. \A t \in Tasks : t # NoTask /\ Owner[t] \in Accounts
    BY OwnerType, TasksAreNumbers DEF NoTask
  <1>1. TypeOK
    BY InitType
  <1>2. QueuesLoaded
    BY DEF Init, QueuesLoaded
  <1>3. SchedulerShape
    BY DEF Init, SchedulerShape, IdleSched
  <1>4. CheckStillHolds
    BY DEF Init, CheckStillHolds, Admitting, IdleSched
  <1>5. SubmittedLater
    BY <1>0 DEF Init, SubmittedLater, Reachable, IdleSched
  <1>6. NamedIsDone
    BY DEF Init, NamedIsDone, IdleSched
  <1>7. GoneHadName
    BY DEF Init, GoneHadName, IdleDelete
  <1> QED
    BY <1>1, <1>2, <1>3, <1>4, <1>5, <1>6, <1>7 DEF IInv

\* Every step keeps the invariant.
LEMMA NextIInv == IInv /\ [Next]_vars => IInv'
  <1> SUFFICES ASSUME IInv, [Next]_vars PROVE IInv'
    OBVIOUS
  <1>1. CASE Next
    <2>1. TypeOK /\ QueuesLoaded /\ SchedulerShape /\ CheckStillHolds /\ SubmittedLater
          /\ NamedIsDone /\ GoneHadName
      BY DEF IInv
    <2> QED
      BY <1>1, <2>1, TypeStep, QueuesLoadedStep, SchedulerShapeStep, CheckStillHoldsStep,
         SubmittedLaterStep, NamedIsDoneStep, GoneHadNameStep DEF IInv
  <1>2. CASE UNCHANGED vars
    BY <1>2 DEF IInv, vars, TypeOK, QueuesLoaded, QuotaReady, SchedulerShape, CheckStillHolds,
            Admitting, SubmittedLater, Reachable, NamedIsDone, GoneHadName
  <1> QED
    BY <1>1, <1>2

\* IInv is an invariant of the controller, whichever calls fail and whenever
\* the process crashes.
THEOREM Invariance == Spec => []IInv
  BY InitIInv, NextIInv, PTL DEF Spec

\* The types, as an invariant of their own.
THEOREM TypeCorrect == Spec => []TypeOK
  <1>1. IInv => TypeOK
    BY DEF IInv
  <1> QED
    BY <1>1, Invariance, PTL

\* What admitTask checked before its three calls still holds after them.
THEOREM CheckHolds == Spec => []CheckStillHolds
  <1>1. IInv => CheckStillHolds
    BY DEF IInv
  <1> QED
    BY <1>1, Invariance, PTL

\* admitTask never counts a guaranteed task beyond the hard limit.
THEOREM WithinHardQuota == Spec => AdmittedWithinHard
  <1> DEFINE Within == AddQuota /\ SLO[sched.task] = HighSLO
                         => LET info == quotaInfos'[Owner[sched.task]]
                            IN  WithinHard(info.Hard, info.HardUsed)
  <1>1. IInv /\ [Next]_vars => [Within]_vars
    <2> SUFFICES ASSUME IInv, AddQuota, SLO[sched.task] = HighSLO
                 PROVE  WithinHard(quotaInfos'[Owner[sched.task]].Hard,
                                   quotaInfos'[Owner[sched.task]].HardUsed)
      OBVIOUS
    <2>1. sched.task \in Tasks /\ Owner[sched.task] \in Accounts
      BY SchedTask DEF IInv, AddQuota
    <2>2. ~CheckHardQuotaExceed(quotaInfos[Owner[sched.task]], sched.task)
      BY DEF IInv, CheckStillHolds, Admitting, AddQuota
    <2>3. quotaInfos'[Owner[sched.task]] = AddTask(quotaInfos[Owner[sched.task]], sched.task)
      BY <2>1 DEF AddQuota, IInv, TypeOK
    <2>4. IsQuotaInfo(quotaInfos[Owner[sched.task]])
      BY <2>1 DEF IInv, TypeOK
    <2> QED
      BY <2>1, <2>2, <2>3, <2>4, AddedFits
  <1> QED
    BY <1>1, Invariance, PTL DEF Spec, AdmittedWithinHard

\* The AIJob of a task is created at most once, across crashes, failed
\* writes and deletes.
THEOREM CreatedAtMostOnce == Spec => LaunchedOnce
  <1> DEFINE Once == \A t \in Tasks : aijobs[t] = "None" /\ aijobs'[t] # "None" => t \notin launched
  <1>1. IInv /\ [Next]_vars => [Once]_vars
    <2> SUFFICES ASSUME IInv, Next, NEW t \in Tasks, aijobs[t] = "None", aijobs'[t] # "None",
                        t \in launched
                 PROVE  FALSE
      BY DEF Once
    <2>1. CreateJobFromTask /\ sched.task = t
      <3>1. TypeOK
        BY DEF IInv
      <3>2. ~(\E u \in Tasks : Cluster(u))
        BY <3>1, ClusterSteps
      <3>3. ~(\E u \in Tasks : DeleteJob(u))
        BY <3>1 DEF DeleteJob, TypeOK
      <3>4. ASSUME NEW u \in Tasks,
                   SubmitTask(u) \/ NotifyCreate(u) \/ DeleteBegin(u) \/ DeleteQuota(u)
                   \/ DeleteMark(u) \/ WatchReceive(u)
            PROVE  aijobs' = aijobs
        BY <3>4 DEF SubmitTask, NotifyCreate, DeleteBegin, DeleteQuota, DeleteMark, WatchReceive
      <3>5. ASSUME Start \/ Crash \/ WatchRelease \/ Collect \/ Pick \/ MarkFailed \/ MarkCreated
                   \/ UpdateJobName \/ AddQuota \/ DequeueTask
            PROVE  aijobs' = aijobs
        BY <3>5 DEF Start, Crash, WatchRelease, Collect, Pick, MarkFailed, MarkCreated,
                    UpdateJobName, SchedWrite, AddQuota, DequeueTask
      <3>6. ASSUME NEW a \in Accounts,
                   AddOrUpdateQuotaInfo(a) \/ InitUserQueue(a) \/ CreateAccount(a)
                   \/ UpdateAccountQuota(a) \/ \E u \in Tasks : LoadTask(a, u)
            PROVE  aijobs' = aijobs
        BY <3>6 DEF AddOrUpdateQuotaInfo, InitUserQueue, CreateAccount, UpdateAccountQuota, LoadTask
      <3>7. CreateJobFromTask
        BY StepCases, <3>2, <3>3, <3>4, <3>5, <3>6
      <3> QED
        BY <3>1, <3>7 DEF CreateJobFromTask, TypeOK
    <2>2. db[t].jobName /\ sched.step = "create"
      BY <2>1 DEF IInv, GoneHadName, CreateJobFromTask
    <2> QED
      BY <2>1, <2>2 DEF IInv, NamedIsDone, Reachable
  <1> QED
    BY <1>1, Invariance, PTL DEF Spec, LaunchedOnce
-----------------------------------------------------------------------------
\* An update of one entry of the cache is seen in that entry alone.
LEMMA EntryUpdate ==
    ASSUME TypeOK, NEW a \in Accounts, NEW v, quotaInfos' = [quotaInfos EXCEPT ![a] = v],
           NEW b \in Accounts
    PROVE  quotaInfos'[b] = IF b = a THEN v ELSE quotaInfos[b]
  BY DEF TypeOK

\* What a step can do to an entry of the quota cache: nothing, forget it,
\* make a fresh one, count a task, or release a task.
LEMMA EntrySteps ==
    ASSUME TypeOK, SchedulerShape, Next, NEW a \in Accounts
    PROVE  LET old == quotaInfos[a]
               new == quotaInfos'[a]
           IN  \/ new = old
               \/ new = NoQuotaInfo /\ Crash
               \/ ~old.loaded /\ new = NewQuotaInfo(deserved[a])
               \/ \E t \in Tasks : new = AddTask(old, t)
               \/ \E t \in Tasks : /\ new = DeleteTask(old, t) /\ Owner[t] = a
                                   /\ watch = t \/ del[t].step = "quota"
  <1> DEFINE old == quotaInfos[a]
             new == quotaInfos'[a]
             Released(t) == /\ new = DeleteTask(old, t) /\ Owner[t] = a
                            /\ watch = t \/ del[t].step = "quota"
             Goal == \/ new = old
                     \/ new = NoQuotaInfo /\ Crash
                     \/ ~old.loaded /\ new = NewQuotaInfo(deserved[a])
                     \/ \E t \in Tasks : new = AddTask(old, t)
                     \/ \E t \in Tasks : Released(t)
  <1> SUFFICES Goal
    OBVIOUS
  <1>0. ASSUME quotaInfos' = quotaInfos PROVE Goal
    BY <1>0
  <1>1. CASE Crash
    BY <1>1 DEF Crash
  <1>2. ASSUME NEW b \in Accounts, AddOrUpdateQuotaInfo(b) PROVE Goal
    <2>1. ~quotaInfos[b].loaded /\ quotaInfos' = [quotaInfos EXCEPT ![b] = NewQuotaInfo(deserved[b])]
      BY <1>2 DEF AddOrUpdateQuotaInfo
    <2> QED
      BY <2>1, EntryUpdate
  <1>3. ASSUME NEW b \in Accounts, NEW t \in Tasks, LoadTask(b, t) PROVE Goal
    <2>1. quotaInfos' = [quotaInfos EXCEPT ![b] = AddTask(quotaInfos[b], t)]
      BY <1>3 DEF LoadTask
    <2> QED
      BY <2>1, EntryUpdate
  <1>4. ASSUME AddQuota PROVE Goal
    <2>1. sched.task \in Tasks /\ Owner[sched.task] \in Accounts
      BY <1>4, SchedTask DEF AddQuota
    <2>2. quotaInfos' = [quotaInfos EXCEPT ![Owner[sched.task]] =
                            AddTask(quotaInfos[Owner[sched.task]], sched.task)]
      BY <1>4 DEF AddQuota
    <2> QED
      BY <2>1, <2>2, EntryUpdate
  <1>5. ASSUME NEW t \in Tasks, ReleaseQuota(t), watch = t \/ del[t].step = "quota" PROVE Goal
    <2>1. Owner[t] \in Accounts
      BY OwnerType
    <2>2. CASE UNCHANGED quotaInfos
      BY <2>2
    <2>3. CASE quotaInfos' = [quotaInfos EXCEPT ![Owner[t]] = DeleteTask(quotaInfos[Owner[t]], t)]
      BY <1>5, <2>1, <2>3, EntryUpdate
    <2> QED
      BY <1>5, <2>2, <2>3 DEF ReleaseQuota
  <1>6. ASSUME NEW t \in Tasks, DeleteQuota(t) PROVE Goal
    BY <1>5, <1>6 DEF DeleteQuota
  <1>7. ASSUME WatchRelease PROVE Goal
    <2>1. watch \in Tasks
      BY <1>7 DEF WatchRelease, TypeOK
    <2> QED
      BY <1>5, <1>7, <2>1 DEF WatchRelease
  <1>8. ASSUME NEW t \in Tasks,
               SubmitTask(t) \/ NotifyCreate(t) \/ DeleteBegin(t) \/ DeleteJob(t)
               \/ DeleteMark(t) \/ WatchReceive(t) \/ Cluster(t)
        PROVE  Goal
    BY <1>0, <1>8, ClusterSteps DEF SubmitTask, NotifyCreate, DeleteBegin, DeleteJob, DeleteMark, WatchReceive
  <1>9. ASSUME NEW b \in Accounts, InitUserQueue(b) \/ CreateAccount(b) \/ UpdateAccountQuota(b)
        PROVE  Goal
    BY <1>0, <1>9 DEF InitUserQueue, CreateAccount, UpdateAccountQuota
  <1>10. ASSUME Start \/ Collect \/ Pick \/ CreateJobFromTask \/ MarkFailed \/ MarkCreated
                \/ UpdateJobName \/ DequeueTask
         PROVE  Goal
    BY <1>0, <1>10 DEF Start, Collect, Pick, CreateJobFromTask, MarkFailed, MarkCreated,
                       UpdateJobName, SchedWrite, DequeueTask
  <1> HIDE DEF Goal
  <1> QED
    BY StepCases, <1>1, <1>2, <1>3, <1>4, <1>6, <1>7, <1>8, <1>9, <1>10

\* An entry counts finitely many tasks, and exactly what they request.
LEMMA EntriesAreExact == Spec => [](CountedAreFinite /\ QuotaAccounting)
  <1> DEFINE Exact == CountedAreFinite /\ QuotaAccounting
  <1>1. Init => Exact
    BY NewAccounted DEF Init, CountedAreFinite, QuotaAccounting
  <1>2. IInv /\ Exact /\ [Next]_vars => Exact'
    <2>1. ASSUME IInv, Exact, Next, NEW a \in Accounts
          PROVE  IsFiniteSet(quotaInfos'[a].UsedTasks) /\ Accounted(quotaInfos'[a])
      <3>1. /\ IsQuotaInfo(quotaInfos[a]) /\ IsFiniteSet(quotaInfos[a].UsedTasks)
            /\ Accounted(quotaInfos[a]) /\ TypeOK /\ SchedulerShape
        BY <2>1 DEF IInv, TypeOK, CountedAreFinite, QuotaAccounting
      <3> QED
        BY <2>1, <3>1, EntrySteps, NewAccounted, AddAccounted, DeleteAccounted
    <2>2. CASE UNCHANGED vars
      BY <2>2 DEF vars, CountedAreFinite, QuotaAccounting
    <2> QED
      BY <2>1, <2>2 DEF CountedAreFinite, QuotaAccounting
  <1> QED
    BY <1>1, <1>2, Invariance, PTL DEF Spec

\* Whichever goroutines count and release, in whatever order, however often
\* for the same task, across crashes and failed calls.
THEOREM QuotaIsExact == Spec => []QuotaAccounting
  BY EntriesAreExact, PTL
-----------------------------------------------------------------------------
\* The tasks that an entry counts, after one is counted or released.
LEMMA UsedTasksAfter ==
    ASSUME NEW info, IsQuotaInfo(info), NEW t \in Tasks
    PROVE  /\ AddTask(info, t).UsedTasks = info.UsedTasks \cup {t}
           /\ DeleteTask(info, t).UsedTasks = info.UsedTasks \ {t}
  BY DEF IsQuotaInfo, AddTask, DeleteTask

\* LiveJobsCounted, for one task.
IsCounted(t) ==
    Live(t) /\ up => \/ t \in quotaInfos[Owner[t]].UsedTasks
                     \/ sched.task = t /\ Admitting

\* A task nobody deletes leaves the cache only when its job has ended.
LEMMA StaysCounted ==
    ASSUME IInv, LiveInv, Next, Faults = {}, NEW t \in Tasks \ Deletable, aijobs[t] # "None",
           ~Ended(t), t \in quotaInfos[Owner[t]].UsedTasks
    PROVE  t \in quotaInfos'[Owner[t]].UsedTasks
  <1> DEFINE a == Owner[t]
  <1>1. /\ a \in Accounts /\ TypeOK /\ SchedulerShape /\ QueuesLoaded
        /\ IsQuotaInfo(quotaInfos[a]) /\ Followed(t)
    BY OwnerType DEF IInv, LiveInv, TypeOK
  <1>2. quotaInfos[a].loaded
    BY <1>1 DEF Followed, QueuesLoaded, QuotaReady
  <1>3. watch # t /\ del[t].step # "quota" /\ ~Crash
    BY <1>1 DEF Followed, Crash
  <1>4. \/ quotaInfos'[a] = quotaInfos[a]
        \/ \E u \in Tasks : quotaInfos'[a] = AddTask(quotaInfos[a], u)
        \/ \E u \in Tasks : quotaInfos'[a] = DeleteTask(quotaInfos[a], u) /\ u # t
    BY <1>1, <1>2, <1>3, EntrySteps
  <1> QED
    BY <1>1, <1>4, UsedTasksAfter

\* The steps that keep AIJobs as they are.
LEMMA QuietSteps ==
    ASSUME IInv, LiveInv, Next, Faults = {}, NEW t \in Tasks \ Deletable,
           aijobs'[t] = aijobs[t], up' = up, del'[t].step = "idle", hasQueue \subseteq hasQueue',
           db'[t].status = "None" => db[t].status = "None",
           ~up => db'[t].status = "None",
           t \in submit' => t \in submit \/ aijobs[t] = "None",
           Reachable(t)' /\ (sched'.task = t => sched'.step = "create") /\ aijobs[t] # "None" =>
              Reachable(t) /\ (sched.task = t => sched.step = "create"),
           sched'.task = t => sched'.step \notin {"markFailed", "dequeueFailed"},
           watch' = t => watch = t \/ Ended(t),
           \A i \in DOMAIN events'[t] : events'[t][i] \in {events[t][j] : j \in DOMAIN events[t]},
           sched.task = t /\ Admitting => \/ sched'.task = t /\ Admitting'
                                         \/ t \in quotaInfos'[Owner[t]].UsedTasks
    PROVE  Followed(t)' /\ IsCounted(t)'
  <1>1. Followed(t) /\ IsCounted(t)
    BY DEF LiveInv, LiveJobsCounted, IsCounted
  <1>2. Followed(t)'
    BY <1>1 DEF Followed, Ended
  <1>3. IsCounted(t)'
    <2> SUFFICES ASSUME Live(t)', up'
                 PROVE  \/ t \in quotaInfos'[Owner[t]].UsedTasks
                        \/ sched'.task = t /\ Admitting'
      BY DEF IsCounted
    <2>1. Live(t) /\ ~Ended(t) /\ aijobs[t] # "None"
      BY DEF Live, Ended, CompletedPhases
    <2>2. CASE t \in quotaInfos[Owner[t]].UsedTasks
      BY <2>1, <2>2, StaysCounted
    <2>3. CASE sched.task = t /\ Admitting
      BY <2>3
    <2> QED
      BY <1>1, <2>1, <2>2, <2>3 DEF IsCounted
  <1> QED
    BY <1>2, <1>3

\* The handlers, the watcher and initialisation are quiet steps.
LEMMA FollowedOthers ==
    ASSUME IInv, LiveInv, Next, Faults = {}, NEW t \in Tasks \ Deletable
    PROVE  /\ \A a \in Accounts : AddOrUpdateQuotaInfo(a) => Followed(t)' /\ IsCounted(t)'
           /\ \A a \in Accounts, u \in Tasks : LoadTask(a, u) => Followed(t)' /\ IsCounted(t)'
           /\ \A a \in Accounts : InitUserQueue(a) => Followed(t)' /\ IsCounted(t)'
           /\ \A a \in Accounts : CreateAccount(a) \/ UpdateAccountQuota(a) => Followed(t)' /\ IsCounted(t)'
           /\ \A u \in Tasks : SubmitTask(u) => Followed(t)' /\ IsCounted(t)'
           /\ \A u \in Tasks : NotifyCreate(u) => Followed(t)' /\ IsCounted(t)'
           /\ \A u \in Tasks : DeleteBegin(u) => Followed(t)' /\ IsCounted(t)'
           /\ \A u \in Tasks : DeleteQuota(u) \/ DeleteJob(u) \/ DeleteMark(u) => Followed(t)' /\ IsCounted(t)'
           /\ \A u \in Tasks : WatchReceive(u) => Followed(t)' /\ IsCounted(t)'
           /\ WatchRelease => Followed(t)' /\ IsCounted(t)'
  <1> DEFINE Goal == Followed(t)' /\ IsCounted(t)'
  <1>0. /\ TypeOK /\ SchedulerShape /\ Followed(t) /\ IsCounted(t)
        /\ Owner[t] \in Accounts /\ t # NoTask
    BY OwnerType, TasksAreNumbers DEF IInv, LiveInv, LiveJobsCounted, IsCounted, NoTask
  <1>1. ASSUME NEW a \in Accounts, AddOrUpdateQuotaInfo(a) PROVE Goal
    BY <1>0, <1>1, QuietSteps DEF AddOrUpdateQuotaInfo, Followed, Reachable, Admitting
  <1>2. ASSUME NEW a \in Accounts, NEW u \in Tasks, LoadTask(a, u) PROVE Goal
    BY <1>0, <1>2, QuietSteps DEF LoadTask, Followed, Reachable, Admitting
  <1>3. ASSUME NEW a \in Accounts, InitUserQueue(a) PROVE Goal
    <2>1. ~up /\ aijobs[t] = "None" /\ sched.task = NoTask
      BY <1>0, <1>3 DEF InitUserQueue, Followed, SchedulerShape, IdleSched
    <2> QED
      BY <1>0, <1>3, <2>1, QuietSteps DEF InitUserQueue, Followed, Reachable, Admitting
  <1>4. ASSUME NEW a \in Accounts, CreateAccount(a) \/ UpdateAccountQuota(a) PROVE Goal
    <2>1. CASE CreateAccount(a)
      BY <1>0, <2>1, QuietSteps DEF CreateAccount, Followed, Reachable, Admitting
    <2>2. CASE UpdateAccountQuota(a)
      BY <1>0, <2>2, QuietSteps DEF UpdateAccountQuota, Followed, Reachable, Admitting
    <2> QED
      BY <1>4, <2>1, <2>2
  <1>5. ASSUME NEW u \in Tasks, SubmitTask(u) PROVE Goal
    <2>1. up /\ (u = t => aijobs[t] = "None")
      BY <1>0, <1>5 DEF SubmitTask, Followed
    <2>2. db'[t].status = "None" => db[t].status = "None"
      BY <1>0, <1>5 DEF SubmitTask, TypeOK, Row
    <2> QED
      BY <1>0, <1>5, <2>1, <2>2, QuietSteps DEF SubmitTask, Followed, Reachable, Admitting
  <1>6. ASSUME NEW u \in Tasks, NotifyCreate(u) PROVE Goal
    <2>1. u = t => aijobs[t] = "None"
      BY <1>0, <1>6 DEF NotifyCreate, Followed
    <2>2. t \in userQueues'[Owner[t]] => t \in userQueues[Owner[t]] \/ u = t
      <3>1. userQueues \in [Accounts -> SUBSET Tasks]
        BY <1>0 DEF TypeOK
      <3>2. userQueues' = Enqueue(u) \/ userQueues' = userQueues
        BY <1>6 DEF NotifyCreate
      <3> QED
        BY <1>0, <3>1, <3>2 DEF Enqueue
    <2> QED
      BY <1>0, <1>6, <2>1, <2>2, QuietSteps DEF NotifyCreate, Followed, Reachable, Admitting
  <1>7. ASSUME NEW u \in Tasks, DeleteBegin(u) PROVE Goal
    <2>1. u # t /\ del'[t] = del[t]
      <3>1. u # t
        BY <1>7 DEF DeleteBegin
      <3>2. DOMAIN del = Tasks
        BY <1>0 DEF TypeOK
      <3> QED
        BY <1>7, <3>1, <3>2 DEF DeleteBegin
    <2>2. t \in userQueues'[Owner[t]] => t \in userQueues[Owner[t]]
      <3>1. userQueues \in [Accounts -> SUBSET Tasks]
        BY <1>0 DEF TypeOK
      <3>2. userQueues' = Dequeue(u) \/ userQueues' = userQueues
        BY <1>7 DEF DeleteBegin
      <3> QED
        BY <1>0, <3>1, <3>2 DEF Dequeue
    <2> QED
      BY <1>0, <1>7, <2>1, <2>2, QuietSteps DEF DeleteBegin, Followed, Reachable, Admitting
  <1>8. ASSUME NEW u \in Tasks, DeleteQuota(u) \/ DeleteJob(u) \/ DeleteMark(u) PROVE Goal
    <2>1. u # t
      BY <1>0, <1>8 DEF DeleteQuota, DeleteJob, DeleteMark, Followed
    <2>2. CASE DeleteQuota(u)
      <3>1. del'[t] = del[t]
        BY <1>0, <2>1, <2>2 DEF DeleteQuota, TypeOK
      <3> QED
        BY <1>0, <2>2, <3>1, QuietSteps DEF DeleteQuota, Followed, Reachable, Admitting
    <2>3. CASE DeleteJob(u)
      <3>1. del'[t] = del[t] /\ aijobs'[t] = aijobs[t]
        BY <1>0, <2>1, <2>3 DEF DeleteJob, TypeOK
      <3> QED
        BY <1>0, <2>3, <3>1, QuietSteps DEF DeleteJob, Followed, Reachable, Admitting
    <2>4. CASE DeleteMark(u)
      <3>1. del'[t] = del[t] /\ db'[t] = db[t]
        BY <1>0, <2>1, <2>4 DEF DeleteMark, TypeOK
      <3> QED
        BY <1>0, <2>4, <3>1, QuietSteps DEF DeleteMark, Followed, Reachable, Admitting
    <2> QED
      BY <1>8, <2>2, <2>3, <2>4
  <1>9. ASSUME NEW u \in Tasks, WatchReceive(u) PROVE Goal
    <2>1. /\ up /\ events[u] # <<>> /\ events' = [events EXCEPT ![u] = Tail(events[u])]
          /\ db' = [db EXCEPT ![u].status = Head(events[u])]
          /\ watch' = IF IsCompletedStatus(Head(events[u])) THEN u ELSE NoTask
      BY <1>9 DEF WatchReceive
    <2>2. /\ events[u] \in Seq(NotifiedPhases) /\ Head(events[u]) = events[u][1]
          /\ 1 \in DOMAIN events[u] /\ Head(events[u]) \in NotifiedPhases
      BY <1>0, <2>1 DEF TypeOK
    <2>3. \A i \in DOMAIN events'[t] : events'[t][i] \in {events[t][j] : j \in DOMAIN events[t]}
      <3>1. \A i \in DOMAIN Tail(events[u]) : i + 1 \in DOMAIN events[u] /\ Tail(events[u])[i] = events[u][i + 1]
        BY <2>1, <2>2
      <3> QED
        BY <1>0, <2>1, <3>1 DEF TypeOK
    <2>4. watch' = t => Ended(t)
      BY <1>0, <2>1, <2>2 DEF Followed
    <2>5. db'[t].status = "None" => db[t].status = "None"
      BY <1>0, <2>1, <2>2 DEF TypeOK, NotifiedPhases
    <2> QED
      BY <1>0, <1>9, <2>1, <2>3, <2>4, <2>5, QuietSteps DEF WatchReceive, Followed, Reachable, Admitting
  <1>10. ASSUME WatchRelease PROVE Goal
    BY <1>0, <1>10, QuietSteps DEF WatchRelease, Followed, Reachable, Admitting
  <1> HIDE DEF Goal
  <1>11. QED
    BY <1>1, <1>2, <1>3, <1>4, <1>5, <1>6, <1>7, <1>8, <1>9, <1>10 DEF Goal

\* The steps of the scheduler.
LEMMA FollowedSchedule ==
    ASSUME IInv, LiveInv, Next, Faults = {}, NEW t \in Tasks \ Deletable
    PROVE  /\ Collect \/ Pick => Followed(t)' /\ IsCounted(t)'
           /\ CreateJobFromTask => Followed(t)' /\ IsCounted(t)'
           /\ MarkFailed \/ MarkCreated \/ UpdateJobName => Followed(t)' /\ IsCounted(t)'
           /\ AddQuota => Followed(t)' /\ IsCounted(t)'
           /\ DequeueTask => Followed(t)' /\ IsCounted(t)'
  <1> DEFINE Goal == Followed(t)' /\ IsCounted(t)'
  <1>0. /\ TypeOK /\ SchedulerShape /\ QueuesLoaded /\ SubmittedLater /\ NamedIsDone
        /\ Followed(t) /\ IsCounted(t) /\ Owner[t] \in Accounts /\ t # NoTask
    BY OwnerType, TasksAreNumbers DEF IInv, LiveInv, LiveJobsCounted, IsCounted, NoTask
  <1>1. ASSUME Collect PROVE Goal
    <2>1. PICK sel \in [hasQueue -> SUBSET Tasks] :
            /\ \A a \in hasQueue : sel[a] \in Selections(a)
            /\ sched' = [step |-> "pick",
                         candidates |-> UNION {sel[a] \cup BestEffort(a) : a \in hasQueue},
                         task |-> NoTask]
      BY <1>1 DEF Collect
    <2>2. \A a \in hasQueue : sel[a] \subseteq userQueues[a] /\ BestEffort(a) \subseteq userQueues[a]
      BY <2>1 DEF Selections, BestEffort
    <2>3. t \in sched'.candidates => t \in userQueues[Owner[t]]
      BY <1>0, <2>1, <2>2 DEF QueuesLoaded, TypeOK
    <2>4. sched.task = NoTask /\ sched'.task = NoTask
      BY <1>0, <1>1, <2>1 DEF Collect, SchedulerShape
    <2> QED
      BY <1>0, <1>1, <2>3, <2>4, QuietSteps DEF Collect, Followed, Reachable, Admitting
  <1>2. ASSUME Pick PROVE Goal
    <2>1. PICK u \in sched.candidates :
            \/ sched' = [step |-> "create", candidates |-> sched.candidates \ {u}, task |-> u]
            \/ sched' = NextCandidate(sched.candidates \ {u})
      BY <1>2 DEF Pick
    <2>2. sched.task = NoTask
      BY <1>0, <1>2 DEF Pick, SchedulerShape
    <2>3. /\ sched'.candidates \subseteq sched.candidates /\ sched'.task \in {u, NoTask}
          /\ sched'.task = u => sched'.step = "create" \/ u = NoTask
      BY <2>1 DEF NextCandidate, IdleSched
    <2> QED
      BY <1>0, <1>2, <2>2, <2>3, QuietSteps DEF Pick, Followed, Reachable, Admitting
  <1>3. ASSUME CreateJobFromTask PROVE Goal
    <2>1. CASE sched.task = t
      <3>1. Reachable(t) /\ sched.step = "create" /\ aijobs[t] = "None"
        BY <1>0, <1>3, <2>1 DEF CreateJobFromTask, Followed, Reachable
      <3>2. /\ aijobs' = [aijobs EXCEPT ![t] = "Pending"]
            /\ sched' = [sched EXCEPT !.step = "markCreated"]
            /\ UNCHANGED <<DBVars, BootVars, userQueues, quotaInfos, submit, del, watch, events>>
        BY <1>3, <2>1, <3>1 DEF CreateJobFromTask
      <3>3. aijobs'[t] = "Pending" /\ sched'.task = t /\ sched'.step = "markCreated"
        BY <1>0, <2>1, <3>2 DEF TypeOK
      <3>4. db[t].status # "None" /\ t \notin submit /\ up
        BY <1>0, <3>1, <2>1 DEF SubmittedLater, SchedulerShape, IdleSched
      <3>5. Owner[t] \in hasQueue
        BY <1>0, <2>1 DEF SchedulerShape
      <3>6. watch # t /\ \A i \in DOMAIN events[t] : ~IsCompletedStatus(events[t][i])
        BY <1>0, <3>1 DEF Followed, Ended, CompletedPhases
      <3>7. Followed(t)'
        BY <1>0, <3>2, <3>3, <3>4, <3>5, <3>6 DEF Followed, Reachable
      <3>8. IsCounted(t)'
        BY <3>3 DEF IsCounted, Admitting
      <3> QED
        BY <3>7, <3>8
    <2>2. CASE sched.task # t
      <3>1. aijobs'[t] = aijobs[t] /\ sched'.task = sched.task /\ sched'.candidates = sched.candidates
        BY <1>0, <1>3, <2>2 DEF CreateJobFromTask, TypeOK
      <3> QED
        BY <1>0, <1>3, <2>2, <3>1, QuietSteps DEF CreateJobFromTask, Followed, Reachable, Admitting
    <2> QED
      BY <2>1, <2>2
  <1>4. ASSUME NEW from \in {"markFailed", "markCreated", "setJobName"}, NEW to, NEW row,
               row.status # "None", SchedWrite(from, to, row),
               from = "markFailed" => sched.task # t,
               from # "markFailed" => to \in {"setJobName", "addQuota"}
        PROVE  Goal
    <2>1. /\ sched.step = from /\ db' = [db EXCEPT ![sched.task] = row]
          /\ sched' = [sched EXCEPT !.step = to]
          /\ UNCHANGED <<accounts, deserved, BootVars, userQueues, quotaInfos, submit, del, watch, ClusterVars>>
      BY <1>4 DEF SchedWrite
    <2>2. sched'.task = sched.task /\ sched'.candidates = sched.candidates /\ sched'.step = to
      BY <1>0, <2>1 DEF TypeOK
    <2>3. /\ db'[t].status = "None" => db[t].status = "None"
          /\ up
      BY <1>0, <1>4, <2>1 DEF TypeOK, SchedulerShape, IdleSched
    <2> QED
      BY <1>0, <1>4, <2>1, <2>2, <2>3, QuietSteps DEF Followed, Reachable, Admitting
  <1>5. ASSUME MarkFailed \/ MarkCreated \/ UpdateJobName PROVE Goal
    <2>1. sched.task \in Tasks /\ db[sched.task] \in Row
      BY <1>0, <1>5, SchedTask DEF MarkFailed, MarkCreated, UpdateJobName, SchedWrite, TypeOK
    <2>2. CASE MarkFailed
      <3>1. sched.task # t
        BY <1>0, <2>2 DEF MarkFailed, SchedWrite, Followed
      <3>2. [db[sched.task] EXCEPT !.status = "Failed"].status # "None"
        BY <2>1 DEF Row
      <3> QED
        BY <1>4, <2>2, <3>1, <3>2 DEF MarkFailed
    <2>3. CASE MarkCreated
      <3>2. [db[sched.task] EXCEPT !.status = "Created"].status # "None"
        BY <2>1 DEF Row
      <3> QED
        BY <1>4, <2>3, <3>2 DEF MarkCreated
    <2>4. CASE UpdateJobName
      <3>1. sched.step = "setJobName" /\ db[sched.task].status # "None"
        BY <1>0, <2>4 DEF UpdateJobName, SchedWrite, NamedIsDone
      <3>2. [db[sched.task] EXCEPT !.jobName = TRUE].status # "None"
        BY <2>1, <3>1 DEF Row
      <3> QED
        BY <1>4, <2>4, <3>2 DEF UpdateJobName
    <2> QED
      BY <1>5, <2>2, <2>3, <2>4
  <1>6. ASSUME AddQuota PROVE Goal
    <2>1. sched.task \in Tasks /\ Owner[sched.task] \in Accounts
      BY <1>0, <1>6, SchedTask DEF AddQuota
    <2>2. /\ sched'.task = sched.task /\ sched'.candidates = sched.candidates /\ sched'.step = "dequeue"
          /\ quotaInfos'[Owner[sched.task]] = AddTask(quotaInfos[Owner[sched.task]], sched.task)
      BY <1>0, <1>6, <2>1 DEF AddQuota, TypeOK
    <2>3. sched.task = t => t \in quotaInfos'[Owner[t]].UsedTasks
      BY <1>0, <2>1, <2>2, UsedTasksAfter DEF TypeOK
    <2> QED
      BY <1>0, <1>6, <2>2, <2>3, QuietSteps DEF AddQuota, Followed, Reachable, Admitting
  <1>7. ASSUME DequeueTask PROVE Goal
    <2>1. sched.task \in Tasks /\ Owner[sched.task] \in Accounts
      BY <1>0, <1>7, SchedTask DEF DequeueTask
    <2>2. /\ userQueues'[Owner[t]] \subseteq userQueues[Owner[t]]
          /\ sched.task = t => t \notin userQueues'[Owner[t]]
      BY <1>0, <1>7, <2>1 DEF DequeueTask, Dequeue, TypeOK
    <2>3. /\ sched'.candidates \subseteq sched.candidates /\ sched'.task = NoTask
          /\ sched.task \notin sched.candidates
      BY <1>0, <1>7 DEF DequeueTask, NextCandidate, IdleSched, SchedulerShape
    <2> QED
      BY <1>0, <1>7, <2>2, <2>3, QuietSteps DEF DequeueTask, Followed, Reachable, Admitting
  <1> HIDE DEF Goal
  <1>8. QED
    BY <1>1, <1>2, <1>3, <1>5, <1>6, <1>7 DEF Goal

\* The steps that move AIJobs and their events.
LEMMA FollowedCluster ==
    ASSUME IInv, LiveInv, Next, Faults = {}, NEW t \in Tasks \ Deletable
    PROVE  /\ Start => Followed(t)' /\ IsCounted(t)'
           /\ \A u \in Tasks : Cluster(u) => Followed(t)' /\ IsCounted(t)'
  <1>0. /\ TypeOK /\ Followed(t) /\ IsCounted(t) /\ Owner[t] \in Accounts /\ t # NoTask
    BY OwnerType, TasksAreNumbers DEF IInv, LiveInv, LiveJobsCounted, IsCounted, NoTask
  <1>1. ASSUME Start PROVE Followed(t)' /\ IsCounted(t)'
    <2>1. aijobs[t] = "None" /\ aijobs' = aijobs
      BY <1>0, <1>1 DEF Start, Followed
    <2>2. events'[t] = <<>>
      BY <1>1, <2>1 DEF Start, ListedEvents, NotifiedPhases
    <2>3. Followed(t)'
      BY <1>0, <1>1, <2>1, <2>2 DEF Start, Followed, Reachable, Ended
    <2> QED
      BY <2>1, <2>3 DEF IsCounted, Live
  <1>2. ASSUME NEW u \in Tasks, Cluster(u) PROVE Followed(t)' /\ IsCounted(t)'
    <2>1. /\ UNCHANGED <<DBVars, BootVars, userQueues, quotaInfos, submit, del, sched, watch, launched>>
          /\ aijobs'[t] = "None" <=> aijobs[t] = "None"
      BY <1>0, <1>2, ClusterSteps
    <2>2. /\ Ended(t) => Ended(t)'
          /\ Live(t)' => Live(t)
          /\ \A i \in DOMAIN events'[t] : IsCompletedStatus(events'[t][i]) => Ended(t)'
      <3>1. events \in [Tasks -> Seq(NotifiedPhases)] /\ aijobs \in [Tasks -> Phases]
        BY <1>0 DEF TypeOK
      <3>2. CASE Resync(u)
        <4>1. /\ aijobs' = aijobs /\ events'[t] = IF u = t THEN <<aijobs[t]>> ELSE events[t]
          BY <3>1, <3>2 DEF Resync
        <4>2. \A i \in DOMAIN <<aijobs[t]>> : <<aijobs[t]>>[i] = aijobs[t]
          OBVIOUS
        <4> QED
          BY <1>0, <4>1, <4>2 DEF Followed, Ended, Live, IsCompletedStatus
      <3>3. ASSUME NEW from, NEW to \in NotifiedPhases, PhaseChange(u, from, to),
                   from \subseteq {"Pending", "Running", "Preempted"}
            PROVE  /\ Ended(t) => Ended(t)'
                   /\ Live(t)' => Live(t)
                   /\ \A i \in DOMAIN events'[t] : IsCompletedStatus(events'[t][i]) => Ended(t)'
        <4>1. CASE u # t
          <5>1. aijobs'[t] = aijobs[t] /\ events'[t] = events[t]
            BY <3>1, <3>3, <4>1 DEF PhaseChange
          <5> QED
            BY <1>0, <5>1 DEF Followed, Ended, Live
        <4>2. CASE u = t
          <5>1. aijobs[t] \in from /\ aijobs'[t] = to
            BY <3>1, <3>3, <4>2 DEF PhaseChange
          <5>2. ~Ended(t) /\ Live(t)
            BY <3>3, <5>1 DEF Ended, Live, CompletedPhases
          <5>3. events'[t] \in {events[t], Append(events[t], to)}
            BY <3>1, <3>3, <4>2 DEF PhaseChange
          <5>4. \A i \in DOMAIN events[t] : ~IsCompletedStatus(events[t][i])
            BY <1>0, <5>2 DEF Followed
          <5>5. events[t] \in Seq(NotifiedPhases)
            BY <3>1
          <5>6. \A i \in DOMAIN Append(events[t], to) :
                  Append(events[t], to)[i] = to \/ (i \in DOMAIN events[t] /\ Append(events[t], to)[i] = events[t][i])
            BY <5>5
          <5>7. IsCompletedStatus(to) => Ended(t)'
            BY <5>1 DEF IsCompletedStatus, Ended
          <5> QED
            BY <5>2, <5>3, <5>4, <5>6, <5>7
        <4> QED
          BY <4>1, <4>2
      <3>4. CASE JobRuns(u)
        BY <3>3, <3>4 DEF JobRuns, NotifiedPhases
      <3>5. CASE JobPreempted(u)
        BY <3>3, <3>5 DEF JobPreempted, NotifiedPhases
      <3>6. CASE JobEnds(u)
        BY <3>3, <3>6 DEF JobEnds, NotifiedPhases, CompletedPhases
      <3> QED
        BY <1>2, <3>2, <3>4, <3>5, <3>6 DEF Cluster
    <2>3. Followed(t)'
      BY <1>0, <2>1, <2>2 DEF Followed, Reachable
    <2>4. IsCounted(t)'
      BY <1>0, <2>1, <2>2 DEF IsCounted, Admitting
    <2> QED
      BY <2>3, <2>4
  <1> QED
    BY <1>1, <1>2

\* While no call fails, every live AIJob of a task that nobody deletes is
\* counted, or is the one that the scheduler is just admitting.
THEOREM LiveJobsAreCounted ==
    ASSUME Faults = {}
    PROVE  Spec => []LiveJobsCounted
  <1>1. Init => LiveInv
    <2> SUFFICES ASSUME Init, NEW t \in Tasks \ Deletable PROVE Followed(t) /\ IsCounted(t)
      BY DEF LiveInv, LiveJobsCounted, IsCounted
    <2>1. Owner[t] \in Accounts /\ t # NoTask
      BY OwnerType, TasksAreNumbers DEF NoTask
    <2>2. Followed(t)
      BY <2>1 DEF Init, Followed, IdleDelete, IdleSched, Reachable
    <2> QED
      BY <2>2 DEF Init, IsCounted
  <1>2. IInv /\ LiveInv /\ [Next]_vars => LiveInv'
    <2>1. ASSUME IInv, LiveInv, Next, NEW t \in Tasks \ Deletable
          PROVE  Followed(t)' /\ IsCounted(t)'
      <3>1. ~Crash
        BY DEF Crash
      <3> QED
        BY <2>1, <3>1, StepCases, FollowedOthers, FollowedSchedule, FollowedCluster
    <2>2. CASE UNCHANGED vars
      BY <2>2 DEF vars, LiveInv, LiveJobsCounted, Followed, Reachable, Ended, Live, Admitting
    <2> QED
      BY <2>1, <2>2 DEF LiveInv, LiveJobsCounted, IsCounted
  <1>3. LiveInv => LiveJobsCounted
    BY DEF LiveInv
  <1> QED
    BY <1>1, <1>2, <1>3, Invariance, PTL DEF Spec

-----------------------------------------------------------------------------
(* The ledger of the controller *)

Counted == UNION {quotaInfos[a].UsedTasks : a \in Accounts}
Listed  == UNION {loading[a] : a \in Accounts}
Limit   == [a \in {b \in Accounts : quotaInfos[b].loaded} |-> quotaInfos[a].Hard]

\* An entry is made from the row of its account; the listing may fail.
Loads(a) ==
    /\ ~quotaInfos[a].loaded
    /\ quotaInfos' = [quotaInfos EXCEPT ![a] = NewQuotaInfo(deserved[a])]
    /\ \/ loading' = [loading EXCEPT ![a] = ListByUserAndStatuses(a, OccupiedStatuses)]
       \/ UNCHANGED loading
    /\ UNCHANGED deserved

\* A delete handler or the watcher takes t out of a filled entry.
Releases(t) ==
    /\ QuotaReady(Owner[t])
    /\ quotaInfos' = [quotaInfos EXCEPT ![Owner[t]] = DeleteTask(@, t)]
    /\ UNCHANGED <<loading, deserved>>

\* An administrator writes a quota, or nothing happens to quotas.
Requotes ==
    /\ UNCHANGED <<quotaInfos, loading>>
    /\ \/ UNCHANGED deserved
       \/ \E a \in Accounts, q \in QuotaChoices : deserved' = [deserved EXCEPT ![a] = q]

\* What a step can do to the cache and to the quotas.
LEMMA CacheSteps ==
    ASSUME TypeOK, Next
    PROVE  \/ Crash \/ AddQuota \/ Requotes
           \/ \E a \in Accounts : Loads(a)
           \/ \E a \in Accounts, t \in Tasks : LoadTask(a, t)
           \/ \E t \in Tasks : Releases(t)
  <1> DEFINE Goal == \/ Crash \/ AddQuota \/ Requotes
                     \/ \E a \in Accounts : Loads(a)
                     \/ \E a \in Accounts, t \in Tasks : LoadTask(a, t)
                     \/ \E t \in Tasks : Releases(t)
  <1> SUFFICES Goal
    OBVIOUS
  <1>0. ASSUME UNCHANGED <<quotaInfos, loading, deserved>> PROVE Goal
    BY <1>0 DEF Requotes
  <1>1. ASSUME NEW a \in Accounts, AddOrUpdateQuotaInfo(a) PROVE Goal
    BY <1>1 DEF AddOrUpdateQuotaInfo, Loads, DBVars
  <1>2. ASSUME NEW a \in Accounts, UpdateAccountQuota(a) PROVE Goal
    BY <1>2 DEF UpdateAccountQuota, Requotes, BootVars
  <1>3. ASSUME NEW a \in Accounts, InitUserQueue(a) \/ CreateAccount(a) PROVE Goal
    BY <1>0, <1>3 DEF InitUserQueue, CreateAccount, DBVars, BootVars
  <1>4. ASSUME NEW t \in Tasks, ReleaseQuota(t), UNCHANGED <<loading, deserved>> PROVE Goal
    BY <1>0, <1>4 DEF ReleaseQuota, Releases
  <1>5. ASSUME NEW t \in Tasks, DeleteQuota(t) PROVE Goal
    BY <1>4, <1>5 DEF DeleteQuota, DBVars, BootVars
  <1>6. ASSUME WatchRelease PROVE Goal
    <2>1. watch \in Tasks
      BY <1>6 DEF WatchRelease, TypeOK
    <2> QED
      BY <1>4, <1>6, <2>1 DEF WatchRelease, DBVars, BootVars
  <1>7. ASSUME NEW t \in Tasks,
               SubmitTask(t) \/ NotifyCreate(t) \/ DeleteBegin(t) \/ DeleteJob(t)
               \/ DeleteMark(t) \/ WatchReceive(t) \/ Cluster(t)
        PROVE  Goal
    BY <1>0, <1>7, ClusterSteps DEF SubmitTask, NotifyCreate, DeleteBegin, DeleteJob, DeleteMark,
                                    WatchReceive, DBVars, BootVars
  <1>8. ASSUME Start \/ Collect \/ Pick \/ CreateJobFromTask \/ MarkFailed \/ MarkCreated
               \/ UpdateJobName \/ DequeueTask
        PROVE  Goal
    BY <1>0, <1>8 DEF Start, Collect, Pick, CreateJobFromTask, MarkFailed, MarkCreated,
                      UpdateJobName, SchedWrite, DequeueTask, DBVars, BootVars
  <1> HIDE DEF Goal
  <1>9. ASSUME Crash \/ AddQuota \/ \E a \in Accounts, t \in Tasks : LoadTask(a, t) PROVE Goal
    BY <1>9 DEF Goal
  <1> QED
    BY StepCases, <1>1, <1>2, <1>3, <1>5, <1>6, <1>7, <1>8, <1>9

\* Who is counted and who is listed.
LEMMA InLedger ==
    /\ \A t : t \in Counted <=> \E a \in Accounts : t \in quotaInfos[a].UsedTasks
    /\ \A t : t \in Listed <=> \E a \in Accounts : t \in loading[a]
  BY DEF Counted, Listed

LEMMA InNewLedger ==
    /\ \A t : t \in Counted' <=> \E a \in Accounts : t \in quotaInfos'[a].UsedTasks
    /\ \A t : t \in Listed' <=> \E a \in Accounts : t \in loading'[a]
  BY DEF Counted, Listed

\* The page of an account in the ledger is its entry.
LEMMA OnePage ==
    ASSUME TypeOK, EntriesOwned, NEW a \in Accounts
    PROVE  /\ Counted \cap Ledger!Of(a) = quotaInfos[a].UsedTasks
           /\ Listed \cap Ledger!Of(a) = loading[a]
           /\ a \in DOMAIN Limit <=> quotaInfos[a].loaded
           /\ quotaInfos[a].loaded => Limit[a] = quotaInfos[a].Hard
           /\ Ledger!Ready(a) <=> QuotaReady(a)
  <1>1. quotaInfos[a].UsedTasks \subseteq Tasks /\ loading[a] \subseteq Tasks
    BY DEF TypeOK, IsQuotaInfo
  <1>2. \A t : t \in Ledger!Of(a) <=> t \in Tasks /\ Owner[t] = a
    BY DEF Ledger!Of
  <1>3. Counted \cap Ledger!Of(a) = quotaInfos[a].UsedTasks /\ Listed \cap Ledger!Of(a) = loading[a]
    BY <1>1, <1>2, InLedger DEF EntriesOwned
  <1>4. /\ a \in DOMAIN Limit <=> quotaInfos[a].loaded
        /\ quotaInfos[a].loaded => Limit[a] = quotaInfos[a].Hard
    BY DEF Limit
  <1> QED
    BY <1>3, <1>4 DEF Ledger!Ready, QuotaReady, Limit, Listed

\* A task of the account is written into its entry, or taken out.
LEMMA PageChanges ==
    ASSUME TypeOK, EntriesOwned, NEW t \in Tasks, NEW v,
           quotaInfos' = [quotaInfos EXCEPT ![Owner[t]] = v],
           v.Hard = quotaInfos[Owner[t]].Hard, v.loaded = quotaInfos[Owner[t]].loaded
    PROVE  /\ Limit' = Limit
           /\ v.UsedTasks = quotaInfos[Owner[t]].UsedTasks \cup {t} => Counted' = Counted \cup {t}
           /\ v.UsedTasks = quotaInfos[Owner[t]].UsedTasks \ {t} => Counted' = Counted \ {t}
  <1>1. Owner[t] \in Accounts
    BY OwnerType
  <1>2. \A b \in Accounts : quotaInfos'[b] = IF b = Owner[t] THEN v ELSE quotaInfos[b]
    BY <1>1, EntryUpdate
  <1>3. Limit' = Limit
    BY <1>1, <1>2 DEF Limit
  <1>4. \A b \in Accounts : t \in quotaInfos[b].UsedTasks => b = Owner[t]
    BY DEF EntriesOwned
  <1>5. ASSUME v.UsedTasks = quotaInfos[Owner[t]].UsedTasks \cup {t} PROVE Counted' = Counted \cup {t}
    BY <1>1, <1>2, <1>5, InLedger, InNewLedger
  <1>6. ASSUME v.UsedTasks = quotaInfos[Owner[t]].UsedTasks \ {t} PROVE Counted' = Counted \ {t}
    BY <1>1, <1>2, <1>4, <1>6, InLedger, InNewLedger
  <1> QED
    BY <1>3, <1>5, <1>6

\* Counting and releasing leave the limit of an entry alone.
LEMMA SameLimit ==
    ASSUME NEW info, IsQuotaInfo(info), NEW t \in Tasks
    PROVE  /\ AddTask(info, t).Hard = info.Hard /\ AddTask(info, t).loaded = info.loaded
           /\ DeleteTask(info, t).Hard = info.Hard /\ DeleteTask(info, t).loaded = info.loaded
  BY DEF IsQuotaInfo, AddTask, DeleteTask

\* An entry keeps to the tasks of its account.
LEMMA EntriesOwnedStep ==
    ASSUME TypeOK, SchedulerShape, QueuesLoaded, EntriesOwned, Next
    PROVE  EntriesOwned'
  <1>0. ASSUME UNCHANGED <<quotaInfos, loading>> PROVE EntriesOwned'
    BY <1>0 DEF EntriesOwned
  <1>1. CASE Crash
    BY <1>1 DEF Crash, EntriesOwned, NoQuotaInfo
  <1>2. ASSUME NEW t \in Tasks, NEW v, quotaInfos' = [quotaInfos EXCEPT ![Owner[t]] = v],
               v.UsedTasks \subseteq quotaInfos[Owner[t]].UsedTasks \cup {t},
               v.loaded, \A b \in Accounts : loading'[b] \subseteq loading[b]
        PROVE  EntriesOwned'
    <2>1. \A b \in Accounts : quotaInfos'[b] = IF b = Owner[t] THEN v ELSE quotaInfos[b]
      BY <1>2, OwnerType, EntryUpdate
    <2> QED
      BY <1>2, <2>1 DEF EntriesOwned
  <1>3. ASSUME NEW a \in Accounts, Loads(a) PROVE EntriesOwned'
    <2>1. \A b \in Accounts : quotaInfos'[b] = IF b = a THEN NewQuotaInfo(deserved[a]) ELSE quotaInfos[b]
      BY <1>3, EntryUpdate DEF Loads
    <2>2. NewQuotaInfo(deserved[a]).UsedTasks = {} /\ NewQuotaInfo(deserved[a]).loaded
      BY DEF NewQuotaInfo, NoQuotaInfo
    <2>3. \A b \in Accounts : loading'[b] = loading[b] \/ (b = a /\ loading'[b] \subseteq TasksOf(a))
      <3>1. ListByUserAndStatuses(a, OccupiedStatuses) \subseteq TasksOf(a)
        BY DEF ListByUserAndStatuses
      <3> PICK list : list = ListByUserAndStatuses(a, OccupiedStatuses)
        OBVIOUS
      <3>2. loading' = loading \/ loading' = [loading EXCEPT ![a] = list]
        BY <1>3 DEF Loads
      <3> QED
        BY <3>1, <3>2 DEF TypeOK
    <2> QED
      BY <2>1, <2>2, <2>3 DEF EntriesOwned, TasksOf
  <1>4. ASSUME NEW a \in Accounts, NEW t \in Tasks, LoadTask(a, t) PROVE EntriesOwned'
    <2>1. Owner[t] = a /\ quotaInfos[a].loaded /\ IsQuotaInfo(quotaInfos[a])
      BY <1>4 DEF EntriesOwned, LoadTask, TypeOK
    <2>2. quotaInfos' = [quotaInfos EXCEPT ![Owner[t]] = AddTask(quotaInfos[a], t)]
      BY <1>4, <2>1 DEF LoadTask
    <2>3. \A b \in Accounts : loading'[b] \subseteq loading[b]
      BY <1>4 DEF LoadTask, TypeOK
    <2> PICK v : v = AddTask(quotaInfos[a], t)
      OBVIOUS
    <2>4. v.loaded /\ v.UsedTasks = quotaInfos[Owner[t]].UsedTasks \cup {t}
      BY <2>1, SameLimit, UsedTasksAfter
    <2> QED
      BY <1>2, <2>2, <2>3, <2>4
  <1>5. CASE AddQuota
    <2>0. sched.task \in Tasks /\ Owner[sched.task] \in hasQueue
      BY <1>5, SchedTask DEF AddQuota
    <2> PICK t \in Tasks : t = sched.task
      BY <2>0
    <2>1. Owner[t] \in Accounts /\ Owner[t] \in hasQueue
      BY <2>0, OwnerType
    <2>2. quotaInfos[Owner[t]].loaded /\ IsQuotaInfo(quotaInfos[Owner[t]])
      BY <2>1 DEF QueuesLoaded, QuotaReady, TypeOK
    <2>3. quotaInfos' = [quotaInfos EXCEPT ![Owner[t]] = AddTask(quotaInfos[Owner[t]], t)]
      BY <1>5 DEF AddQuota
    <2>4. loading' = loading
      BY <1>5 DEF AddQuota, BootVars
    <2> PICK v : v = AddTask(quotaInfos[Owner[t]], t)
      OBVIOUS
    <2>5. v.loaded /\ v.UsedTasks = quotaInfos[Owner[t]].UsedTasks \cup {t}
      BY <2>2, SameLimit, UsedTasksAfter
    <2> QED
      BY <1>2, <2>3, <2>4, <2>5
  <1>6. ASSUME NEW t \in Tasks, Releases(t) PROVE EntriesOwned'
    <2>1. Owner[t] \in Accounts
      BY OwnerType
    <2>2. /\ quotaInfos[Owner[t]].loaded /\ IsQuotaInfo(quotaInfos[Owner[t]]) /\ loading' = loading
          /\ quotaInfos' = [quotaInfos EXCEPT ![Owner[t]] = DeleteTask(quotaInfos[Owner[t]], t)]
      BY <1>6, <2>1 DEF Releases, QuotaReady, TypeOK
    <2> PICK v : v = DeleteTask(quotaInfos[Owner[t]], t)
      OBVIOUS
    <2>3. v.loaded /\ v.UsedTasks = quotaInfos[Owner[t]].UsedTasks \ {t}
      BY <2>2, SameLimit, UsedTasksAfter
    <2> QED
      BY <1>2, <2>2, <2>3
  <1> QED
    BY CacheSteps, <1>0, <1>1, <1>3, <1>4, <1>5, <1>6 DEF Requotes

\* LedgerInv holds beside IInv.
LEMMA LedgerInvariance == Spec => [](IInv /\ LedgerInv)
  <1>1. Init => EntriesOwned
    BY DEF Init, EntriesOwned, NoQuotaInfo
  <1>2. IInv /\ EntriesOwned /\ [Next]_vars => EntriesOwned'
    <2>1. CASE UNCHANGED vars
      BY <2>1 DEF vars, EntriesOwned
    <2> QED
      BY <2>1, EntriesOwnedStep DEF IInv
  <1>3. IInv /\ CountedAreFinite /\ QuotaAccounting /\ EntriesOwned => IInv /\ LedgerInv
    BY DEF LedgerInv
  <1> QED
    BY <1>1, <1>2, <1>3, Invariance, EntriesAreExact, PTL DEF Spec

\* A task that is counted in its entry, or released from it, in the ledger.
LEMMA CountedChanges ==
    ASSUME TypeOK, EntriesOwned, NEW t \in Tasks
    PROVE  /\ quotaInfos' = [quotaInfos EXCEPT ![Owner[t]] = AddTask(quotaInfos[Owner[t]], t)]
                 => Limit' = Limit /\ Counted' = Counted \cup {t}
           /\ quotaInfos' = [quotaInfos EXCEPT ![Owner[t]] = DeleteTask(quotaInfos[Owner[t]], t)]
                 => Limit' = Limit /\ Counted' = Counted \ {t}
  <1>1. IsQuotaInfo(quotaInfos[Owner[t]])
    BY OwnerType DEF TypeOK
  <1> PICK added : added = AddTask(quotaInfos[Owner[t]], t)
    OBVIOUS
  <1> PICK deleted : deleted = DeleteTask(quotaInfos[Owner[t]], t)
    OBVIOUS
  <1>2. /\ added.UsedTasks = quotaInfos[Owner[t]].UsedTasks \cup {t}
        /\ added.Hard = quotaInfos[Owner[t]].Hard /\ added.loaded = quotaInfos[Owner[t]].loaded
    BY <1>1, SameLimit, UsedTasksAfter
  <1>3. /\ deleted.UsedTasks = quotaInfos[Owner[t]].UsedTasks \ {t}
        /\ deleted.Hard = quotaInfos[Owner[t]].Hard /\ deleted.loaded = quotaInfos[Owner[t]].loaded
    BY <1>1, SameLimit, UsedTasksAfter
  <1>4. quotaInfos' = [quotaInfos EXCEPT ![Owner[t]] = added]
           => Limit' = Limit /\ Counted' = Counted \cup {t}
    BY <1>2, PageChanges
  <1>5. quotaInfos' = [quotaInfos EXCEPT ![Owner[t]] = deleted]
           => Limit' = Limit /\ Counted' = Counted \ {t}
    BY <1>3, PageChanges
  <1> QED
    BY <1>4, <1>5

\* What the scheduler counts fits, by what the counted tasks request.
LEMMA AdmissionFits ==
    ASSUME IInv, LedgerInv, IInv', LedgerInv', AddQuota, SLO[sched.task] = HighSLO
    PROVE  FitsQuota(quotaInfos[Owner[sched.task]].Hard,
                     {t \in quotaInfos[Owner[sched.task]].UsedTasks : SLO[t] = HighSLO} \cup {sched.task})
  <1> DEFINE a == Owner[sched.task]
  <1>1. sched.task \in Tasks /\ a \in Accounts
    BY SchedTask DEF IInv, AddQuota
  <1>2. IsQuotaInfo(quotaInfos[a]) /\ IsQuotaInfo(quotaInfos'[a])
    BY <1>1 DEF IInv, TypeOK
  <1>3. ~CheckHardQuotaExceed(quotaInfos[a], sched.task)
    BY DEF IInv, CheckStillHolds, Admitting, AddQuota
  <1>4. quotaInfos'[a] = AddTask(quotaInfos[a], sched.task)
    BY <1>1 DEF AddQuota, IInv, TypeOK
  <1> PICK old : old = quotaInfos[a]
    OBVIOUS
  <1> PICK new : new = quotaInfos'[a]
    OBVIOUS
  <1>5. WithinHard(new.Hard, new.HardUsed)
    BY <1>1, <1>2, <1>3, <1>4, AddedFits
  <1>6. new.Hard = old.Hard /\ new.UsedTasks = old.UsedTasks \cup {sched.task}
    BY <1>1, <1>2, <1>4, SameLimit, UsedTasksAfter
  <1>7. {t \in new.UsedTasks : SLO[t] = HighSLO} = {t \in old.UsedTasks : SLO[t] = HighSLO} \cup {sched.task}
    BY <1>6
  <1>8. Accounted(new)
    BY <1>1 DEF LedgerInv, QuotaAccounting
  <1>9. ASSUME NEW k \in Resources
        PROVE  Quantity(SumRequests({t \in new.UsedTasks : SLO[t] = HighSLO}), k) <= Quantity(new.Hard, k)
    <2>1. Quantity(SumRequests({t \in new.UsedTasks : SLO[t] = HighSLO}), k) = Quantity(new.HardUsed, k)
      BY <1>8 DEF Accounted
    <2>2. Quantity(new.HardUsed, k) <= Quantity(new.Hard, k)
      BY <1>2, <1>5 DEF WithinHard, Quantity, IsQuotaInfo, IsNatResourceList
    <2> QED
      BY <2>1, <2>2
  <1> QED
    BY <1>6, <1>7, <1>9 DEF FitsQuota

\* A task is admitted to the ledger when the scheduler counts it.
LEMMA AddQuotaAdmits ==
    ASSUME IInv, LedgerInv, IInv', LedgerInv', AddQuota
    PROVE  Ledger!Next \/ UNCHANGED Ledger!vars
  <1>0. sched.task \in Tasks /\ Owner[sched.task] \in hasQueue
    BY SchedTask DEF IInv, AddQuota
  <1> PICK t \in Tasks : t = sched.task
    BY <1>0
  <1> DEFINE a == Owner[t]
  <1>1. a \in Accounts /\ a \in hasQueue
    BY <1>0, OwnerType
  <1>2. IsQuotaInfo(quotaInfos[a]) /\ QuotaReady(a) /\ TypeOK /\ EntriesOwned
    BY <1>1 DEF IInv, TypeOK, QueuesLoaded, LedgerInv
  <1>3. /\ quotaInfos' = [quotaInfos EXCEPT ![a] = AddTask(quotaInfos[a], t)]
        /\ UNCHANGED <<loading, deserved>>
    BY DEF AddQuota, DBVars, BootVars
  <1>4. Limit' = Limit /\ Counted' = Counted \cup {t} /\ Listed' = Listed
    <2>1. TypeOK /\ EntriesOwned /\ Listed' = Listed
      BY <1>2, <1>3 DEF Listed
    <2>2. quotaInfos' = [quotaInfos EXCEPT ![Owner[t]] = AddTask(quotaInfos[Owner[t]], t)]
      BY <1>3
    <2> HIDE DEF a
    <2> QED
      BY <2>1, <2>2, CountedChanges
  <1>5. CASE t \in Counted
    BY <1>3, <1>4, <1>5 DEF Ledger!vars, Limit, Counted, Listed
  <1>6. CASE t \notin Counted
    <2>1. Counted \cap Ledger!Of(a) = quotaInfos[a].UsedTasks /\ Limit[a] = quotaInfos[a].Hard
          /\ Ledger!Ready(a)
      BY <1>1, <1>2, OnePage DEF QuotaReady
    <2>2. (Counted \cap Ledger!Of(a) \cap {u \in Tasks : SLO[u] = HighSLO})
             = {u \in quotaInfos[a].UsedTasks : SLO[u] = HighSLO}
      BY <1>2, <2>1 DEF IsQuotaInfo
    <2>3. SLO[t] = HighSLO =>
            FitsQuota(Limit[a], (Counted \cap Ledger!Of(a) \cap {u \in Tasks : SLO[u] = HighSLO}) \cup {t})
      BY <2>1, <2>2, AdmissionFits
    <2>4. Ledger!Admit(t)
      BY <1>1, <1>3, <1>4, <1>6, <2>1, <2>3 DEF Ledger!Admit, Limit, Counted, Listed
    <2> QED
      BY <1>1, <2>4 DEF Ledger!Next
  <1> QED
    BY <1>5, <1>6

\* The loop over the listed tasks enters them.
LEMMA LoadEnters ==
    ASSUME IInv, LedgerInv, NEW a \in Accounts, NEW t \in Tasks, LoadTask(a, t)
    PROVE  Ledger!Next
  <1>1. IsQuotaInfo(quotaInfos[a]) /\ TypeOK /\ EntriesOwned
    BY DEF IInv, TypeOK, LedgerInv
  <1>2. Owner[t] = a /\ t \in loading[a]
    BY <1>1 DEF EntriesOwned, LoadTask
  <1>3. /\ quotaInfos' = [quotaInfos EXCEPT ![Owner[t]] = AddTask(quotaInfos[a], t)]
        /\ loading' = [loading EXCEPT ![a] = loading[a] \ {t}] /\ UNCHANGED deserved
    BY <1>2 DEF LoadTask, DBVars
  <1>4. Limit' = Limit /\ Counted' = Counted \cup {t}
    BY <1>1, <1>2, <1>3, CountedChanges
  <1>5. \A b \in Accounts : loading'[b] = IF b = a THEN loading[a] \ {t} ELSE loading[b]
    BY <1>1, <1>3 DEF TypeOK
  <1>6. \A b \in Accounts : t \in loading[b] => b = a
    BY <1>1, <1>2 DEF EntriesOwned
  <1>7. Listed' = Listed \ {t} /\ t \in Listed
    BY <1>2, <1>5, <1>6, InLedger, InNewLedger
  <1>8. Ledger!Enter(t)
    BY <1>3, <1>4, <1>7 DEF Ledger!Enter, Limit, Counted, Listed
  <1> QED
    BY <1>8 DEF Ledger!Next

\* A release takes the task out of the ledger, if it is there.
LEMMA ReleaseReleases ==
    ASSUME IInv, LedgerInv, NEW t \in Tasks, Releases(t)
    PROVE  Ledger!Next \/ UNCHANGED Ledger!vars
  <1>1. Owner[t] \in Accounts /\ TypeOK /\ EntriesOwned
    BY OwnerType DEF IInv, LedgerInv
  <1>2. IsQuotaInfo(quotaInfos[Owner[t]])
    BY <1>1 DEF TypeOK
  <1>3. /\ quotaInfos' = [quotaInfos EXCEPT ![Owner[t]] = DeleteTask(quotaInfos[Owner[t]], t)]
        /\ UNCHANGED <<loading, deserved>>
    BY DEF Releases
  <1>4. Limit' = Limit /\ Counted' = Counted \ {t} /\ Listed' = Listed
    BY <1>1, <1>2, <1>3, CountedChanges DEF Listed
  <1>5. Ledger!Ready(Owner[t])
    BY <1>1, OnePage DEF Releases
  <1>6. CASE t \in Counted
    <2>1. Ledger!Release(t)
      BY <1>3, <1>4, <1>5, <1>6 DEF Ledger!Release, Limit, Counted, Listed
    <2> QED
      BY <2>1 DEF Ledger!Next
  <1>7. CASE t \notin Counted
    BY <1>3, <1>4, <1>7 DEF Ledger!vars, Limit, Counted, Listed
  <1> QED
    BY <1>6, <1>7

\* An entry that is made opens a ledger, with the tasks that were listed.
LEMMA LoadOpens ==
    ASSUME IInv, LedgerInv, NEW a \in Accounts, Loads(a)
    PROVE  Ledger!Next
  <1>1. TypeOK /\ EntriesOwned
    BY DEF IInv, LedgerInv
  <1>2. \A b \in Accounts : quotaInfos'[b] = IF b = a THEN NewQuotaInfo(deserved[a]) ELSE quotaInfos[b]
    BY <1>1, EntryUpdate DEF Loads
  <1>3. /\ NewQuotaInfo(deserved[a]).loaded /\ NewQuotaInfo(deserved[a]).Hard = deserved[a]
        /\ NewQuotaInfo(deserved[a]).UsedTasks = {}
    BY DEF NewQuotaInfo, NoQuotaInfo
  <1>4. quotaInfos[a].UsedTasks = {} /\ loading[a] = {} /\ ~quotaInfos[a].loaded
    BY <1>1 DEF EntriesOwned, NoQuotaInfo, Loads
  <1>5. Counted' = Counted
    BY <1>2, <1>3, <1>4, InLedger, InNewLedger
  <1>6. Limit' = [b \in DOMAIN Limit \cup {a} |-> IF b = a THEN deserved[a] ELSE Limit[b]]
    BY <1>2, <1>3 DEF Limit
  <1>7. \E found \in SUBSET Ledger!Of(a) : Listed' = Listed \cup found
    <2>1. loading'[a] \subseteq Ledger!Of(a)
      BY <1>1, <1>4 DEF Loads, TypeOK, ListByUserAndStatuses, TasksOf, Ledger!Of
    <2>2. \A b \in Accounts : b # a => loading'[b] = loading[b]
      BY <1>1 DEF Loads, TypeOK
    <2>3. Listed' = Listed \cup loading'[a]
      BY <1>4, <2>2, InLedger, InNewLedger
    <2> QED
      BY <2>1, <2>3
  <1>8. a \notin DOMAIN Limit
    BY <1>4 DEF Limit
  <1>9. Ledger!Open(a)
    BY <1>5, <1>6, <1>7, <1>8 DEF Ledger!Open, Loads, Limit, Counted, Listed
  <1> QED
    BY <1>9 DEF Ledger!Next

\* A crash loses all ledgers.
LEMMA CrashLoses == Crash => Ledger!Lose
  <1> SUFFICES ASSUME Crash PROVE Ledger!Lose
    OBVIOUS
  <1>1. \A a \in Accounts : ~quotaInfos'[a].loaded /\ quotaInfos'[a].UsedTasks = {} /\ loading'[a] = {}
    BY DEF Crash, NoQuotaInfo
  <1>2. Counted' = {} /\ Listed' = {}
    BY <1>1, InNewLedger
  <1>3. Limit' = [a \in {} |-> {}]
    BY <1>1 DEF Limit
  <1>4. deserved' = deserved
    BY DEF Crash, DBVars
  <1> QED
    BY <1>2, <1>3, <1>4 DEF Ledger!Lose, Ledger!Closed, Limit, Counted, Listed

\* Every step of the controller is one of the ledger, or leaves it alone.
LEMMA LedgerStep ==
    ASSUME IInv, LedgerInv, IInv', LedgerInv', [Next]_vars
    PROVE  [Ledger!Next]_(Ledger!vars)
  <1> SUFFICES Ledger!Next \/ UNCHANGED Ledger!vars
    OBVIOUS
  <1>1. CASE UNCHANGED vars
    BY <1>1 DEF vars, Ledger!vars
  <1>2. CASE Requotes
    <2>1. CASE UNCHANGED deserved
      BY <1>2, <2>1 DEF Requotes, Ledger!vars
    <2>2. ASSUME NEW a \in Accounts, NEW q \in QuotaChoices, deserved' = [deserved EXCEPT ![a] = q]
          PROVE  Ledger!Next
      <3>1. Ledger!SetQuota(a, q)
        BY <1>2, <2>2 DEF Requotes, Ledger!SetQuota
      <3> QED
        BY <3>1 DEF Ledger!Next
    <2> QED
      BY <1>2, <2>1, <2>2 DEF Requotes
  <1>3. CASE Crash
    BY <1>3, CrashLoses DEF Ledger!Next
  <1>4. CASE Next
    <2>1. TypeOK
      BY DEF IInv
    <2> QED
      BY <1>2, <1>3, <1>4, <2>1, CacheSteps, AddQuotaAdmits, LoadEnters, LoadOpens, ReleaseReleases
  <1> QED
    BY <1>1, <1>4

\* The controller implements the ledger: what the scheduler checks, creates and
\* counts in five steps is one admission that fits, for all tasks, requests,
\* quotas and accounts, whichever calls fail and whenever the process crashes.
THEOREM AdmissionIsAtomic == Spec => KeepsLedger
  <1>1. Init => Ledger!Init
    <2> SUFFICES ASSUME Init PROVE Ledger!Init
      OBVIOUS
    <2>1. Counted = {} /\ Listed = {} /\ Limit = [a \in {} |-> {}]
      BY DEF Init, NoQuotaInfo, Counted, Listed, Limit
    <2>2. deserved \in [Accounts -> QuotaChoices \cup {InitQuota}]
      BY DEF Init
    <2> QED
      BY <2>1, <2>2 DEF Ledger!Init, Ledger!Closed, Counted, Listed, Limit
  <1>2. (IInv /\ LedgerInv) /\ (IInv /\ LedgerInv)' /\ [Next]_vars => [Ledger!Next]_(Ledger!vars)
    BY LedgerStep
  <1> QED
    BY <1>1, <1>2, LedgerInvariance, PTL DEF Spec, KeepsLedger, Ledger!Spec
=============================================================================
