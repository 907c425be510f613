------------------------- MODULE CountingSemProofs -------------------------
(***************************************************************************)
(* Proofs about CountingSem, for every number of children and of tokens.   *)
(***************************************************************************)
EXTENDS CountingSem, FiniteSetTheorems, TLAPS

-----------------------------------------------------------------------------
(* How the numbers of children in a state change.                          *)

States == {"none", "work", "posted", "exited", "aborted", "reaped"}

In(states) == {c \in Children : child[c] \in states}

LEMMA CountFacts ==
  ASSUME NEW states
  PROVE  /\ IsFiniteSet(In(states))
         /\ Count(states) = Cardinality(In(states))
         /\ Count(states) \in Nat /\ Count(states) <= max_child
         /\ Count(states) = max_child => In(states) = Children
         /\ Count(states) = 0 => In(states) = {}
<1>1. IsFiniteSet(Children) /\ Cardinality(Children) = max_child
  BY FS_Interval, CountingSemAssumption DEF Children
<1>2. In(states) \in SUBSET Children
  BY DEF In
<1>3. /\ IsFiniteSet(In(states)) /\ Cardinality(In(states)) <= max_child
      /\ Cardinality(In(states)) = max_child => In(states) = Children
  BY <1>1, <1>2, FS_Subset
<1>4. Count(states) = Cardinality(In(states))
  BY DEF Count, In
<1>5. Cardinality(In(states)) \in Nat
  BY <1>3, FS_CardinalityType
<1>6. Cardinality(In(states)) = 0 => In(states) = {}
  BY <1>3, FS_EmptySet
<1> QED
  BY <1>3, <1>4, <1>5, <1>6

\* One child goes from one state to another.
LEMMA CountMove ==
  ASSUME NEW states, NEW c \in Children, NEW to,
         child \in [Children -> States], child' = [child EXCEPT ![c] = to]
  PROVE  Count(states)' = Count(states) - One(child[c] \in states) + One(to \in states)
<1> DEFINE Others == In(states) \ {c}
<1>1. IsFiniteSet(In(states)) /\ Count(states) = Cardinality(In(states))
  BY CountFacts
<1>2. IsFiniteSet(Others) /\ c \notin Others /\ Cardinality(Others) \in Nat
  BY <1>1, FS_Subset, FS_CardinalityType
<1>3. Cardinality(Others \cup {c}) = Cardinality(Others) + 1
  BY <1>2, FS_AddElement
<1>4. In(states) = IF child[c] \in states THEN Others \cup {c} ELSE Others
  BY DEF In
<1>5. In(states)' = IF to \in states THEN Others \cup {c} ELSE Others
  BY DEF In
<1>6. Count(states)' = Cardinality(In(states)')
  BY DEF Count, In
<1>7. Count(states) = Cardinality(Others) + One(child[c] \in states)
  BY <1>1, <1>2, <1>3, <1>4 DEF One
<1>8. Count(states)' = Cardinality(Others) + One(to \in states)
  BY <1>2, <1>3, <1>5, <1>6 DEF One
<1> QED
  BY <1>2, <1>7, <1>8 DEF One

LEMMA CountNat ==
  ASSUME NEW states
  PROVE  Count(states)' \in Nat
<1>1. In(states)' \in SUBSET Children /\ IsFiniteSet(Children)
  BY FS_Interval, CountingSemAssumption DEF In, Children
<1>2. IsFiniteSet(In(states)') /\ Count(states)' = Cardinality(In(states)')
  BY <1>1, FS_Subset DEF Count, In
<1> QED
  BY <1>2, FS_CardinalityType

Working == Count({"work", "aborted"})

Dead == Count({"exited", "aborted"})

Gone == Count({"reaped"})

LEMMA Numbers ==
  /\ Working \in Nat /\ Dead \in Nat /\ Gone \in Nat /\ Gone <= max_child
  /\ Lost \in {0, 1}
  /\ Gone = max_child => \A c \in Children : child[c] = "reaped"
  /\ Dead # 0 => Zombies # {}
<1>1. /\ Working \in Nat /\ Dead \in Nat /\ Gone \in Nat /\ Gone <= max_child
      /\ Gone = max_child => In({"reaped"}) = Children
  BY CountFacts DEF Working, Dead, Gone
<1>2. Dead = Cardinality(In({"exited", "aborted"}))
  BY CountFacts DEF Dead
<1>3. In({"exited", "aborted"}) = Zombies
  BY DEF In, Zombies
<1>4. Dead # 0 => Zombies # {}
  BY <1>2, <1>3, FS_EmptySet
<1> QED
  BY <1>1, <1>4 DEF In, Lost, One

LEMMA Stays ==
  ASSUME UNCHANGED <<child, program>>
  PROVE  /\ Working' = Working /\ Dead' = Dead
         /\ Gone' = Gone /\ Lost' = Lost
BY DEF Working, Dead, Gone, Lost, Count, One

LEMMA Moves ==
  ASSUME NEW c \in Children, NEW to \in States,
         child \in [Children -> States], child' = [child EXCEPT ![c] = to],
         program' = program
  PROVE  /\ Working' = Working - One(child[c] \in {"work", "aborted"})
                              + One(to \in {"work", "aborted"})
         /\ Dead' = Dead - One(child[c] \in {"exited", "aborted"})
                        + One(to \in {"exited", "aborted"})
         /\ Gone' = Gone - One(child[c] \in {"reaped"}) + One(to \in {"reaped"})
         /\ \/ program = "named"
            \/ c # Quitter
            \/ child[c] \notin {"exited", "reaped"} /\ to \notin {"exited", "reaped"}
            => Lost' = Lost
<1>1. \/ program = "named"
      \/ c # Quitter
      \/ child[c] \notin {"exited", "reaped"} /\ to \notin {"exited", "reaped"}
      => Lost' = Lost
  BY DEF Lost, One
<1> QED
  BY <1>1, CountMove DEF Working, Dead, Gone

\* The moves of child c there are, and what they do to the numbers.
LEMMA MoveTable ==
  ASSUME NEW c \in Children, NEW to \in States,
         child \in [Children -> States], child' = [child EXCEPT ![c] = to],
         program' = program
  PROVE  /\ child[c] = "none" /\ to = "work" =>
              Working' = Working + 1 /\ Dead' = Dead /\ Gone' = Gone /\ Lost' = Lost
         /\ child[c] = "work" /\ to = "posted" =>
              Working' = Working - 1 /\ Dead' = Dead /\ Gone' = Gone /\ Lost' = Lost
         /\ child[c] = "work" /\ to = "aborted" =>
              Working' = Working /\ Dead' = Dead + 1 /\ Gone' = Gone /\ Lost' = Lost
         /\ child[c] = "work" /\ to = "exited" =>
              Working' = Working - 1 /\ Dead' = Dead + 1 /\ Gone' = Gone
         /\ child[c] = "posted" /\ to = "exited" =>
              Working' = Working /\ Dead' = Dead + 1 /\ Gone' = Gone
         /\ child[c] = "exited" /\ to = "reaped" =>
              Working' = Working /\ Dead' = Dead - 1 /\ Gone' = Gone + 1
         /\ child[c] = "aborted" /\ to = "reaped" =>
              Working' = Working - 1 /\ Dead' = Dead - 1 /\ Gone' = Gone + 1
         /\ program = "named" \/ c # Quitter => Lost' = Lost
<1>1. /\ Working \in Nat /\ Dead \in Nat /\ Gone \in Nat
  BY Numbers
<1>2. /\ Working' = Working - One(child[c] \in {"work", "aborted"})
                           + One(to \in {"work", "aborted"})
      /\ Dead' = Dead - One(child[c] \in {"exited", "aborted"})
                     + One(to \in {"exited", "aborted"})
      /\ Gone' = Gone - One(child[c] \in {"reaped"}) + One(to \in {"reaped"})
      /\ ((\/ program = "named"
           \/ c # Quitter
           \/ child[c] \notin {"exited", "reaped"} /\ to \notin {"exited", "reaped"})
           => Lost' = Lost)
  BY Moves
<1> QED
  BY <1>1, <1>2 DEF One

-----------------------------------------------------------------------------
(* The inductive invariant.                                                *)

\* Children are created in their order.
Started ==
  /\ mpc \in {"wait", "create"} => i < max_child
  /\ \A c \in Children : c >= i => child[c] = "none"

\* Threads raise no SIGCHLD and are joined; processes are waited for.
Programs ==
  /\ program = "nameless" =>
       /\ pend = FALSE /\ hpc = "idle" /\ mpc \notin {"poll", "spin", "stuck"}
       /\ empty = 0
  /\ program = "named" => mpc # "join"

\* Tokens, with the children at work by their name here.
Total ==
  sem + Working + Lost + One(mpc \in {"create", "failed"}) + One(hpc = "post")

TokensInv == start <= Total /\ Total <= start + empty

\* For the signal that is pending and for the handler's call, and for every call
\* that found nobody, there is a dead child or the news of a stop or continue.
Enough ==
  /\ empty + One(pend) + One(hpc = "waitpid") <= Dead + news
  /\ empty <= news

\* cur_child counts the children that check_abrt has not seen to the end, less
\* one for every call that found nobody.
Counted ==
  program = "named" =>
    cur_child = max_child - Gone - empty + One(hpc \in {"post", "count", "exit"})

AllGone == mpc = "done" => hpc = "idle" /\ Gone + empty >= max_child

IInv ==
  /\ TypeOK /\ Started /\ Programs
  /\ TokensInv /\ Enough /\ Counted /\ AllGone

-----------------------------------------------------------------------------
(* Main's steps keep it.                                                   *)

LEMMA MainMoves ==
  ASSUME IInv, main_sem_wait \/ main_create_fails \/ main_poll \/ main_spin
  PROVE  IInv'
<1>1. /\ Working' = Working /\ Dead' = Dead /\ Gone' = Gone /\ Lost' = Lost
      /\ UNCHANGED <<chosen, i, child, handler, stops>> /\ hpc = "idle"
  <2>1. /\ UNCHANGED <<child, program>> /\ hpc = "idle"
        /\ UNCHANGED <<chosen, i, child, handler, stops>>
    BY DEF main_sem_wait, main_create_fails, main_poll, main_spin, MainAt, chosen
  <2> QED
    BY <2>1, Stays
<1>2. /\ Working \in Nat /\ Dead \in Nat /\ Gone \in Nat /\ Gone <= max_child
      /\ Lost \in {0, 1}
  BY Numbers DEF Lost, One
<1>3. TypeOK' /\ TokensInv'
  <2>1. CASE main_sem_wait
    <3>1. TypeOK'
      BY <2>1, CountingSemAssumption
         DEF main_sem_wait, MainAt, chosen, handler, stops, IInv, TypeOK
    <3>2. TokensInv'
      BY <1>1, <1>2, <2>1
         DEF main_sem_wait, MainAt, chosen, handler, stops, IInv, TypeOK, TokensInv, Total, One
    <3> QED
      BY <3>1, <3>2
  <2>2. CASE main_create_fails
    BY <1>1, <1>2, <2>2
       DEF main_create_fails, MainAt, chosen, handler, stops, IInv, TypeOK, TokensInv, Total, One
  <2>3. CASE main_poll
    BY <1>1, <1>2, <2>3
       DEF main_poll, MainAt, chosen, handler, stops, IInv, TypeOK, TokensInv, Total, One
  <2>4. CASE main_spin
    BY <1>1, <1>2, <2>4
       DEF main_spin, MainAt, chosen, handler, stops, IInv, TypeOK, TokensInv, Total, One
  <2> QED
    BY <2>1, <2>2, <2>3, <2>4
<1>4. Started' /\ Programs'
  BY <1>1 DEF main_sem_wait, main_create_fails, main_poll, main_spin, MainAt,
              chosen, handler, stops, IInv, TypeOK, Started, Programs
<1>5. Enough' /\ Counted'
  BY <1>1 DEF chosen, handler, stops, IInv, Enough, Counted, One
<1>6. AllGone'
  BY <1>1, <1>2, CountingSemAssumption
     DEF main_sem_wait, main_create_fails, main_poll, main_spin, MainAt,
         Polled, chosen, handler, stops, IInv, TypeOK, Programs, Counted, AllGone, One
<1> QED
  BY <1>3, <1>4, <1>5, <1>6 DEF IInv

\* The token that main took is the new child's.
LEMMA MainCreates ==
  ASSUME IInv, main_create
  PROVE  IInv'
<1>1. /\ i \in Children /\ child[i] = "none" /\ "work" \in States
      /\ child \in [Children -> States]
      /\ child' = [child EXCEPT ![i] = "work"] /\ program' = program
  BY CountingSemAssumption
     DEF main_create, MainAt, chosen, IInv, TypeOK, Started, Children, States
<1>2. /\ Working' = Working + 1 /\ Dead' = Dead /\ Gone' = Gone /\ Lost' = Lost
      /\ Working \in Nat /\ Dead \in Nat /\ Gone \in Nat /\ Lost \in {0, 1}
  BY <1>1, MoveTable, Numbers
<1>3. TypeOK'
  BY <1>1, CountingSemAssumption
     DEF main_create, MainAt, chosen, handler, stops, IInv, TypeOK, Children, States
<1>4. Started'
  BY <1>1, CountingSemAssumption
     DEF main_create, MainAt, IInv, TypeOK, Started, Children
<1>5. Programs'
  BY DEF main_create, MainAt, chosen, handler, stops, IInv, TypeOK, Programs
<1>6. TokensInv'
  BY <1>2 DEF main_create, MainAt, chosen, handler, stops, IInv, TypeOK, TokensInv, Total, One
<1>7. Enough' /\ Counted' /\ AllGone'
  BY <1>2 DEF main_create, MainAt, chosen, handler, stops, IInv, Enough, Counted, AllGone, One
<1> QED
  BY <1>3, <1>4, <1>5, <1>6, <1>7 DEF IInv

LEMMA MainJoins ==
  ASSUME IInv, main_join
  PROVE  IInv'
<1>1. /\ Working = 0 /\ Working' = 0 /\ Dead' \in Nat
  <2>1. In({"work", "aborted"}) = {} /\ In({"work", "aborted"})' = {}
    BY DEF main_join, In
  <2>2. Working = Cardinality({}) /\ Working' = Cardinality({})
    BY <2>1 DEF Working, Count, In
  <2>3. Dead' \in Nat
    <3>1. In({"exited", "aborted"})' = {}
      BY DEF main_join, In
    <3>2. Dead' = Cardinality({})
      BY <3>1 DEF Dead, Count, In
    <3> QED
      BY <3>2, FS_EmptySet
  <2> QED
    BY <2>2, <2>3, FS_EmptySet
<1>2. Gone' = max_child
  <2>1. In({"reaped"})' = Children
    BY DEF main_join, In
  <2>2. Gone' = Cardinality(Children)
    BY <2>1 DEF Gone, Count, In
  <2> QED
    BY <2>2, FS_Interval, CountingSemAssumption DEF Children
<1>3. Lost' = Lost
  BY DEF main_join, chosen, Lost, One
<1>4. TypeOK' /\ Started' /\ Programs'
  BY CountingSemAssumption
     DEF main_join, MainAt, chosen, handler, stops, IInv, TypeOK, Started, Programs, Children
<1>5. TokensInv'
  BY <1>1, <1>3 DEF main_join, MainAt, chosen, handler, stops, IInv, TokensInv, Total, One
<1>6. Enough' /\ Counted'
  <2>1. program = "nameless" /\ program' = program /\ empty = 0
    BY DEF main_join, MainAt, chosen, IInv, TypeOK, Programs
  <2>2. empty' = 0 /\ news' \in Nat
    BY <2>1, CountingSemAssumption DEF main_join, handler, stops, IInv, TypeOK
  <2>3. One(pend)' = 0 /\ One(hpc = "waitpid")' = 0
    BY <2>1 DEF main_join, MainAt, handler, IInv, Programs, One
  <2>4. \A d, e \in Nat : 0 <= d + e
    OBVIOUS
  <2>5. Enough'
    BY <1>1, <2>2, <2>3, <2>4 DEF Enough
  <2>6. Counted'
    BY <2>1 DEF Counted
  <2> QED
    BY <2>5, <2>6
<1>7. AllGone'
  BY <1>2, CountingSemAssumption
     DEF main_join, MainAt, handler, IInv, TypeOK, AllGone
<1> QED
  BY <1>4, <1>5, <1>6, <1>7 DEF IInv

-----------------------------------------------------------------------------
(* The children's steps keep it.                                           *)

LEMMA ChildPosts ==
  ASSUME IInv, NEW c \in Children, child_sem_post(c)
  PROVE  IInv'
<1>1. /\ child[c] = "work" /\ c # Quitter /\ child \in [Children -> States]
      /\ child' = [child EXCEPT ![c] = "posted"] /\ program' = program
      /\ "posted" \in States
  BY DEF child_sem_post, chosen, IInv, TypeOK, States
<1>2. /\ Working' = Working - 1 /\ Dead' = Dead /\ Gone' = Gone /\ Lost' = Lost
      /\ Working \in Nat /\ Dead \in Nat /\ Gone \in Nat /\ Lost \in {0, 1}
  BY <1>1, MoveTable, Numbers
<1>3. Working' \in Nat
  BY CountNat DEF Working
<1>4. TokensInv'
  <2>1. /\ start \in Nat /\ sem \in Nat /\ empty \in Nat
        /\ UNCHANGED <<start, mpc, hpc, empty>> /\ sem' = sem + 1
    BY DEF child_sem_post, chosen, handler, IInv, TypeOK
  <2> QED
    BY <1>2, <1>3, <2>1 DEF IInv, TokensInv, Total, One
<1>5. TypeOK'
  BY <1>1, <1>4 DEF child_sem_post, chosen, handler, stops, IInv, TypeOK, States
<1>6. Started' /\ Programs'
  BY <1>1 DEF child_sem_post, chosen, handler, stops, IInv, TypeOK, Started, Programs
<1>7. Enough' /\ Counted' /\ AllGone'
  BY <1>2 DEF child_sem_post, chosen, handler, stops, IInv, Enough, Counted, AllGone, One
<1> QED
  BY <1>4, <1>5, <1>6, <1>7 DEF IInv

\* A child that was there dies: exit(), or abort() of the aborted one.
LEMMA ChildDies ==
  ASSUME IInv, NEW c \in Children, child_exit(c) \/ child_abort(c)
  PROVE  IInv'
<1> PICK how \in {"exited", "aborted"} :
      /\ program = "named" /\ Dies(c, how)
      /\ child[c] = IF how = "exited" THEN "posted" ELSE "work"
  BY DEF child_exit, child_abort
<1>1. /\ child \in [Children -> States] /\ how \in States
      /\ child' = [child EXCEPT ![c] = how] /\ program' = program
  BY DEF Dies, chosen, IInv, TypeOK, States
<1>2. /\ Working' = Working /\ Dead' = Dead + 1 /\ Gone' = Gone /\ Lost' = Lost
      /\ Working \in Nat /\ Dead \in Nat /\ Gone \in Nat /\ Lost \in {0, 1}
  BY <1>1, MoveTable, Numbers
<1>3. TypeOK'
  BY <1>1 DEF Dies, MainGone, chosen, stops, IInv, TypeOK, States
<1>4. Started' /\ Programs'
  BY <1>1 DEF Dies, chosen, IInv, TypeOK, Started, Programs
<1>5. TokensInv' /\ Counted'
  BY <1>2 DEF Dies, chosen, IInv, TokensInv, Total, Counted, One
<1>6. Enough'
  BY <1>2, CountingSemAssumption DEF Dies, MainGone, stops, IInv, TypeOK, Enough, One
<1>7. AllGone'
  BY <1>2 DEF Dies, IInv, AllGone
<1> QED
  BY <1>3, <1>4, <1>5, <1>6, <1>7 DEF IInv

LEMMA ChildReturns ==
  ASSUME IInv, NEW c \in Children, child_return(c)
  PROVE  IInv'
<1>1. /\ child \in [Children -> States] /\ "exited" \in States
      /\ child' = [child EXCEPT ![c] = "exited"] /\ program' = program
      /\ program = "nameless"
  BY DEF child_return, chosen, IInv, TypeOK, States
<1>2. /\ Dead' = Dead + 1 /\ Gone' = Gone
      /\ \/ Working' = Working - 1 /\ Lost' = Lost + 1
         \/ Working' = Working /\ Lost' = Lost
      /\ Working \in Nat /\ Dead \in Nat /\ Gone \in Nat /\ Lost \in {0, 1}
      /\ Lost' \in {0, 1}
  <2>1. /\ Working \in Nat /\ Dead \in Nat /\ Gone \in Nat /\ Lost \in {0, 1}
        /\ Lost' \in {0, 1}
    BY Numbers DEF Lost, One
  <2>2. CASE c = Quitter
    <3>1. child[c] = "work" /\ child'[c] = "exited"
      BY <1>1, <2>2 DEF child_return
    <3>2. Lost = 0 /\ Lost' = 1
      BY <1>1, <2>2, <3>1 DEF Lost, One
    <3>3. Working' = Working - 1 /\ Dead' = Dead + 1 /\ Gone' = Gone
      BY <1>1, <3>1, MoveTable
    <3> QED
      BY <2>1, <3>2, <3>3
  <2>3. CASE c # Quitter
    <3>1. child[c] = "posted"
      BY <2>3 DEF child_return
    <3> QED
      BY <1>1, <2>1, <2>3, <3>1, MoveTable
  <2> QED
    BY <2>2, <2>3
<1>3. TypeOK'
  BY <1>1 DEF child_return, chosen, handler, stops, IInv, TypeOK, States
<1>4. Started' /\ Programs'
  <2>1. child[c] # "none"
    BY DEF child_return
  <2> QED
    BY <1>1, <2>1 DEF child_return, chosen, handler, stops, IInv, TypeOK, Started, Programs
<1>5. TokensInv'
  <2>1. /\ sem \in Nat /\ start \in Nat /\ empty \in Nat
        /\ UNCHANGED <<start, sem, mpc, hpc, empty>>
    BY DEF child_return, chosen, handler, IInv, TypeOK
  <2> QED
    BY <1>2, <2>1 DEF IInv, TokensInv, Total, One
<1>6. Enough' /\ Counted' /\ AllGone'
  BY <1>2, CountingSemAssumption
     DEF child_return, chosen, handler, stops, IInv, TypeOK, Enough, Counted, AllGone, One
<1> QED
  BY <1>3, <1>4, <1>5, <1>6 DEF IInv

\* The news of a stop or a continue.
LEMMA ChildNews ==
  ASSUME IInv, NEW c \in Children, child_stop(c) \/ child_continue(c)
  PROVE  IInv'
<1>1. /\ program = "named" /\ news + 1 \in 0 .. MaxNews /\ news' = news + 1
      /\ pend' = ~MainGone /\ stopped' \subseteq Children
      /\ UNCHANGED <<program, start, hoisted, sem, mpc, i, child>>
      /\ UNCHANGED <<hpc, cur_child, merged, empty>>
  BY CountingSemAssumption DEF child_stop, child_continue, News, chosen, IInv, TypeOK
<1>2. /\ Working' = Working /\ Dead' = Dead /\ Gone' = Gone /\ Lost' = Lost
      /\ Dead \in Nat
  BY <1>1, Stays, Numbers
<1>3. pend' \in BOOLEAN
  BY <1>1 DEF MainGone
<1>4. TypeOK'
  BY <1>1, <1>3 DEF IInv, TypeOK
<1>5. Started' /\ Programs'
  BY <1>1 DEF IInv, Started, Programs
<1>6. Enough'
  BY <1>1, <1>2, <1>3 DEF IInv, TypeOK, Enough, One
<1>7. TokensInv' /\ Counted' /\ AllGone'
  BY <1>1, <1>2 DEF IInv, TokensInv, Total, Counted, AllGone, One
<1> QED
  BY <1>4, <1>5, <1>6, <1>7 DEF IInv

-----------------------------------------------------------------------------
(* check_abrt's steps keep it.                                             *)

\* The signal becomes the call, and with it the dead child that is there for it.
LEMMA HandlerCalled ==
  ASSUME IInv, check_abrt
  PROVE  IInv'
<1>1. /\ Working' = Working /\ Dead' = Dead /\ Gone' = Gone /\ Lost' = Lost
      /\ pend = TRUE /\ pend' = FALSE /\ hpc = "idle" /\ hpc' = "waitpid"
      /\ UNCHANGED <<program, start, hoisted, sem, mpc, i, child>>
      /\ UNCHANGED <<cur_child, merged, empty, stopped, news>>
  <2>1. /\ pend = TRUE /\ pend' = FALSE /\ hpc = "idle" /\ hpc' = "waitpid"
        /\ UNCHANGED <<program, start, hoisted, sem, mpc, i, child>>
        /\ UNCHANGED <<cur_child, merged, empty, stopped, news>>
    BY DEF check_abrt, chosen, stops, IInv, TypeOK
  <2> QED
    BY <2>1, Stays
<1>2. TypeOK' /\ Started' /\ Programs'
  BY <1>1 DEF IInv, TypeOK, Started, Programs
<1>3. TokensInv' /\ Enough' /\ Counted'
  BY <1>1, Numbers, CountingSemAssumption
     DEF IInv, TypeOK, TokensInv, Total, Enough, Counted, One
<1>4. AllGone'
  BY <1>1 DEF check_abrt, MainGone, AllGone
<1> QED
  BY <1>2, <1>3, <1>4 DEF IInv

\* An aborted child's token is owed by the handler from here on.
LEMMA HandlerReaps ==
  ASSUME IInv, check_abrt_waitpid
  PROVE  IInv'
<1> PICK c \in Zombies :
      child' = [child EXCEPT ![c] = "reaped"] /\ hpc' = Reaped(c)
  BY DEF check_abrt_waitpid
<1>1. /\ c \in Children /\ child[c] \in {"exited", "aborted"}
      /\ hpc' = IF child[c] = "aborted" THEN "post" ELSE "count"
      /\ child \in [Children -> States] /\ "reaped" \in States
      /\ child' = [child EXCEPT ![c] = "reaped"]
  BY DEF Zombies, Reaped, IInv, TypeOK, States
<1>2. /\ hpc = "waitpid" /\ program = "named"
      /\ UNCHANGED <<program, start, hoisted, sem, mpc, i, pend>>
      /\ UNCHANGED <<cur_child, merged, empty, stopped, news>>
  BY DEF check_abrt_waitpid, chosen, stops, IInv, TypeOK, Programs
<1>3. /\ Dead' = Dead - 1 /\ Gone' = Gone + 1 /\ Lost' = Lost
      /\ child[c] = "aborted" => Working' = Working - 1
      /\ child[c] = "exited" => Working' = Working
      /\ Working \in Nat /\ Dead \in Nat /\ Gone \in Nat /\ Lost \in {0, 1}
  BY <1>1, <1>2, MoveTable, Numbers
<1>4. TypeOK' /\ Started' /\ Programs'
  BY <1>1, <1>2 DEF IInv, TypeOK, States, Started, Programs
<1>5. TokensInv'
  <2>1. start \in Nat /\ sem \in Nat
    BY DEF IInv, TypeOK
  <2>2. CASE child[c] = "aborted"
    BY <1>1, <1>2, <1>3, <2>1, <2>2 DEF IInv, TokensInv, Total, One
  <2>3. CASE child[c] = "exited"
    BY <1>1, <1>2, <1>3, <2>1, <2>3 DEF IInv, TokensInv, Total, One
  <2> QED
    BY <1>1, <2>2, <2>3
<1>6. Enough'
  BY <1>1, <1>2, <1>3, CountingSemAssumption DEF IInv, TypeOK, Enough, One
<1>7. Counted'
  BY <1>1, <1>2, <1>3, CountingSemAssumption DEF IInv, TypeOK, Counted, One
<1>8. AllGone'
  BY <1>2 DEF IInv, AllGone
<1> QED
  BY <1>4, <1>5, <1>6, <1>7, <1>8 DEF IInv

\* Nobody is dead: the status is unset, or no child is left.
LEMMA HandlerFindsNobody ==
  ASSUME IInv, check_abrt_nothing \/ check_abrt_fails
  PROVE  IInv'
<1>1. /\ hpc = "waitpid" /\ hpc' \in {"post", "count", "exit"}
      /\ empty' = empty + 1 /\ empty \in Nat /\ news \in Nat
      /\ UNCHANGED <<program, start, hoisted, sem, mpc, i, child, pend>>
      /\ UNCHANGED <<cur_child, merged, stopped, news>>
      /\ program = "named" /\ mpc # "done"
  BY CountingSemAssumption
     DEF check_abrt_nothing, check_abrt_fails, chosen, stops, IInv, TypeOK, Programs, AllGone
<1>2. /\ Working' = Working /\ Dead' = Dead /\ Gone' = Gone /\ Lost' = Lost
      /\ Working \in Nat /\ Dead = 0 /\ Gone \in Nat /\ Lost \in {0, 1}
  <2>1. Zombies = {}
    BY DEF check_abrt_nothing, check_abrt_fails, Left, Zombies
  <2> QED
    BY <1>1, <2>1, Stays, Numbers
<1>3. TypeOK' /\ Started' /\ Programs'
  BY <1>1 DEF IInv, TypeOK, Started, Programs
<1>4. TokensInv'
  <2>1. start \in Nat /\ sem \in Nat
    BY DEF IInv, TypeOK
  <2>2. One(hpc = "post") = 0 /\ One(hpc' = "post") \in {0, 1}
    BY <1>1 DEF One
  <2>3. One(mpc \in {"create", "failed"}) \in {0, 1}
    BY DEF One
  <2>4. Total' = Total + One(hpc' = "post")
    BY <1>1, <1>2, <2>1, <2>2, <2>3 DEF Total
  <2>5. Total \in Nat
    BY <1>2, <2>1, <2>2, <2>3 DEF Total
  <2> HIDE DEF Total
  <2> QED
    BY <1>1, <2>1, <2>2, <2>4, <2>5 DEF IInv, TokensInv
<1>5. Enough'
  BY <1>1, <1>2 DEF IInv, TypeOK, Enough, One
<1>6. Counted'
  BY <1>1, <1>2, CountingSemAssumption DEF IInv, TypeOK, Counted, One
<1>7. AllGone'
  BY <1>1 DEF AllGone
<1> QED
  BY <1>3, <1>4, <1>5, <1>6, <1>7 DEF IInv

LEMMA HandlerEnds ==
  ASSUME IInv, check_abrt_post \/ check_abrt_count
  PROVE  IInv'
<1>1. /\ Working' = Working /\ Dead' = Dead /\ Gone' = Gone /\ Lost' = Lost
      /\ UNCHANGED <<program, start, hoisted, mpc, i, child, pend, merged, empty, stopped, news>>
      /\ program = "named" /\ mpc # "done"
  <2>1. /\ UNCHANGED <<program, start, hoisted, mpc, i, child, pend, merged, empty, stopped, news>>
        /\ program = "named" /\ mpc # "done"
    BY DEF check_abrt_post, check_abrt_count, chosen, stops,
           IInv, TypeOK, Programs, AllGone
  <2> QED
    BY <2>1, Stays
<1>2. /\ Working \in Nat /\ Dead \in Nat /\ Gone \in Nat /\ Gone <= max_child
      /\ Lost \in {0, 1}
  BY Numbers
<1>3. CASE check_abrt_post
  <2>1. /\ hpc = "post" /\ hpc' = "count" /\ sem' = sem + 1 /\ cur_child' = cur_child
        /\ start \in Nat /\ sem \in Nat /\ empty \in Nat
    BY <1>3 DEF check_abrt_post, IInv, TypeOK
  <2>2. TokensInv'
    BY <1>1, <1>2, <2>1 DEF IInv, TokensInv, Total, One
  <2>3. TypeOK' /\ Started' /\ Programs'
    BY <1>1, <2>1, <2>2 DEF IInv, TypeOK, Started, Programs
  <2>4. Enough' /\ Counted' /\ AllGone'
    BY <1>1, <2>1 DEF IInv, Enough, Counted, AllGone, One
  <2> QED
    BY <2>2, <2>3, <2>4 DEF IInv
<1>4. CASE check_abrt_count
  <2>1. /\ hpc = "count" /\ hpc' = "idle" /\ sem' = sem
        /\ cur_child' = cur_child - 1 /\ cur_child \in Int
        /\ max_child \in Nat
    BY <1>4, CountingSemAssumption DEF check_abrt_count, IInv, TypeOK
  <2>2. Counted' /\ cur_child' \in Int
    BY <1>1, <1>2, <2>1 DEF IInv, TypeOK, Counted, One
  <2>3. TypeOK' /\ Started' /\ Programs'
    BY <1>1, <2>1, <2>2 DEF IInv, TypeOK, Started, Programs
  <2>4. TokensInv' /\ Enough' /\ AllGone'
    BY <1>1, <2>1 DEF IInv, TokensInv, Total, Enough, AllGone, One
  <2> QED
    BY <2>2, <2>3, <2>4 DEF IInv
<1> QED
  BY <1>3, <1>4

-----------------------------------------------------------------------------
(* The theorems.                                                           *)

LEMMA InitIInv == Init => IInv
<1> SUFFICES ASSUME Init
             PROVE  IInv
  OBVIOUS
<1>1. Working = 0 /\ Dead = 0 /\ Gone = 0 /\ Lost = 0
  <2>1. /\ In({"work", "aborted"}) = {} /\ In({"exited", "aborted"}) = {}
        /\ In({"reaped"}) = {}
    BY DEF Init, In
  <2>2. Working = Cardinality({}) /\ Dead = Cardinality({}) /\ Gone = Cardinality({})
    BY <2>1 DEF Working, Dead, Gone, Count, In
  <2>3. Lost = 0
    BY DEF Init, Lost, One
  <2> QED
    BY <2>2, <2>3, FS_EmptySet
<1>2. TypeOK
  <2>1. hoisted \in BOOLEAN
    BY Zenon DEF Init
  <2>2. 0 \in 0 .. max_child /\ 0 \in 0 .. MaxNews /\ max_child \in Int
    BY CountingSemAssumption
  <2> QED
    <3>1. pend \in BOOLEAN /\ merged \in BOOLEAN
      BY DEF Init
    <3>2. start \in 0 .. N /\ sem \in Nat /\ i \in 0 .. max_child
      BY <2>2, CountingSemAssumption DEF Init
    <3>3. cur_child \in Int /\ news \in 0 .. MaxNews /\ empty \in Nat
      BY <2>2 DEF Init
    <3> QED
      BY <2>1, <3>1, <3>2, <3>3 DEF Init, TypeOK
<1>3. Started /\ Programs /\ AllGone
  BY CountingSemAssumption DEF Init, Started, Programs, AllGone
<1>4. TokensInv /\ Enough
  BY <1>1 DEF Init, TokensInv, Total, Enough, One
<1>5. Counted
  BY <1>1, CountingSemAssumption DEF Init, Counted, One
<1> QED
  BY <1>2, <1>3, <1>4, <1>5 DEF IInv

LEMMA NextIInv == IInv /\ [Next]_vars => IInv'
<1> SUFFICES ASSUME IInv, [Next]_vars
             PROVE  IInv'
  OBVIOUS
<1>1. CASE Main
  BY <1>1, MainMoves, MainCreates, MainJoins DEF Main
<1>2. CASE Handler
  BY <1>2, HandlerCalled, HandlerReaps, HandlerFindsNobody, HandlerEnds DEF Handler
<1>3. ASSUME NEW c \in Children, Child(c)
      PROVE  IInv'
  BY <1>3, ChildPosts, ChildDies, ChildReturns DEF Child
<1>4. ASSUME NEW c \in Children, child_stop(c) \/ child_continue(c)
      PROVE  IInv'
  BY <1>4, ChildNews
<1>5. CASE UNCHANGED vars
  <2>1. /\ UNCHANGED <<program, start, hoisted, sem, mpc, i, child>>
        /\ UNCHANGED <<pend, hpc, cur_child, merged, empty, stopped, news>>
    BY <1>5 DEF vars, chosen, handler, stops
  <2>2. Working' = Working /\ Dead' = Dead /\ Gone' = Gone /\ Lost' = Lost
    BY <2>1, Stays
  <2> QED
    BY <2>1, <2>2 DEF IInv, TypeOK, Started, Programs, TokensInv, Total, Enough, Counted,
                      AllGone, One
<1> QED
  BY <1>1, <1>2, <1>3, <1>4, <1>5 DEF Next

LEMMA Invariance == Spec => []IInv
BY InitIInv, NextIInv, PTL DEF Spec

\* Whatever the number of children and of tokens, however SIGCHLDs merge and
\* whoever is stopped: every token is in the semaphore, with main, with a child,
\* owed by check_abrt, or lost with thread 11, and there are no more new ones
\* than calls of check_abrt that found nobody.
THEOREM TokenConservationCorrect == Spec => []TokenConservation
<1>1. IInv => TokenConservation
  <2> SUFFICES ASSUME IInv
               PROVE  TokenConservation
    OBVIOUS
  <2>1. Tokens = Total
    BY DEF Tokens, Total, Working
  <2>2. Total \in Nat
    BY Numbers DEF Total, One, IInv, TypeOK
  <2>3. start \in Nat /\ empty \in Nat
    BY DEF IInv, TypeOK
  <2> QED
    BY <2>1, <2>2, <2>3 DEF IInv, TokensInv, TokenConservation
<1> QED
  BY <1>1, Invariance, PTL

\* check_abrt's waitpid finds nobody at most as often as children were stopped
\* or continued: a death always leaves its handler call a dead child.
THEOREM EmptyCallsAreNewsCorrect == Spec => []EmptyCallsAreNews
<1>1. IInv => EmptyCallsAreNews
  <2> SUFFICES ASSUME IInv
               PROVE  EmptyCallsAreNews
    OBVIOUS
  <2>1. /\ empty \in Nat /\ news \in Nat /\ Dead \in Nat /\ pend \in BOOLEAN
        /\ Dead # 0 => Zombies # {}
    BY Numbers, CountingSemAssumption DEF IInv, TypeOK
  <2>2. CASE hpc = "waitpid" /\ Zombies = {}
    <3>1. Dead = 0 /\ empty + One(pend) + 1 <= Dead + news
      BY <2>1, <2>2 DEF IInv, Enough, One
    <3> QED
      BY <2>1, <2>2, <3>1 DEF EmptyCallsAreNews, One
  <2>3. CASE ~(hpc = "waitpid" /\ Zombies = {})
    BY <2>1, <2>3 DEF IInv, Enough, EmptyCallsAreNews, One
  <2> QED
    BY <2>2, <2>3
<1> QED
  BY <1>1, Invariance, PTL

\* When main is done, no more children are unreaped than calls of check_abrt
\* found nobody; without such calls every token is back, that of thread 11
\* excepted: cur_child is exact however signals and main interleave.
THEOREM CleanEndCorrect == Spec => []CleanEnd
<1>1. IInv => CleanEnd
  <2> SUFFICES ASSUME IInv, mpc = "done"
               PROVE  /\ Gone + empty >= max_child
                      /\ empty = 0 => sem + Lost = start
    BY DEF CleanEnd, Gone
  <2>1. hpc = "idle" /\ Gone + empty >= max_child
    BY DEF IInv, AllGone
  <2>2. ASSUME empty = 0
        PROVE  Working = 0
    <3>1. Gone = max_child
      BY <2>1, <2>2, Numbers, CountingSemAssumption
    <3>2. \A c \in Children : child[c] = "reaped"
      BY <3>1, Numbers
    <3>3. In({"work", "aborted"}) = {}
      BY <3>2 DEF In
    <3>4. Working = Cardinality({})
      BY <3>3 DEF Working, Count, In
    <3> QED
      BY <3>4, FS_EmptySet
  <2>3. sem \in Nat /\ Lost \in {0, 1} /\ start \in Nat
    BY Numbers DEF IInv, TypeOK
  <2> QED
    BY <2>1, <2>2, <2>3 DEF IInv, TokensInv, Total, One
<1> QED
  BY <1>1, Invariance, PTL

=============================================================================
