-------------------------- MODULE ResumeInfoProofs --------------------------
(***************************************************************************)
(* For every tree of components: a saved state goes to the component that  *)
(* saved it, and exactly the leaves that were named go on.  The second     *)
(* rests on where the interrupts of a run are: a component is interrupted  *)
(* when one it has to run is, so that what a run saved is closed under     *)
(* parents, and a component that is done has brought home all that was     *)
(* saved inside it.                                                        *)
(***************************************************************************)
EXTENDS ResumeInfo, NestedResume, TLAPS

Types ==
  /\ saved \subseteq Component
  /\ info \in [addr : SUBSET Component, state : SUBSET Component, used : SUBSET Component,
               data : SUBSET Component, dataUsed : SUBSET Component]
  /\ pc \in [Component -> {"out", "load", "ready", "done", "interrupted", "failed"}]
  /\ got \in [Component -> {"nil", "empty", "state"}]
  /\ target \in [Component -> BOOLEAN]
  /\ fresh \subseteq Component
  /\ again \subseteq Component
  /\ loaded \subseteq Component

\* Where the components of a run are.
Inside(n) ==
  n # Root /\ pc[n] # "out" =>
    n \in Wanted(Parent[n]) /\ pc[Parent[n]] \notin {"out", "load"}

RunOver(n) ==
  pc[n] \in Over => \A m \in Wanted(n) : pc[m] \in Over /\ (pc[n] = "done" => pc[m] = "done")

\* What was saved is closed under parents.
SavedUp == \A n \in saved \ {Root} : Parent[n] \in saved

\* The run has loaded what was saved, except at its start.
InfoKept ==
  /\ info.addr \subseteq saved
  /\ info.used \subseteq info.addr
  /\ info.dataUsed \subseteq info.used
  /\ pc[Root] = "load" => info.used = {} /\ \A n \in Component \ {Root} : pc[n] = "out"
  /\ pc[Root] # "load" => saved \ {Root} \subseteq info.addr
  /\ loaded \subseteq info.used \union {Root}
  /\ info.addr # {} => \E m \in loaded : info.state = Kept(m)

\* All that was saved at n, or inside it, has been taken, and was named if it
\* is the root cause.
Home(n) == n \in saved => n \in info.used /\ (n \in Leaf => n \in info.data)
HomeBelow(n) == \A m \in Below[n] : Home(m)

CameHome(n) ==
  /\ pc[n] = "done" => HomeBelow(n) /\ (n # Root => Home(n))
  /\ n \in fresh /\ pc[n] # "out" => HomeBelow(n)
  /\ n \in again => HomeBelow(n)
  /\ n \in info.used /\ pc[n] = "out" => HomeBelow(n) /\ Home(n)

\* What a component got when it was entered.
GotRight(n) ==
  /\ n # Root /\ pc[n] # "out" /\ n \in saved => n \in info.used
  /\ n # Root /\ pc[n] = "load" => got[n] = "state" /\ n \in info.used
  /\ got[n] = "empty" =>
       pc[n] \in {"out", "failed"} /\ \E m \in loaded : n \notin Below[m] \union {m}
  /\ Entered(n) /\ got[n] = "nil" => Home(n)
  /\ n \in Leaf /\ Entered(n) /\ got[n] # "nil" => (target[n] <=> n \in info.data)
  /\ Entered(n) => \A q \in again : n \in Below[q] => got[n] = "nil" /\ ~target[n]

IInv ==
  /\ Types /\ SavedUp /\ InfoKept
  /\ \A n \in Component : Inside(n) /\ RunOver(n) /\ CameHome(n) /\ GotRight(n)

-----------------------------------------------------------------------------
(* The tree. *)

\* What is inside a component: its children, what is inside those, and nothing
\* that a set closed under children leaves out.
LEMMA BelowChildren ==
  ASSUME NEW n \in Component, NEW m \in Children(n)
  PROVE  m \in Below[n]
BY DEF Below, Children

\* A child of a component below is below.
LEMMA BelowDown ==
  ASSUME NEW n \in Component, NEW k \in Below[n], NEW m \in Children(k)
  PROVE  m \in Below[n]
<1>1. m \in Component
  BY DEF Children
<1>2. ASSUME NEW S \in SUBSET Component, Children(n) \subseteq S, \A j \in S : Children(j) \subseteq S
      PROVE  m \in S
  <2>1. k \in S
    BY <1>2 DEF Below
  <2> QED BY <1>2, <2>1
<1> QED BY <1>1, <1>2 DEF Below

\* No set closed under children has less.
LEMMA BelowLeast ==
  ASSUME NEW n \in Component, NEW S \in SUBSET Component, Children(n) \subseteq S,
         \A k \in S : Children(k) \subseteq S
  PROVE  Below[n] \subseteq S
BY DEF Below

\* What is below is components.
LEMMA BelowIn ==
  ASSUME NEW n \in Component PROVE Below[n] \in SUBSET Component
BY DEF Below

\* Below a component below is nothing else.
LEMMA BelowBelow ==
  ASSUME NEW n \in Component, NEW k \in Below[n]
  PROVE  Below[k] \subseteq Below[n]
<1>1. k \in Component /\ Below[n] \in SUBSET Component
  BY BelowIn
<1>2. Children(k) \subseteq Below[n] /\ \A j \in Below[n] : Children(j) \subseteq Below[n]
  BY BelowDown
<1> QED BY <1>1, <1>2, BelowLeast

\* Below is a child, or below one.
LEMMA BelowSplit ==
  ASSUME NEW n \in Component, NEW m \in Below[n]
  PROVE  m \in Children(n) \/ \E c \in Children(n) : m \in Below[c]
<1> DEFINE S == {k \in Component : k \in Children(n) \/ \E c \in Children(n) : k \in Below[c]}
<1>1. Children(n) \subseteq S
  BY DEF Children
<1>2. ASSUME NEW k \in S, NEW j \in Children(k) PROVE j \in S
  <2>1. j \in Component
    BY DEF Children
  <2>2. CASE k \in Children(n)
    <3>1. j \in Below[k]
      BY BelowChildren
    <3> QED BY <2>1, <2>2, <3>1
  <2>3. ASSUME NEW c \in Children(n), k \in Below[c] PROVE j \in S
    <3>1. c \in Component
      BY DEF Children
    <3>2. j \in Below[c]
      BY <2>3, <3>1, BelowDown
    <3> QED BY <2>1, <3>2
  <2> QED BY <2>2, <2>3
<1>3. Below[n] \subseteq S
  BY <1>1, <1>2, BelowLeast
<1> QED BY <1>3

\* Below a component is no component whose parent is elsewhere, and not the root.
LEMMA BelowParent ==
  ASSUME NEW n \in Component, NEW m \in Below[n]
  PROVE  m # Root /\ (Parent[m] = n \/ Parent[m] \in Below[n])
<1> DEFINE S == {k \in Below[n] : k # Root /\ (Parent[k] = n \/ Parent[k] \in Below[n])}
<1>1. S \in SUBSET Component
  BY BelowIn
<1>2. Children(n) \subseteq S
  BY BelowChildren DEF Children
<1>3. ASSUME NEW k \in S, NEW j \in Children(k) PROVE j \in S
  BY BelowDown DEF Children
<1>4. Below[n] \subseteq S
  <2> HIDE DEF S
  <2> QED BY <1>1, <1>2, <1>3, BelowLeast
<1> QED BY <1>4

\* Every component but the root is a child of its parent.
LEMMA ParentOf ==
  ASSUME NEW n \in Component, n # Root
  PROVE  Parent[n] \in Component /\ n \in Children(Parent[n]) /\ n \in Below[Parent[n]]
<1>1. Parent[n] \in Component
  BY ResumeAssumption
<1>2. n \in Children(Parent[n])
  BY DEF Children
<1> QED BY <1>1, <1>2, BelowChildren

\* Where something was saved inside a component, the component was saved.
LEMMA SavedBelow ==
  ASSUME SavedUp, NEW n \in Component, NEW m \in Below[n], m \in saved
  PROVE  n \in saved
<1> DEFINE S == {k \in Component : k \in saved => n \in saved}
<1>1. Children(n) \subseteq S
  BY DEF Children, SavedUp
<1>2. ASSUME NEW k \in S, NEW j \in Children(k) PROVE j \in S
  BY DEF Children, SavedUp
<1>3. Below[n] \subseteq S
  <2>1. S \in SUBSET Component
    OBVIOUS
  <2> HIDE DEF S
  <2> QED BY <1>1, <1>2, <2>1, BelowLeast
<1> QED BY <1>3

\* A component all of whose insides that were to run are done has brought home
\* what was saved there.
LEMMA DoneBelow ==
  ASSUME IInv, NEW n \in Component, pc[n] # "out", \A m \in Wanted(n) : pc[m] = "done"
  PROVE  HomeBelow(n)
<1>1. CASE n \in fresh
  BY <1>1 DEF IInv, CameHome
<1>2. CASE n \notin fresh
  <2> SUFFICES ASSUME NEW m \in Below[n], m \in saved PROVE Home(m)
    BY DEF HomeBelow, Home
  <2>1. ASSUME NEW c \in Children(n), c \in saved
        PROVE  c \in Component /\ c # Root /\ pc[c] = "done"
    BY <1>2, <2>1 DEF Wanted, Children
  <2>2. ASSUME NEW c \in Children(n), c \in saved PROVE Home(c) /\ HomeBelow(c)
    BY <2>1, <2>2 DEF IInv, CameHome
  <2>3. ASSUME NEW c \in Children(n), m \in Below[c] PROVE c \in saved
    <3>1. c \in Component
      BY DEF Children
    <3> QED BY <2>3, <3>1, SavedBelow DEF IInv
  <2> QED BY <2>2, <2>3, BelowSplit DEF HomeBelow
<1> QED BY <1>1, <1>2

-----------------------------------------------------------------------------
(* The steps. *)

\* What came home stays there.
LEMMA HomeKept ==
  ASSUME saved' = saved, info.used \subseteq info'.used, info'.data = info.data,
         NEW n \in Component
  PROVE  /\ Home(n) => Home(n)'
         /\ HomeBelow(n) => HomeBelow(n)'
BY DEF Home, HomeBelow

InfoType ==
  [addr : SUBSET Component, state : SUBSET Component, used : SUBSET Component,
   data : SUBSET Component, dataUsed : SUBSET Component]

Found(n) == n \in info.addr /\ n \notin info.used
Named(n) == Found(n) /\ n \in info.data \ info.dataUsed

\* What a component takes.
LEMMA TakenFacts ==
  ASSUME Types, NEW n \in Component
  PROVE  LET t == Taken(info, n)
         IN /\ t.info \in InfoType
            /\ t.info.addr = info.addr /\ t.info.state = info.state /\ t.info.data = info.data
            /\ t.info.used = IF Found(n) THEN info.used \union {n} ELSE info.used
            /\ t.info.dataUsed = IF Named(n) THEN info.dataUsed \union {n} ELSE info.dataUsed
            /\ t.state = IF ~Found(n) THEN "nil" ELSE IF n \in info.state THEN "state" ELSE "empty"
            /\ t.target = Named(n)
<1> DEFINE u == IF Found(n) THEN info.used \union {n} ELSE info.used
           d == IF Named(n) THEN info.dataUsed \union {n} ELSE info.dataUsed
           i == [info EXCEPT !.used = u, !.dataUsed = d]
           st == IF ~Found(n) THEN "nil" ELSE IF n \in info.state THEN "state" ELSE "empty"
<1>1. info \in InfoType
  BY DEF Types, InfoType
<1>2. u \in SUBSET Component /\ d \in SUBSET Component
  BY <1>1 DEF InfoType
<1>3. /\ i \in InfoType /\ i.used = u /\ i.dataUsed = d
      /\ i.addr = info.addr /\ i.state = info.state /\ i.data = info.data
  <2> HIDE DEF u, d
  <2> QED BY <1>1, <1>2 DEF InfoType
<1>4. Taken(info, n) = [state |-> st, target |-> Named(n), info |-> i]
  BY DEF Taken, Found, Named
<1>5. Taken(info, n).info = i /\ Taken(info, n).state = st /\ Taken(info, n).target = Named(n)
  <2> HIDE DEF i, st
  <2> QED BY <1>4
<1> QED
  <2> HIDE DEF i
  <2> QED BY <1>3, <1>5

\* A component is entered with its part of the information.
LEMMA EnterInv ==
  ASSUME IInv, NEW n \in Component, Enter(n)
  PROVE  IInv'
<1> DEFINE p == Parent[n]
           t == Taken(info, n)
<1>1. Types /\ SavedUp /\ InfoKept
      /\ \A k \in Component : Inside(k) /\ RunOver(k) /\ CameHome(k) /\ GotRight(k)
  BY DEF IInv
<1>2. n # Root /\ pc[p] = "ready" /\ pc[n] = "out" /\ n \in Wanted(p) /\ p \in Component
  BY ParentOf DEF Enter, MayEnter
<1>3. p # n /\ pc[Root] # "load"
  BY <1>1, <1>2 DEF InfoKept
<1>4. /\ info' \in InfoType
      /\ info'.addr = info.addr /\ info'.state = info.state /\ info'.data = info.data
      /\ info'.used = (IF Found(n) THEN info.used \union {n} ELSE info.used)
      /\ info'.dataUsed = (IF Named(n) THEN info.dataUsed \union {n} ELSE info.dataUsed)
      /\ got' = [got EXCEPT ![n] = t.state]
      /\ target' = [target EXCEPT ![n] = Named(n)]
      /\ t.state = (IF ~Found(n) THEN "nil" ELSE IF n \in info.state THEN "state" ELSE "empty")
  BY <1>1, TakenFacts DEF Enter
<1>5. /\ t.state \in {"nil", "state", "empty"}
      /\ (t.state = "nil") <=> ~Found(n)
      /\ (t.state = "empty") <=> Found(n) /\ n \notin info.state
  BY <1>4
<1>6. /\ pc' = [pc EXCEPT ![n] = CASE t.state = "empty" -> "failed"
                                   [] t.state = "state" /\ n \in Loader -> "load"
                                   [] OTHER -> "ready"]
      /\ fresh' = IF t.state = "nil" THEN fresh \union {n} ELSE fresh \ {n}
      /\ UNCHANGED <<run, saved, again, loaded>>
  BY DEF Enter
<1> HIDE DEF t
<1>7. /\ pc'[n] \in {"failed", "load", "ready"}
      /\ pc'[n] = "failed" <=> t.state = "empty"
      /\ pc'[n] = "load" => t.state = "state"
      /\ got'[n] = t.state /\ target'[n] = Named(n)
      /\ \A k \in Component \ {n} : pc'[k] = pc[k] /\ got'[k] = got[k] /\ target'[k] = target[k]
      /\ \A k \in Component \ {n} : k \in fresh' <=> k \in fresh
      /\ n \in fresh' <=> t.state = "nil"
  BY <1>1, <1>4, <1>5, <1>6 DEF Types
<1>8. Types'
  <2>1. pc' \in [Component -> {"out", "load", "ready", "done", "interrupted", "failed"}]
        /\ got' \in [Component -> {"nil", "empty", "state"}]
        /\ target' \in [Component -> BOOLEAN]
    BY <1>1, <1>4, <1>5, <1>6 DEF Types, Named, Found
  <2>2. fresh' \subseteq Component
    BY <1>1, <1>6 DEF Types
  <2> QED BY <1>1, <1>4, <1>6, <2>1, <2>2 DEF Types, InfoType
<1>9. \A k \in Component \ {n} : Wanted(k)' = Wanted(k)
  BY <1>6, <1>7 DEF Wanted
<1>10. SavedUp'
  BY <1>1, <1>6 DEF SavedUp
<1>11. info.used \subseteq info'.used /\ info'.used \subseteq info.used \union {n}
  BY <1>4
<1>12. InfoKept'
  <2>1. info'.used \subseteq info'.addr /\ info'.dataUsed \subseteq info'.used
    BY <1>1, <1>4 DEF InfoKept, Found, Named
  <2>2. pc'[Root] # "load"
    BY <1>2, <1>3, <1>7, ResumeAssumption
  <2>3. \A m : Kept(m)' = Kept(m)
    BY <1>6 DEF Kept
  <2> QED BY <1>1, <1>2, <1>3, <1>4, <1>6, <1>11, <2>1, <2>2, <2>3 DEF InfoKept
<1>13. n \in saved => n \in info.addr
  BY <1>1, <1>2, <1>3 DEF InfoKept
<1>14. n \in info.used => HomeBelow(n) /\ Home(n)
  BY <1>1, <1>2 DEF CameHome
<1>15. n \notin saved => HomeBelow(n) /\ Home(n)
  BY <1>1, SavedBelow DEF HomeBelow, Home
<1>16. ~Found(n) => HomeBelow(n) /\ Home(n)
  BY <1>13, <1>14, <1>15 DEF Found
<1>17. \A k \in Component : (Home(k) => Home(k)') /\ (HomeBelow(k) => HomeBelow(k)')
  BY <1>4, <1>6, <1>11, HomeKept
<1>18. ASSUME NEW k \in Component \ {n} PROVE Inside(k)' /\ RunOver(k)' /\ CameHome(k)' /\ GotRight(k)'
  <2>1. Inside(k)'
    <3> SUFFICES ASSUME k # Root, pc'[k] # "out"
                 PROVE  k \in Wanted(Parent[k])' /\ pc'[Parent[k]] \notin {"out", "load"}
      BY DEF Inside
    <3>1. k \in Wanted(Parent[k]) /\ pc[Parent[k]] \notin {"out", "load"} /\ Parent[k] \in Component
      BY <1>1, <1>7, ParentOf DEF Inside
    <3>2. Parent[k] # n
      BY <1>2, <3>1
    <3> QED BY <1>7, <1>9, <3>1, <3>2
  <2>2. RunOver(k)'
    <3>1. pc'[k] = pc[k] /\ Wanted(k)' = Wanted(k) /\ Wanted(k) \subseteq Component
      BY <1>7, <1>9 DEF Wanted, Children
    <3>2. pc[n] \notin Over
      BY <1>2 DEF Over
    <3> QED BY <1>1, <1>7, <3>1, <3>2 DEF RunOver
  <2>3. CameHome(k)'
    BY <1>1, <1>6, <1>7, <1>11, <1>17 DEF CameHome
  <2>4. GotRight(k)'
    BY <1>1, <1>4, <1>6, <1>7, <1>11, <1>17 DEF GotRight, Entered
  <2> QED BY <2>1, <2>2, <2>3, <2>4
<1>19. Inside(n)'
  BY <1>2, <1>3, <1>7, <1>9 DEF Inside
<1>20. RunOver(n)'
  BY <1>7 DEF RunOver, Over
<1>21. CameHome(n)'
  <2>1. n \in fresh' => HomeBelow(n)'
    BY <1>5, <1>7, <1>16, <1>17
  <2>2. n \in again' => HomeBelow(n)'
    BY <1>1, <1>6, <1>17 DEF CameHome
  <2> QED BY <1>7, <2>1, <2>2 DEF CameHome
<1>22. GotRight(n)'
  <2>1. n \in saved' => n \in info'.used
    BY <1>4, <1>6, <1>13 DEF Found
  <2>2. pc'[n] = "load" => got'[n] = "state" /\ n \in info'.used
    BY <1>4, <1>5, <1>7
  <2>3. got'[n] = "empty" =>
          pc'[n] \in {"out", "failed"} /\ \E m \in loaded' : n \notin Below[m] \union {m}
    <3> SUFFICES ASSUME t.state = "empty"
                 PROVE  \E m \in loaded : n \notin Below[m] \union {m}
      BY <1>6, <1>7
    <3>1. Found(n) /\ n \notin info.state
      BY <1>5
    <3>2. PICK m \in loaded : info.state = Kept(m)
      BY <1>1, <3>1 DEF InfoKept, Found
    <3>3. n \in saved /\ m # n
      BY <1>1, <1>2, <3>1 DEF InfoKept, Found
    <3> QED BY <3>1, <3>2, <3>3 DEF Kept
  <2>4. got'[n] = "nil" => Home(n)'
    BY <1>5, <1>7, <1>16, <1>17
  <2>5. got'[n] # "nil" => (target'[n] <=> n \in info'.data)
    BY <1>1, <1>4, <1>5, <1>7 DEF Named, Found, InfoKept
  <2>6. \A q \in again' : n \in Below[q] => got'[n] = "nil" /\ ~target'[n]
    <3> SUFFICES ASSUME NEW q \in again, n \in Below[q] PROVE ~Found(n)
      BY <1>5, <1>6, <1>7 DEF Named
    <3>1. Home(n)
      BY <1>1 DEF CameHome, HomeBelow, Types
    <3> QED BY <1>1, <3>1 DEF Home, Found, InfoKept
  <2> QED BY <2>1, <2>2, <2>3, <2>4, <2>5, <2>6 DEF GotRight, Entered
<1> QED BY <1>8, <1>10, <1>12, <1>18, <1>19, <1>20, <1>21, <1>22 DEF IInv

\* A checkpoint is loaded.
LEMMA LoadInv ==
  ASSUME IInv, NEW n \in Component, Load(n)
  PROVE  IInv'
<1> DEFINE own == n \in Graph /\ n \in Kept(n)
<1>1. Types /\ SavedUp /\ InfoKept
      /\ \A k \in Component : Inside(k) /\ RunOver(k) /\ CameHome(k) /\ GotRight(k)
  BY DEF IInv
<1>2. /\ pc[n] = "load" /\ pc' = [pc EXCEPT ![n] = "ready"]
      /\ loaded' = loaded \union {n}
      /\ UNCHANGED <<run, saved, fresh, again>>
  BY DEF Load
<1>3. Kept(n) \subseteq saved /\ Kept(n) \subseteq Component
  BY <1>1 DEF Kept, Types
<1>4. /\ info' \in InfoType
      /\ info'.addr = info.addr \union Kept(n) /\ info'.state = Kept(n)
      /\ info'.data = info.data
      /\ info'.used = IF own THEN info.used \union {n} ELSE info.used
      /\ info'.dataUsed = IF own THEN info.dataUsed \union {n} ELSE info.dataUsed
      /\ got' = IF own /\ n \notin info.used THEN [got EXCEPT ![n] = "state"] ELSE got
      /\ target' = IF own /\ n \notin info.dataUsed THEN [target EXCEPT ![n] = TRUE] ELSE target
  <2> DEFINE i == Populated(info, Kept(n))
             j == [i EXCEPT !.used = @ \union {n}, !.dataUsed = @ \union {n}]
  <2>1. info \in InfoType
    BY <1>1 DEF Types, InfoType
  <2>2. /\ i \in InfoType /\ i.addr = info.addr \union Kept(n) /\ i.state = Kept(n)
        /\ i.used = info.used /\ i.data = info.data /\ i.dataUsed = info.dataUsed
    BY <1>3, <2>1 DEF Populated, InfoType
  <2> HIDE DEF i
  <2>3. /\ j \in InfoType /\ j.addr = i.addr /\ j.state = i.state /\ j.data = i.data
        /\ j.used = i.used \union {n} /\ j.dataUsed = i.dataUsed \union {n}
    BY <2>2 DEF InfoType
  <2>4. /\ info' = IF own THEN j ELSE i
        /\ got' = IF own /\ n \notin i.used THEN [got EXCEPT ![n] = "state"] ELSE got
        /\ target' = IF own /\ n \notin i.dataUsed THEN [target EXCEPT ![n] = TRUE] ELSE target
    BY DEF Load, i
  <2> HIDE DEF j, own
  <2> QED BY <2>2, <2>3, <2>4
<1>5. n # Root => n \in info.used /\ got[n] = "state"
  BY <1>1, <1>2 DEF GotRight
<1>6. Types'
  <2>1. pc' \in [Component -> {"out", "load", "ready", "done", "interrupted", "failed"}]
        /\ got' \in [Component -> {"nil", "empty", "state"}]
        /\ target' \in [Component -> BOOLEAN]
    BY <1>1, <1>2, <1>4 DEF Types
  <2> QED BY <1>1, <1>2, <1>4, <2>1 DEF Types, InfoType
<1>7. \A k \in Component : Wanted(k)' = Wanted(k) /\ Wanted(k) \subseteq Component
  BY <1>2 DEF Wanted, Children
<1>8. /\ pc'[n] = "ready" /\ \A k \in Component \ {n} : pc'[k] = pc[k]
      /\ n # Root => got' = got
      /\ \A k \in Component \ {n} : got'[k] = got[k]
      /\ n \notin Graph => target' = target
      /\ \A k \in Component \ {n} : target'[k] = target[k]
  BY <1>1, <1>2, <1>4, <1>5 DEF Types
<1>9. SavedUp'
  BY <1>1, <1>2 DEF SavedUp
<1>10. info.used \subseteq info'.used /\ info'.used \subseteq info.used \union {n}
       /\ (n # Root => info'.used = info.used)
  BY <1>4, <1>5
<1>11. InfoKept'
  <2>1. info'.addr \subseteq saved /\ info'.used \subseteq info'.addr
        /\ info'.dataUsed \subseteq info'.used
    BY <1>1, <1>3, <1>4 DEF InfoKept
  <2>2. pc'[Root] # "load" /\ saved \ {Root} \subseteq info'.addr
    <3>1. CASE n = Root
      <4>1. saved \ {Root} \subseteq Below[Root]
        BY <1>1, TreeAssumption DEF Types
      <4> QED BY <1>4, <1>8, <3>1, <4>1 DEF Kept
    <3>2. CASE n # Root
      <4>1. pc[Root] # "load"
        BY <1>1, <1>2, <3>2 DEF InfoKept
      <4> QED BY <1>1, <1>4, <1>8, <3>2, <4>1, ResumeAssumption DEF InfoKept
    <3> QED BY <3>1, <3>2
  <2>3. loaded' \subseteq info'.used \union {Root}
    BY <1>1, <1>2, <1>5, <1>10 DEF InfoKept
  <2>4. \E m \in loaded' : info'.state = Kept(m)'
    BY <1>2, <1>4 DEF Kept
  <2> QED BY <1>2, <2>1, <2>2, <2>3, <2>4 DEF InfoKept
<1>12. \A k \in Component : (Home(k) => Home(k)') /\ (HomeBelow(k) => HomeBelow(k)')
  BY <1>2, <1>4, <1>10, HomeKept
<1>13. ASSUME NEW k \in Component PROVE Inside(k)'
  <2> SUFFICES ASSUME k # Root, pc'[k] # "out"
               PROVE  k \in Wanted(Parent[k])' /\ pc'[Parent[k]] \notin {"out", "load"}
    BY DEF Inside
  <2>1. k \in Wanted(Parent[k]) /\ pc[Parent[k]] \notin {"out", "load"} /\ Parent[k] \in Component
    BY <1>1, <1>2, <1>8, ParentOf DEF Inside
  <2> QED BY <1>7, <1>8, <2>1
<1>14. ASSUME NEW k \in Component PROVE RunOver(k)'
  BY <1>1, <1>2, <1>7, <1>8 DEF RunOver, Over
<1>15. ASSUME NEW k \in Component PROVE CameHome(k)'
  <2>1. CASE k # n
    BY <1>1, <1>2, <1>8, <1>10, <1>12, <2>1 DEF CameHome
  <2>2. CASE k = n
    BY <1>1, <1>2, <1>8, <1>12, <2>2 DEF CameHome
  <2> QED BY <2>1, <2>2
<1>16. ASSUME NEW k \in Component PROVE GotRight(k)'
  <2>1. CASE k # n
    BY <1>1, <1>2, <1>4, <1>8, <1>10, <1>12, <2>1 DEF GotRight, Entered
  <2>2. CASE k = n /\ n # Root
    <3>1. \A q \in again : n \notin Below[q]
      BY <1>1, <1>2, <1>5, <2>2 DEF GotRight, Entered
    <3>2. n \in Leaf => n \notin Graph
      BY TreeAssumption
    <3> QED BY <1>1, <1>2, <1>4, <1>5, <1>8, <1>10, <2>2, <3>1, <3>2 DEF GotRight, Entered
  <2>3. CASE k = n /\ n = Root
    <3>1. got[n] # "empty"
      BY <1>1, <1>2 DEF GotRight
    <3>2. got'[n] # "empty"
      BY <1>1, <1>4, <3>1 DEF Types
    <3> QED BY <1>8, <2>3, <3>2 DEF GotRight, Entered
  <2> QED BY <2>1, <2>2, <2>3
<1> QED BY <1>6, <1>9, <1>11, <1>13, <1>14, <1>15, <1>16 DEF IInv

\* A step that changes where one component is, from ready, and nothing else.
LEMMA MoveInv ==
  ASSUME IInv, NEW n \in Component, pc[n] = "ready",
         NEW r \in {"done", "interrupted", "failed"},
         pc' = [pc EXCEPT ![n] = r],
         UNCHANGED <<run, saved, info, got, target, fresh, again, loaded>>,
         r \in Over => \A m \in Wanted(n) : pc[m] \in Over /\ (r = "done" => pc[m] = "done"),
         r = "done" => HomeBelow(n) /\ (n # Root => Home(n))
  PROVE  IInv'
<1>1. Types /\ SavedUp /\ InfoKept
      /\ \A k \in Component : Inside(k) /\ RunOver(k) /\ CameHome(k) /\ GotRight(k)
  BY DEF IInv
<1>2. pc'[n] = r /\ \A k \in Component \ {n} : pc'[k] = pc[k]
  BY <1>1 DEF Types
<1>3. Types'
  BY <1>1 DEF Types
<1>4. SavedUp'
  BY <1>1 DEF SavedUp
<1>5. InfoKept'
  <2>1. pc'[Root] = "load" <=> pc[Root] = "load"
    BY <1>2, ResumeAssumption
  <2>2. pc[Root] = "load" => \A k \in Component \ {Root} : pc'[k] = "out"
    <3>1. pc[Root] = "load" => n = Root
      BY <1>1 DEF InfoKept
    <3> QED BY <1>1, <1>2, <3>1 DEF InfoKept
  <2>3. \A m : Kept(m)' = Kept(m)
    BY DEF Kept
  <2> QED BY <1>1, <2>1, <2>2, <2>3 DEF InfoKept
<1>6. \A k \in Component : Wanted(k)' = Wanted(k) /\ Wanted(k) \subseteq Component
  BY DEF Wanted, Children
<1>7. \A k \in Component : (Home(k)' <=> Home(k)) /\ (HomeBelow(k)' <=> HomeBelow(k))
  BY DEF Home, HomeBelow
<1>8. ASSUME NEW k \in Component PROVE Inside(k)'
  <2> SUFFICES ASSUME k # Root, pc'[k] # "out"
               PROVE  k \in Wanted(Parent[k])' /\ pc'[Parent[k]] \notin {"out", "load"}
    BY DEF Inside
  <2>1. k \in Wanted(Parent[k]) /\ pc[Parent[k]] \notin {"out", "load"} /\ Parent[k] \in Component
    BY <1>1, <1>2, ParentOf DEF Inside
  <2> QED BY <1>2, <1>6, <2>1
<1>9. ASSUME NEW k \in Component PROVE RunOver(k)'
  <2> SUFFICES ASSUME pc'[k] \in Over, NEW m \in Wanted(k)
               PROVE  pc'[m] \in Over /\ (pc'[k] = "done" => pc'[m] = "done")
    BY <1>6 DEF RunOver
  <2>1. pc[m] \in Over /\ (pc'[k] = "done" => pc[m] = "done")
    BY <1>1, <1>2 DEF RunOver
  <2>2. m # n /\ m \in Component
    BY <1>6, <2>1 DEF Over
  <2> QED BY <1>2, <2>1, <2>2
<1>10. ASSUME NEW k \in Component PROVE CameHome(k)'
  BY <1>1, <1>2, <1>7 DEF CameHome
<1>11. ASSUME NEW k \in Component PROVE GotRight(k)'
  <2>1. got[n] # "empty"
    BY <1>1 DEF GotRight
  <2> QED BY <1>1, <1>2, <1>7, <2>1 DEF GotRight, Entered
<1> QED BY <1>3, <1>4, <1>5, <1>8, <1>9, <1>10, <1>11 DEF IInv

\* A leaf ends, and where it is done it was named.
LEMMA FinishInv ==
  ASSUME IInv, NEW n \in Component, Finish(n)
  PROVE  IInv'
<1>1. n \in Leaf /\ pc[n] = "ready" /\ n # Root /\ n \in Component
  BY TreeAssumption DEF Finish
<1>2. PICK r \in Over : /\ got[n] = "state" => (r = "done" <=> target[n])
                        /\ pc' = [pc EXCEPT ![n] = r]
  BY DEF Finish
<1>3. Wanted(n) = {} /\ Children(n) = {}
  BY <1>1 DEF Wanted, Leaf
<1>4. Below[n] = {}
  BY <1>3, BelowSplit
<1>5. r = "done" => Home(n)
  <2>1. got[n] \in {"nil", "state"}
    BY <1>1 DEF IInv, Types, GotRight
  <2>2. n \in saved => n \in info.used
    BY <1>1 DEF IInv, GotRight
  <2> QED BY <1>1, <1>2, <2>1, <2>2 DEF IInv, GotRight, Entered, Home
<1> QED BY <1>1, <1>2, <1>3, <1>4, <1>5, MoveInv DEF Finish, HomeBelow, Over

\* A component returns once those it wanted are over.
LEMMA ReturnInv ==
  ASSUME IInv, NEW n \in Component, Return(n)
  PROVE  IInv'
<1>1. PICK r \in Over : r = IF \E m \in Wanted(n) : pc[m] = "interrupted"
                            THEN "interrupted" ELSE "done"
  BY DEF Over
<1>2. pc[n] = "ready" /\ n \notin Leaf /\ pc' = [pc EXCEPT ![n] = r]
      /\ \A m \in Wanted(n) : pc[m] \in Over
  BY <1>1 DEF Return
<1>3. r = "done" => \A m \in Wanted(n) : pc[m] = "done"
  BY <1>1, <1>2 DEF Over
<1>4. r = "done" => HomeBelow(n)
  BY <1>2, <1>3, DoneBelow
<1>5. n # Root => Home(n)
  BY <1>2 DEF IInv, GotRight, Home
<1> QED BY <1>2, <1>3, <1>4, <1>5, MoveInv DEF Return, Over

\* A component fails.
LEMMA FailInv ==
  ASSUME IInv, NEW n \in Component, Fail(n)
  PROVE  IInv'
BY ParentOf, MoveInv DEF Fail, Over

\* What is inside a component is run again: by then all that was saved there
\* has come home.
LEMMA AgainInv ==
  ASSUME IInv, NEW n \in Component, Again(n)
  PROVE  IInv'
<1>1. Types /\ SavedUp /\ InfoKept
      /\ \A k \in Component : Inside(k) /\ RunOver(k) /\ CameHome(k) /\ GotRight(k)
  BY DEF IInv
<1>2. /\ pc[n] = "ready" /\ \A m \in Wanted(n) : pc[m] = "done"
      /\ again' = again \union {n} /\ fresh' = fresh \union {n}
      /\ pc' = [m \in Component |-> IF m \in Below[n] THEN "out" ELSE pc[m]]
      /\ UNCHANGED <<run, saved, info, got, target, loaded>>
  BY DEF Again
<1>3. HomeBelow(n)
  BY <1>2, DoneBelow
<1>4. /\ \A k \in Below[n] : pc'[k] = "out"
      /\ \A k \in Component : k \notin Below[n] => pc'[k] = pc[k]
  BY <1>2, BelowIn
<1>5. Root \notin Below[n]
  BY BelowParent
<1>6. \A k \in Component : k # n => Wanted(k)' = Wanted(k)
  BY <1>2 DEF Wanted
<1>7. \A k \in Component : (Home(k)' <=> Home(k)) /\ (HomeBelow(k)' <=> HomeBelow(k))
  BY <1>2 DEF Home, HomeBelow
<1>8. Types'
  BY <1>1, <1>2 DEF Types
<1>9. SavedUp'
  BY <1>1, <1>2 DEF SavedUp
<1>10. InfoKept'
  <2>1. pc'[Root] = pc[Root]
    BY <1>4, <1>5, ResumeAssumption
  <2>2. \A k \in Component : pc[k] = "out" => pc'[k] = "out"
    BY <1>4
  <2>3. \A m : Kept(m)' = Kept(m)
    BY <1>2 DEF Kept
  <2> QED BY <1>1, <1>2, <2>1, <2>2, <2>3 DEF InfoKept
<1>11. ASSUME NEW k \in Component PROVE Inside(k)'
  <2> SUFFICES ASSUME k # Root, pc'[k] # "out"
               PROVE  k \in Wanted(Parent[k])' /\ pc'[Parent[k]] \notin {"out", "load"}
    BY DEF Inside
  <2>1. k \notin Below[n] /\ pc[k] # "out"
    BY <1>4
  <2>2. k \in Wanted(Parent[k]) /\ pc[Parent[k]] \notin {"out", "load"} /\ Parent[k] \in Component
        /\ k \in Children(Parent[k])
    BY <1>1, <2>1, ParentOf DEF Inside
  <2>3. Parent[k] # n /\ Parent[k] \notin Below[n]
    BY <2>1, <2>2, BelowChildren, BelowDown
  <2> QED BY <1>4, <1>6, <2>2, <2>3
<1>12. ASSUME NEW k \in Component PROVE RunOver(k)'
  <2> SUFFICES ASSUME pc'[k] \in Over, NEW m \in Wanted(k)'
               PROVE  pc'[m] \in Over /\ (pc'[k] = "done" => pc'[m] = "done")
    BY DEF RunOver
  <2>1. k \notin Below[n] /\ pc'[k] = pc[k] /\ k # n
    BY <1>2, <1>4 DEF Over
  <2>2. m \in Wanted(k) /\ m \in Children(k)
    BY <1>6, <2>1 DEF Wanted
  <2>3. m \notin Below[n] /\ m \in Component
    <3>1. m \in Component /\ Parent[m] = k
      BY <2>2 DEF Children
    <3> QED BY <2>1, <3>1, BelowParent
  <2> QED BY <1>1, <1>4, <2>1, <2>2, <2>3 DEF RunOver
<1>13. ASSUME NEW k \in Component PROVE CameHome(k)'
  <2>1. k \in Below[n] => HomeBelow(k) /\ Home(k)
    BY <1>3, BelowBelow DEF HomeBelow
  <2>2. CASE k \in Below[n]
    BY <1>4, <1>7, <2>1, <2>2 DEF CameHome
  <2>3. CASE k \notin Below[n]
    BY <1>1, <1>2, <1>3, <1>4, <1>7, <2>3 DEF CameHome
  <2> QED BY <2>2, <2>3
<1>14. ASSUME NEW k \in Component PROVE GotRight(k)'
  <2>1. CASE k \in Below[n]
    BY <1>1, <1>2, <1>4, <2>1 DEF GotRight, Entered
  <2>2. CASE k \notin Below[n]
    BY <1>1, <1>2, <1>4, <1>7, <2>2 DEF GotRight, Entered
  <2> QED BY <2>1, <2>2
<1> QED BY <1>8, <1>9, <1>10, <1>11, <1>12, <1>13, <1>14 DEF IInv

\* When the run itself is interrupted, what is interrupted is closed under
\* parents: each of them is over, and not done.
LEMMA InterruptedUp ==
  ASSUME IInv, pc[Root] = "interrupted", NEW n \in Component, n # Root, pc[n] = "interrupted"
  PROVE  pc[Parent[n]] = "interrupted"
<1> DEFINE S == {k \in Component : pc[k] \in Over \union {"out"}}
<1>1. \A k \in Component : Inside(k) /\ RunOver(k)
  BY DEF IInv
<1>2. ASSUME NEW k \in Component, pc[k] \in Over \union {"out"}, NEW j \in Children(k)
      PROVE  j \in S
  <2>1. j \in Component /\ j # Root /\ Parent[j] = k
    BY DEF Children
  <2> QED BY <1>1, <1>2, <2>1 DEF Inside, RunOver
<1>3. Component \subseteq S
  <2>1. Root \in S
    BY ResumeAssumption DEF Over
  <2>2. Children(Root) \subseteq S /\ (\A k \in S : Children(k) \subseteq S)
    BY <1>2, <2>1
  <2>3. S \in SUBSET Component
    OBVIOUS
  <2>4. Below[Root] \subseteq S
    <3> HIDE DEF S
    <3> QED BY <2>2, <2>3, BelowLeast, ResumeAssumption
  <2> QED BY <2>1, <2>4, TreeAssumption
<1>4. Parent[n] \in Component /\ n \in Wanted(Parent[n]) /\ pc[Parent[n]] # "out"
  BY <1>1, ParentOf DEF Inside
<1> QED BY <1>1, <1>3, <1>4 DEF RunOver, Over

\* The run is resumed with what was saved.
LEMMA ResumeInv ==
  ASSUME IInv, Resume
  PROVE  IInv'
<1>1. PICK named \in SUBSET Component : info' = [NoInfo EXCEPT !.data = named]
  BY DEF Resume, Leaf
<1>2. /\ info' \in InfoType /\ info'.addr = {} /\ info'.used = {} /\ info'.dataUsed = {}
  BY <1>1 DEF NoInfo, InfoType
<1>3. /\ saved' = {n \in Component : pc[n] = "interrupted"} /\ pc[Root] = "interrupted"
      /\ pc' = [n \in Component |-> IF n = Root THEN "load" ELSE "out"]
      /\ got' = [n \in Component |-> "nil"] /\ target' = [n \in Component |-> FALSE]
      /\ fresh' = Component \ {Root} /\ again' = {} /\ loaded' = {}
  BY DEF Resume
<1>4. Types'
  BY <1>2, <1>3 DEF Types, InfoType
<1>5. SavedUp'
  BY <1>3, InterruptedUp, ParentOf DEF SavedUp
<1>6. InfoKept'
  BY <1>2, <1>3, ResumeAssumption DEF InfoKept
<1>7. ASSUME NEW n \in Component PROVE (Inside(n) /\ RunOver(n) /\ CameHome(n) /\ GotRight(n))'
  BY <1>2, <1>3 DEF Inside, RunOver, Over, CameHome, GotRight, Entered
<1> QED BY <1>4, <1>5, <1>6, <1>7 DEF IInv

\* Nothing is saved at first.
LEMMA InitInv == Init => IInv
<1> SUFFICES ASSUME Init PROVE IInv
  OBVIOUS
<1>1. info.addr = {} /\ info.used = {} /\ info.dataUsed = {} /\ info \in InfoType
  BY DEF Init, NoInfo, InfoType
<1>2. saved = {} /\ again = {} /\ loaded = {} /\ fresh = Component
      /\ pc = [n \in Component |-> IF n = Root THEN "ready" ELSE "out"]
      /\ got = [n \in Component |-> "nil"] /\ target = [n \in Component |-> FALSE]
  BY DEF Init
<1>3. Types
  BY <1>1, <1>2 DEF Types, InfoType
<1>4. SavedUp /\ InfoKept
  BY <1>1, <1>2, ResumeAssumption DEF SavedUp, InfoKept
<1>5. \A n \in Component : Home(n) /\ HomeBelow(n)
  BY <1>2 DEF Home, HomeBelow
<1>6. ASSUME NEW n \in Component PROVE Inside(n) /\ RunOver(n) /\ CameHome(n) /\ GotRight(n)
  BY <1>1, <1>2, <1>5 DEF Inside, RunOver, Over, CameHome, GotRight, Entered
<1> QED BY <1>3, <1>4, <1>6 DEF IInv

\* Every step keeps the information in order.
LEMMA NextInv == IInv /\ [Next]_vars => IInv'
<1> SUFFICES ASSUME IInv, [Next]_vars PROVE IInv'
  OBVIOUS
<1>1. CASE UNCHANGED vars
  <2>1. ASSUME NEW n \in Component PROVE (Inside(n) /\ RunOver(n) /\ CameHome(n) /\ GotRight(n))'
    BY <1>1 DEF vars, IInv, Inside, Wanted, RunOver, CameHome, GotRight, Home, HomeBelow, Entered
  <2>2. (Types /\ SavedUp /\ InfoKept)'
    BY <1>1 DEF vars, IInv, Types, SavedUp, InfoKept, Kept
  <2> QED BY <2>1, <2>2 DEF IInv
<1>2. ASSUME NEW n \in Component, Step(n) PROVE IInv'
  BY <1>2, EnterInv, LoadInv, FinishInv, ReturnInv, AgainInv, FailInv DEF Step
<1> QED BY <1>1, <1>2, ResumeInv DEF Next

\* For every tree of components: a component that was interrupted and is
\* entered again finds its state unless one it is not inside of has loaded a
\* checkpoint since, and a component that is visited twice gets nothing the
\* second time (address.go:118-179, 260-306).
THEOREM StatesCorrect == Spec => []StatesComeHome
<1>1. IInv => StatesComeHome
  <2> SUFFICES ASSUME IInv PROVE StatesComeHome
    OBVIOUS
  <2>1. LostOnlyToSibling
    BY DEF IInv, GotRight, LostOnlyToSibling
  <2>2. LaterVisitsStartFresh
    BY BelowIn DEF IInv, GotRight, LaterVisitsStartFresh
  <2> QED BY <2>1, <2>2 DEF StatesComeHome
<1>2. Init => IInv
  BY InitInv
<1>3. IInv /\ [Next]_vars => IInv'
  BY NextInv
<1> QED BY <1>1, <1>2, <1>3, PTL DEF Spec

\* For every tree: exactly the leaves that were named when the run was resumed
\* are resume targets, and a run that ends without an interrupt has taken every
\* leaf that was interrupted to its end (resume.go:28-102, address.go:182-258).
THEOREM NamedCorrect == Spec => []NamedGoOn
<1>1. IInv => NamedGoOn
  <2> SUFFICES ASSUME IInv PROVE NamedGoOn
    OBVIOUS
  <2>1. TargetsReached
    BY DEF IInv, GotRight, TargetsReached, Leaf
  <2>2. NothingLeftInterrupted
    <3> SUFFICES ASSUME pc[Root] = "done", NEW n \in Leaf \cap saved PROVE n \in info.data
      BY DEF NothingLeftInterrupted
    <3>1. HomeBelow(Root)
      BY ResumeAssumption DEF IInv, CameHome
    <3>2. n \in Below[Root]
      BY TreeAssumption DEF Leaf
    <3> QED BY <3>1, <3>2 DEF HomeBelow, Home
  <2> QED BY <2>1, <2>2 DEF NamedGoOn
<1>2. Init => IInv
  BY InitInv
<1>3. IInv /\ [Next]_vars => IInv'
  BY NextInv
<1> QED BY <1>1, <1>2, <1>3, PTL DEF Spec

-----------------------------------------------------------------------------
(* Graphs inside a graph. *)

NestedTypes ==
  /\ phase \in {"create", "restore", "run", "idle", "end"}
  /\ round \in Nat /\ faults \in Nat
  /\ todo \subseteq Nodes
  /\ ctx \in [of : {"root", "nested", "nothing"}, done : Progress]
  /\ ctx.of # "nested" => ctx.done = 0
  /\ subGraphs \subseteq Sub \X Progress
  /\ DOMAIN outcome \subseteq Nodes
  /\ outcome \in [DOMAIN outcome -> {"running", "ok", "interrupt"}]
  /\ at \in [Sub -> Progress]
  /\ checkpoint \in [rerun : SUBSET Nodes, subGraphs : SUBSET (Sub \X Progress)]
  /\ runs \in [Sub \X (1 .. Steps) -> Nat]

\* The checkpoint of a nested graph is in one place: with the node that has
\* interrupted, in the store, or taken from it for the one node that is
\* restored.  Nothing of it is left when tasks are made or run.  Inductive
\* while OneInterrupts holds.
CheckpointPlaced ==
  /\ phase \in {"create", "run"} => subGraphs = {}
  /\ phase \in {"idle", "restore"} =>
       /\ \A m, n \in checkpoint.rerun : m = n
       /\ checkpoint.rerun \subseteq Nodes /\ checkpoint.rerun # {}
       /\ checkpoint.subGraphs = {<<n, at[n]>> : n \in checkpoint.rerun \intersect Sub}
  /\ phase = "restore" =>
       todo = checkpoint.rerun /\ ctx = TopGraph /\ subGraphs = checkpoint.subGraphs

\* The steps of a visit that are not done have not been run in it.
VisitCounted ==
  /\ ContinuesWhereItWas
  /\ phase = "create" => runs = NoRuns
  /\ phase = "restore" => DOMAIN outcome = {}
  /\ \A e \in DOMAIN runs :
       /\ phase = "run" /\ e[1] \in DOMAIN outcome /\ e[2] > at[e[1]] => runs[e] = 0
       /\ phase \in {"idle", "restore"} /\ e[1] \in checkpoint.rerun /\ e[2] > at[e[1]] => runs[e] = 0

NestedInv == NestedTypes /\ CheckpointPlaced /\ VisitCounted

\* Everything starts in order.
LEMMA NestedInitInv == NestedAssumption /\ NestedInit => NestedInv
<1> SUFFICES ASSUME NestedAssumption, NestedInit PROVE NestedInv
  OBVIOUS
<1>1. NestedTypes
  BY DEF NestedAssumption, NestedInit, NestedTypes, NoCheckpoint, NoRuns, Progress, Nodes
<1>2. CheckpointPlaced
  BY DEF NestedInit, CheckpointPlaced
<1>3. VisitCounted
  BY DEF NestedInit, VisitCounted, ContinuesWhereItWas, NoRuns
<1> QED
  BY <1>1, <1>2, <1>3 DEF NestedInv

\* One turn of the loop: the node that is restored gets its checkpoint, which
\* is then gone, and one that is created none.
LEMMA CreateInv ==
  ASSUME NestedAssumption, NestedInv, NEW n \in Nodes, Create(n)
  PROVE  NestedInv' /\ (phase = "create" /\ n \in Sub => at'[n] = 0)
<1> USE DEF NestedInv
<1>1. /\ NestedTypes /\ CheckpointPlaced /\ VisitCounted
      /\ phase \in {"create", "restore"} /\ n \in todo /\ todo' = todo \ {n}
      /\ at' = [s \in Sub |-> IF s = n THEN ctx'.done ELSE at[s]]
      /\ outcome' = [m \in DOMAIN outcome \union {n} |->
                       IF m = n THEN "running" ELSE outcome[m]]
      /\ phase' = IF todo' = {} THEN "run" ELSE phase
      /\ UNCHANGED <<round, checkpoint, runs, faults>>
  BY DEF Create
<1>2. \/ /\ ctx = TopGraph
         /\ \E k \in Progress : /\ <<n, k>> \in subGraphs
                                /\ ctx' = Nested(k)
                                /\ subGraphs' = subGraphs \ {<<n, k>>}
      \/ /\ ctx = TopGraph
         /\ \A k \in Progress : <<n, k>> \notin subGraphs
         /\ ctx' = NoCheckpoint /\ subGraphs' = subGraphs
      \/ ctx # TopGraph /\ ctx' = NoCheckpoint /\ subGraphs' = subGraphs
  BY DEF Create, forwardCheckPoint
<1>3. NestedTypes'
  <2>1. /\ ctx' \in [of : {"root", "nested", "nothing"}, done : Progress]
        /\ ctx'.of # "nested" => ctx'.done = 0
        /\ ctx'.done \in Progress
        /\ subGraphs' \subseteq Sub \X Progress
    <3>1. /\ ctx' = NoCheckpoint \/ \E k \in Progress : ctx' = Nested(k)
          /\ subGraphs' \subseteq subGraphs
      BY <1>2
    <3>2. 0 \in Progress
      BY DEF Progress, NestedAssumption
    <3> QED
      BY <1>1, <3>1, <3>2 DEF NestedTypes, Nested, NoCheckpoint
  <2>2. at' \in [Sub -> Progress]
    BY <1>1, <2>1 DEF NestedTypes
  <2>3. /\ DOMAIN outcome' \subseteq Nodes
        /\ outcome' \in [DOMAIN outcome' -> {"running", "ok", "interrupt"}]
    BY <1>1 DEF NestedTypes
  <2> QED
    BY <1>1, <2>1, <2>2, <2>3 DEF NestedTypes
<1>4. CASE phase = "create"
  <2>1. subGraphs = {}
    BY <1>1, <1>4 DEF CheckpointPlaced
  <2>2. subGraphs' = {} /\ ctx' = NoCheckpoint
    BY <1>2, <2>1
  <2>3. phase' \in {"create", "run"}
    BY <1>1, <1>4
  <2>4. CheckpointPlaced'
    BY <2>2, <2>3 DEF CheckpointPlaced
  <2>5. runs' = NoRuns
    BY <1>1, <1>4 DEF VisitCounted
  <2>6. VisitCounted'
    BY <2>3, <2>5 DEF VisitCounted, ContinuesWhereItWas, NoRuns
  <2>7. n \in Sub => at'[n] = 0
    BY <1>1, <2>2 DEF NoCheckpoint
  <2> QED
    BY <1>3, <2>4, <2>6, <2>7
<1>5. CASE phase = "restore"
  <2>1. /\ todo = checkpoint.rerun /\ ctx = TopGraph /\ subGraphs = checkpoint.subGraphs
        /\ \A m, s \in checkpoint.rerun : m = s
        /\ checkpoint.subGraphs = {<<s, at[s]>> : s \in checkpoint.rerun \intersect Sub}
    BY <1>1, <1>5 DEF CheckpointPlaced
  <2>2. checkpoint.rerun = {n}
    BY <1>1, <2>1
  <2>3. phase' = "run"
    BY <1>1, <2>1, <2>2
  <2>4. CASE n \in Sub
    <3>1. subGraphs = {<<n, at[n]>>}
      BY <2>1, <2>2, <2>4
    <3>2. at[n] \in Progress
      BY <1>1, <2>4 DEF NestedTypes
    <3>3. subGraphs' = {} /\ ctx' = Nested(at[n])
      BY <1>2, <2>1, <3>1, <3>2
    <3>4. at' = at
      BY <1>1, <2>4, <3>3 DEF NestedTypes, Nested
    <3>5. CheckpointPlaced'
      BY <2>3, <3>3 DEF CheckpointPlaced
    <3>6. VisitCounted'
      <4>1. ASSUME NEW e \in DOMAIN runs', e[1] \in DOMAIN outcome', e[2] > at'[e[1]] PROVE runs'[e] = 0
        <5>1. DOMAIN outcome' = {n}
          BY <1>1, <1>5 DEF VisitCounted
        <5>2. e \in DOMAIN runs /\ e[1] \in checkpoint.rerun /\ e[2] > at[e[1]]
          BY <1>1, <2>2, <3>4, <4>1, <5>1
        <5> QED
          BY <1>1, <1>5, <5>2 DEF VisitCounted
      <4> QED
        BY <1>1, <2>3, <4>1 DEF VisitCounted, ContinuesWhereItWas
    <3> QED
      BY <1>3, <1>5, <3>5, <3>6
  <2>5. CASE n \notin Sub
    <3>1. subGraphs = {}
      BY <2>1, <2>2, <2>5
    <3>2. subGraphs' = {}
      BY <1>2, <3>1
    <3>3. CheckpointPlaced'
      BY <2>3, <3>2 DEF CheckpointPlaced
    <3>4. ASSUME NEW e \in DOMAIN runs PROVE e[1] \notin DOMAIN outcome'
      <4>1. DOMAIN outcome' = {n}
        BY <1>1, <1>5 DEF VisitCounted
      <4>2. e[1] \in Sub
        BY <1>1 DEF NestedTypes
      <4> QED
        BY <2>5, <4>1, <4>2
    <3>5. VisitCounted'
      BY <1>1, <2>3, <3>4 DEF VisitCounted, ContinuesWhereItWas
    <3> QED
      BY <1>3, <1>5, <3>3, <3>5
  <2> QED
    BY <2>4, <2>5
<1> QED
  BY <1>1, <1>4, <1>5

\* A node of a nested graph runs: the next one of the visit.
LEMMA StepOnceInv ==
  ASSUME NestedAssumption, NestedInv, NEW n \in Sub, StepOnce(n)
  PROVE  NestedInv'
<1> USE DEF NestedInv
<1>1. /\ NestedTypes /\ CheckpointPlaced /\ VisitCounted
      /\ phase = "run" /\ n \in DOMAIN outcome /\ at[n] < Steps
      /\ at' = [at EXCEPT ![n] = @ + 1]
      /\ runs' = [runs EXCEPT ![<<n, at[n] + 1>>] = @ + 1]
      /\ UNCHANGED <<phase, round, todo, ctx, subGraphs, outcome, checkpoint, faults>>
  BY DEF StepOnce, Running
<1>2. PICK k : k = at[n] + 1
  OBVIOUS
<1>3. /\ k \in 1 .. Steps /\ at[n] \in Progress /\ k \in Progress
      /\ <<n, k>> \in DOMAIN runs /\ runs[<<n, k>>] \in Nat
  BY <1>1, <1>2 DEF NestedTypes, Progress, NestedAssumption
<1>4. runs[<<n, k>>] = 0
  BY <1>1, <1>2, <1>3 DEF VisitCounted, Progress, NestedAssumption
<1>5. /\ at' \in [Sub -> Progress] /\ runs' \in [Sub \X (1 .. Steps) -> Nat]
      /\ at' = [at EXCEPT ![n] = k]
      /\ runs' = [runs EXCEPT ![<<n, k>>] = 1]
  BY <1>1, <1>2, <1>3, <1>4 DEF NestedTypes
<1>6. NestedTypes'
  BY <1>1, <1>5 DEF NestedTypes
<1>7. CheckpointPlaced'
  BY <1>1 DEF CheckpointPlaced
<1>8. ContinuesWhereItWas'
  <2>1. /\ DOMAIN runs = Sub \X (1 .. Steps) /\ DOMAIN runs' = DOMAIN runs
        /\ \A e \in DOMAIN runs : runs[e] <= 1
    BY <1>1, <1>5 DEF VisitCounted, ContinuesWhereItWas, NestedTypes
  <2>2. \A e \in DOMAIN runs : runs'[e] = IF e = <<n, k>> THEN 1 ELSE runs[e]
    BY <1>1, <1>5, <2>1 DEF NestedTypes
  <2> QED
    BY <2>1, <2>2 DEF ContinuesWhereItWas
<1>9. ASSUME NEW e \in DOMAIN runs', e[1] \in DOMAIN outcome', e[2] > at'[e[1]] PROVE runs'[e] = 0
  <2>1. /\ e \in Sub \X (1 .. Steps) /\ e \in DOMAIN runs /\ e = <<e[1], e[2]>>
        /\ e[1] \in Sub /\ e[2] \in 1 .. Steps
    BY <1>1, <1>5, <1>9 DEF NestedTypes
  <2>2. CASE e[1] = n
    <3>1. e[2] > k /\ e[2] > at[n] /\ e # <<n, k>>
      BY <1>1, <1>2, <1>3, <1>5, <1>9, <2>1, <2>2 DEF NestedTypes, Progress, NestedAssumption
    <3> QED
      BY <1>1, <1>5, <1>9, <2>1, <2>2, <3>1 DEF VisitCounted, NestedTypes
  <2>3. CASE e[1] # n
    <3>1. at'[e[1]] = at[e[1]] /\ e # <<n, k>>
      BY <1>1, <1>5, <2>1, <2>3 DEF NestedTypes
    <3> QED
      BY <1>1, <1>5, <1>9, <2>1, <2>3, <3>1 DEF VisitCounted, NestedTypes
  <2> QED
    BY <2>2, <2>3
<1>10. VisitCounted'
  BY <1>1, <1>8, <1>9 DEF VisitCounted
<1> QED
  BY <1>6, <1>7, <1>10

\* The tasks of a round run to their end or interrupt.
LEMMA TaskInv ==
  ASSUME NestedAssumption, NestedInv, NEW n \in Nodes, Complete(n) \/ Interrupt(n)
  PROVE  NestedInv'
<1> USE DEF NestedInv
<1>1. /\ NestedTypes /\ CheckpointPlaced /\ VisitCounted
      /\ phase = "run" /\ n \in DOMAIN outcome
      /\ \E o \in {"ok", "interrupt"} : outcome' = [outcome EXCEPT ![n] = o]
      /\ faults' \in {faults, faults + 1}
      /\ UNCHANGED <<phase, round, todo, ctx, subGraphs, at, checkpoint, runs>>
  BY DEF Complete, Interrupt, Running
<1>2. /\ DOMAIN outcome' = DOMAIN outcome
      /\ outcome' \in [DOMAIN outcome' -> {"running", "ok", "interrupt"}]
  BY <1>1 DEF NestedTypes
<1>3. NestedTypes'
  BY <1>1, <1>2 DEF NestedTypes
<1>4. CheckpointPlaced' /\ VisitCounted'
  BY <1>1, <1>2 DEF CheckpointPlaced, VisitCounted, ContinuesWhereItWas
<1> QED
  BY <1>3, <1>4

\* The outer graph goes on to its next round.
LEMMA NextRoundInv == NestedAssumption /\ NestedInv /\ NextRound => NestedInv'
<1> SUFFICES ASSUME NestedAssumption, NestedInv, NextRound PROVE NestedInv'
  OBVIOUS
<1> USE DEF NestedInv
<1>1. /\ NestedTypes /\ CheckpointPlaced /\ VisitCounted
      /\ phase = "run" /\ round' = round + 1 /\ phase' \in {"create", "end"}
      /\ todo' \in {todo, Nodes} /\ ctx' \in {ctx, TopGraph}
      /\ outcome' = [m \in {} |-> "ok"] /\ runs' = NoRuns
      /\ UNCHANGED <<subGraphs, at, checkpoint, faults>>
  BY DEF NextRound, AllWaited
<1>2. NestedTypes'
  BY <1>1 DEF NestedTypes, TopGraph, NoRuns, Progress, NestedAssumption
<1>3. CheckpointPlaced'
  BY <1>1 DEF CheckpointPlaced
<1>4. VisitCounted'
  BY <1>1 DEF VisitCounted, ContinuesWhereItWas, NoRuns
<1> QED
  BY <1>2, <1>3, <1>4

\* The one node that has interrupted is saved, and where it is.
LEMMA SaveInv ==
  NestedAssumption /\ NestedInv /\ OneInterrupts /\ Save => NestedInv'
<1> SUFFICES ASSUME NestedAssumption, NestedInv, OneInterrupts, Save PROVE NestedInv'
  OBVIOUS
<1> USE DEF NestedInv
<1>1. PICK I : I = Interrupted
  OBVIOUS
<1>2. /\ NestedTypes /\ CheckpointPlaced /\ VisitCounted
      /\ phase = "run" /\ phase' = "idle" /\ I # {}
      /\ checkpoint' = [rerun |-> I, subGraphs |-> {<<n, at[n]>> : n \in I \intersect Sub}]
      /\ UNCHANGED <<round, todo, ctx, subGraphs, outcome, at, runs, faults>>
  BY <1>1 DEF Save, AllWaited
<1>3. I \subseteq DOMAIN outcome /\ I \subseteq Nodes /\ \A m, n \in I : m = n
  BY <1>1, <1>2 DEF Interrupted, OneInterrupts, NestedTypes
<1>4. checkpoint' \in [rerun : SUBSET Nodes, subGraphs : SUBSET (Sub \X Progress)]
  BY <1>2, <1>3 DEF NestedTypes
<1>5. NestedTypes'
  BY <1>2, <1>4 DEF NestedTypes
<1>6. CheckpointPlaced'
  BY <1>2, <1>3 DEF CheckpointPlaced
<1>7. VisitCounted'
  BY <1>2, <1>3 DEF VisitCounted, ContinuesWhereItWas
<1> QED
  BY <1>5, <1>6, <1>7

\* The next call starts from what was saved.
LEMMA CallAgainInv == NestedAssumption /\ NestedInv /\ CallAgain => NestedInv'
<1> SUFFICES ASSUME NestedAssumption, NestedInv, CallAgain PROVE NestedInv'
  OBVIOUS
<1> USE DEF NestedInv
<1>1. /\ NestedTypes /\ CheckpointPlaced /\ VisitCounted
      /\ phase = "idle" /\ phase' = "restore"
      /\ todo' = checkpoint.rerun /\ ctx' = TopGraph /\ subGraphs' = checkpoint.subGraphs
      /\ outcome' = [n \in {} |-> "ok"]
      /\ UNCHANGED <<round, at, checkpoint, runs, faults>>
  BY DEF CallAgain
<1>2. NestedTypes'
  BY <1>1 DEF NestedTypes, TopGraph, Progress, NestedAssumption
<1>3. CheckpointPlaced'
  BY <1>1 DEF CheckpointPlaced
<1>4. VisitCounted'
  BY <1>1 DEF VisitCounted, ContinuesWhereItWas
<1> QED
  BY <1>2, <1>3, <1>4

\* For any nodes, nested graphs and rounds, and however often it interrupts:
\* as long as no two nodes interrupt before the outer graph saves, a nested
\* graph goes on where it was and starts afresh when it is visited again.
\* With two it may not (run nested_resume_both).
THEOREM NestedCorrect == NestedSpec /\ []OneInterrupts => NestedGraphsResume
<1> USE NestedAssumed
<1>1. NestedInit => NestedInv
  BY NestedInitInv
<1>2. NestedInv /\ OneInterrupts /\ [NestedNext]_nestedVars => NestedInv'
  <2> SUFFICES ASSUME NestedInv, OneInterrupts, [NestedNext]_nestedVars PROVE NestedInv'
    OBVIOUS
  <2>1. CASE \E n \in Nodes : Create(n) \/ Complete(n) \/ Interrupt(n)
    BY <2>1, CreateInv, TaskInv
  <2>2. CASE \E n \in Sub : StepOnce(n)
    BY <2>2, StepOnceInv
  <2>3. CASE NextRound \/ Save \/ CallAgain
    BY <2>3, NextRoundInv, SaveInv, CallAgainInv
  <2>4. CASE UNCHANGED nestedVars
    BY <2>4 DEF nestedVars, NestedInv, NestedTypes, CheckpointPlaced, VisitCounted,
                ContinuesWhereItWas
  <2> QED
    BY <2>1, <2>2, <2>3, <2>4 DEF NestedNext
<1>3. NestedInv => ContinuesWhereItWas
  BY DEF NestedInv, VisitCounted
<1>4. NestedInv /\ [NestedNext]_nestedVars =>
        [\A n \in Sub : phase = "create" /\ n \in todo /\ n \notin todo' => at'[n] = 0]_nestedVars
  <2> SUFFICES ASSUME NestedInv, NestedNext, NEW n \in Sub, phase = "create", n \in todo, n \notin todo'
               PROVE  at'[n] = 0
    OBVIOUS
  <2>1. PICK m \in Nodes : Create(m)
    BY DEF NestedNext, Complete, Interrupt, Running, StepOnce, NextRound, AllWaited, Save, CallAgain
  <2>2. m = n
    BY <2>1 DEF Create
  <2> QED
    BY <2>1, <2>2, CreateInv
<1> QED
  BY <1>1, <1>2, <1>3, <1>4, PTL DEF NestedSpec, NestedGraphsResume, NextVisitStartsFresh

=============================================================================
