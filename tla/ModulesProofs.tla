----------------------------- MODULE ModulesProofs -----------------------------
(***************************************************************************)
(* Proofs about Session, Storage, Power and Multi, four parts of           *)
(* MCModules, for any windows, files, properties, values and commands:     *)
(* frozen windows thaw on a plain unlock, what save() wrote is what a      *)
(* restart finds, the settings of CPU and radio outlast what happens to    *)
(* them, and the commands of a list run in turn although the executer and  *)
(* the dispatcher both start them.  Each invariant is proved of its part   *)
(* alone, that of the desktop in DesktopProofs; EachModule carries it to   *)
(* the composition, in which every step is a step of one part.             *)
(***************************************************************************)
EXTENDS MCModules, DesktopProofs

\* Taking the last message of those that wait.
LEMMA TakeLast ==
    ASSUME NEW V, NEW s \in Seq(V), s # <<>>
    PROVE  /\ S!Last(s) \in V /\ S!Front(s) \in Seq(V)
           /\ Len(s) = 1 => S!Front(s) = <<>>
<1>1. Len(s) \in Nat /\ Len(s) > 0
  OBVIOUS
<1>2. S!Last(s) \in V
  BY <1>1 DEF S!Last
<1>3. S!Front(s) \in Seq(V)
  BY <1>1, SubSeqProperties DEF S!Front
<1>4. ASSUME Len(s) = 1 PROVE S!Front(s) = <<>>
  BY <1>4, <1>1, <1>3, SubSeqProperties DEF S!Front
<1> QED
  BY <1>2, <1>3, <1>4

-----------------------------------------------------------------------------
\* Every variable of Session keeps its type.
THEOREM SessionTyping == S!SessionSpec => []S!SessionTypeOK
<1>1. S!SessionInit => S!SessionTypeOK
  <2> SUFFICES ASSUME S!SessionInit
               PROVE  S!SessionTypeOK
    OBVIOUS
  <2>1. window \in [Window -> {"none", "run", "frozen"}]
    BY DEF S!SessionInit
  <2>2. locks \in Seq({"lock", "unlock"})
    BY DEF S!SessionInit
  <2> QED
    BY <2>1, <2>2 DEF S!SessionInit, S!SessionTypeOK
<1>2. S!SessionTypeOK /\ [S!SessionNext]_S!sessionVars => S!SessionTypeOK'
  <2> SUFFICES ASSUME S!SessionTypeOK, [S!SessionNext]_S!sessionVars
               PROVE  S!SessionTypeOK'
    OBVIOUS
  <2> USE DEF S!SessionTypeOK, S!sessionVars, S!configVars, S!screenVars, S!Lapsed
  <2>1. ASSUME NEW m, S!Take(m) PROVE locks' \in Seq({"lock", "unlock"}) /\ locked' = locked
    BY <2>1, TakeLast DEF S!Take
  <2>2. ASSUME NEW inhibited \in BOOLEAN, NEW reached, S!Freeze(inhibited, reached)
        PROVE  S!SessionTypeOK'
    BY <2>1, <2>2 DEF S!Freeze, S!Signal
  <2>3. ASSUME NEW inhibited \in BOOLEAN, NEW reached, S!Thaw(inhibited, reached)
        PROVE  S!SessionTypeOK'
    BY <2>1, <2>3 DEF S!Thaw, S!Signal
  <2>4. ASSUME NEW on \in BOOLEAN, NEW names \in SUBSET Window, S!Reload(on, names)
        PROVE  S!SessionTypeOK'
    BY <2>4 DEF S!Reload
  <2>5. ASSUME NEW source \in {"power", "battery"}, S!Power(source)
        PROVE  S!SessionTypeOK'
    BY <2>5 DEF S!Power
  <2>6. ASSUME NEW w \in Window, S!Open(w) \/ S!Close(w)
        PROVE  S!SessionTypeOK'
    BY <2>6 DEF S!Open, S!Close
  <2>7. CASE S!Lock
    BY <2>7 DEF S!Lock
  <2>8. CASE S!Unlock
    <3>1. locks' \in Seq({"lock", "unlock"})
      BY <2>8 DEF S!Unlock
    <3>2. lapse' \subseteq {"reloaded", "unlisted", "swapped"}
      BY <2>8 DEF S!Unlock
    <3> QED
      BY <2>8, <3>1, <3>2 DEF S!Unlock
  <2>9. CASE UNCHANGED S!sessionVars
    BY <2>9
  <2> QED
    BY <2>2, <2>3, <2>4, <2>5, <2>6, <2>7, <2>8, <2>9 DEF S!SessionNext
<1> QED
  BY <1>1, <1>2, PTL DEF S!SessionSpec

-----------------------------------------------------------------------------
(* Windows.                                                                *)

\* Until a window may have been lost, only windows that count are frozen; and while the
\* screen is not locked none is, or the one message that waits is that of the unlock.
Thawing ==
    lapse = {} =>
        /\ S!Frozen \subseteq S!Covered
        /\ ~locked => \/ locks = <<>> /\ S!Frozen = {}
                      \/ locks = <<"unlock">>

\* Once the screen is unlocked and that was handled, every window runs.
THEOREM EveryWindowThaws == S!SessionSpec => []S!WindowsThaw
<1>1. S!SessionInit => Thawing
  BY DEF S!SessionInit, Thawing, S!Frozen
<1>2. S!SessionTypeOK /\ Thawing /\ [S!SessionNext]_S!sessionVars => Thawing'
  <2> SUFFICES ASSUME S!SessionTypeOK, Thawing, [S!SessionNext]_S!sessionVars, lapse' = {}
               PROVE  /\ S!Frozen' \subseteq S!Covered'
                      /\ ~locked' => \/ locks' = <<>> /\ S!Frozen' = {}
                                     \/ locks' = <<"unlock">>
    BY DEF Thawing
  <2> USE DEF S!SessionTypeOK, S!sessionVars, S!configVars, S!screenVars
  <2>1. lapse = {}
    BY DEF S!SessionNext, S!Freeze, S!Thaw, S!Reload, S!Power, S!Open, S!Close, S!Lock,
           S!Unlock, S!Lapsed
  <2>2. /\ S!Frozen \subseteq S!Covered
        /\ ~locked => \/ locks = <<>> /\ S!Frozen = {}
                      \/ locks = <<"unlock">>
    BY <2>1 DEF Thawing
  <2>3. ASSUME NEW inhibited \in BOOLEAN, NEW reached \in SUBSET Window,
               S!Freeze(inhibited, reached)
        PROVE  S!Frozen' \subseteq S!Covered' /\ locked'
    <3>1. S!Frozen' \subseteq S!Frozen \cup S!Covered /\ S!Covered' = S!Covered
      BY <2>3 DEF S!Freeze, S!Signal, S!Frozen, S!Covered
    <3>2. locked
      <4>1. locks # <<>> /\ S!Last(locks) = "lock"
        BY <2>3 DEF S!Freeze, S!Take
      <4>2. S!Last(<<"unlock">>) = "unlock"
        BY DEF S!Last
      <4> QED
        BY <2>2, <4>1, <4>2
    <3> QED
      BY <2>2, <2>3, <3>1, <3>2 DEF S!Freeze, S!Take
  <2>4. ASSUME NEW inhibited \in BOOLEAN, NEW reached \in SUBSET Window,
               S!Thaw(inhibited, reached)
        PROVE  S!Frozen' = {} /\ (~locked' => locks' = <<>>)
    <3>1. S!Frozen \subseteq reached
      BY <2>4 DEF S!Thaw, S!Lapsed
    <3>2. S!Frozen' = {}
      BY <2>2, <2>4, <3>1 DEF S!Thaw, S!Signal, S!Frozen
    <3>3. locks' = S!Front(locks) /\ locked' = locked /\ locks # <<>>
      BY <2>4 DEF S!Thaw, S!Take
    <3>4. S!Front(<<"unlock">>) = <<>>
      <4>1. <<"unlock">> \in Seq({"unlock"}) /\ <<"unlock">> # <<>> /\ Len(<<"unlock">>) = 1
        OBVIOUS
      <4> QED
        BY <4>1, TakeLast
    <3> QED
      BY <2>2, <3>2, <3>3, <3>4
  <2>5. ASSUME NEW on \in BOOLEAN, NEW names \in SUBSET Window, S!Reload(on, names)
        PROVE  S!Frozen' = S!Frozen /\ S!Frozen' \subseteq S!Covered' /\ UNCHANGED S!screenVars
    <3>1. S!Frozen = {} \/ (on /\ names = {})
      BY <2>5 DEF S!Reload, S!Lapsed
    <3> QED
      BY <2>5, <3>1 DEF S!Reload, S!Frozen, S!Covered
  <2>6. ASSUME NEW source \in {"power", "battery"}, S!Power(source)
        PROVE  UNCHANGED <<S!Frozen, S!Covered, S!screenVars>>
    BY <2>6 DEF S!Power, S!Frozen, S!Covered
  <2>7. ASSUME NEW w \in Window, S!Open(w) \/ S!Close(w)
        PROVE  UNCHANGED <<S!Frozen, S!Covered, S!screenVars>>
    <3>1. \A v \in Window : window'[v] = "frozen" <=> window[v] = "frozen"
      BY <2>7 DEF S!Open, S!Close
    <3>2. S!Frozen' = S!Frozen
      BY <3>1 DEF S!Frozen
    <3>3. UNCHANGED <<freeze, spared, S!screenVars>>
      BY <2>7 DEF S!Open, S!Close
    <3>4. S!Covered' = S!Covered
      BY <3>3 DEF S!Covered
    <3> QED
      BY <3>2, <3>3, <3>4
  <2>8. CASE S!Lock
    BY <2>2, <2>8 DEF S!Lock, S!Frozen, S!Covered
  <2>9. ASSUME S!Unlock
        PROVE  S!Frozen' \subseteq S!Covered' /\ locks' = <<"unlock">>
    <3>1. locks = <<>>
      BY <2>9 DEF S!Unlock, S!Lapsed
    <3> QED
      BY <2>2, <2>9, <3>1 DEF S!Unlock, S!Frozen, S!Covered
  <2>10. CASE UNCHANGED S!sessionVars
    BY <2>2, <2>10 DEF S!Frozen, S!Covered
  <2> QED
    BY <2>2, <2>3, <2>4, <2>5, <2>6, <2>7, <2>8, <2>9, <2>10 DEF S!SessionNext
<1>3. Thawing => S!WindowsThaw
  BY DEF Thawing, S!WindowsThaw
<1> QED
  BY <1>1, <1>2, <1>3, SessionTyping, PTL DEF S!SessionSpec


\* Memory, the file and what is wanted are trees over the same names.
Trees ==
    /\ data = [n \in Name |-> data[n]]
    /\ file = [n \in Name |-> file[n]]
    /\ wanted = [n \in Name |-> wanted[n]]
    /\ dirty \subseteq Name /\ edited \subseteq Name

\* Put() changes the name its path begins with and no other one.
LEMMA PutKeepsOthers ==
    ASSUME NEW tree, tree = [n \in Name |-> tree[n]], NEW p \in C!Path, NEW v
    PROVE  /\ p[1] \in Name
           /\ C!Put(tree, p, v) = [n \in Name |-> C!Put(tree, p, v)[n]]
           /\ \A n \in Name : n # p[1] => C!Put(tree, p, v)[n] = tree[n]
<1>1. p[1] \in Name
  BY DEF C!Path
<1> QED
  BY <1>1 DEF C!Put

-----------------------------------------------------------------------------
\* What was wanted last is in memory unless it waits in the file, and in the file unless it
\* waits in memory: no sequence of sets, saves, edits and reloads loses a value, except in the
\* ways of Lapsed.
THEOREM ValuesAreKept == C!StorageInit /\ [][C!StorageNext]_C!storageVars => []C!ConfigKept
<1>1. C!StorageInit => Trees /\ C!ConfigKept
  BY DEF C!StorageInit, C!Nothing, Trees, C!ConfigKept
<1>2. Trees /\ C!ConfigKept /\ [C!StorageNext]_C!storageVars => Trees' /\ C!ConfigKept'
  <2> SUFFICES ASSUME Trees, C!ConfigKept, [C!StorageNext]_C!storageVars
               PROVE  Trees' /\ C!ConfigKept'
    OBVIOUS
  <2> USE DEF C!storageVars, C!diskVars
  <2>1. CASE UNCHANGED C!storageVars
    BY <2>1 DEF Trees, C!ConfigKept
  <2> SUFFICES ASSUME C!StorageNext
               PROVE  Trees' /\ C!ConfigKept'
    BY <2>1
  <2>2. \A n \in Name : /\ n \in edited \/ data[n] = wanted[n]
                        /\ n \in dirty \/ file[n] = wanted[n]
    BY DEF C!StorageNext, C!ConfigKept
  <2>3. ASSUME NEW p \in C!Path, NEW v \in Entry, C!Set(p, v)
        PROVE  Trees' /\ C!ConfigKept'
    <3>1. /\ p[1] \in Name
          /\ data' = [n \in Name |-> data'[n]]
          /\ \A n \in Name : n # p[1] => data'[n] = data[n]
      BY <2>3, PutKeepsOthers DEF C!Set, Trees
    <3>2. /\ wanted' = [wanted EXCEPT ![p[1]] = data'[p[1]]]
          /\ dirty' = dirty \cup {p[1]}
          /\ UNCHANGED <<file, edited>>
      BY <2>3 DEF C!Set
    <3>3. Trees'
      BY <3>1, <3>2 DEF Trees
    <3>4. \A n \in Name : /\ n \in edited' \/ data'[n] = wanted'[n]
                          /\ n \in dirty' \/ file'[n] = wanted'[n]
      BY <2>2, <3>1, <3>2 DEF Trees
    <3> QED
      BY <3>3, <3>4 DEF C!ConfigKept
  <2>4. ASSUME NEW p \in C!Path, NEW v, C!Edit(p, v)
        PROVE  Trees' /\ C!ConfigKept'
    <3>1. /\ p[1] \in Name
          /\ file' = [n \in Name |-> file'[n]]
          /\ \A n \in Name : n # p[1] => file'[n] = file[n]
      BY <2>4, PutKeepsOthers DEF C!Edit, Trees
    <3>2. /\ wanted' = [wanted EXCEPT ![p[1]] = file'[p[1]]]
          /\ edited' = edited \cup {p[1]}
          /\ UNCHANGED <<data, dirty>>
      BY <2>4 DEF C!Edit
    <3>3. Trees'
      BY <3>1, <3>2 DEF Trees
    <3>4. \A n \in Name : /\ n \in edited' \/ data'[n] = wanted'[n]
                          /\ n \in dirty' \/ file'[n] = wanted'[n]
      BY <2>2, <3>1, <3>2 DEF Trees
    <3> QED
      BY <3>3, <3>4 DEF C!ConfigKept
  <2>5. CASE C!Save
    <3>1. \/ /\ file' = data /\ dirty' = {} /\ edited' = {}
             /\ slip' = {} => edited = {}
          \/ UNCHANGED <<file, dirty, edited>>
          \/ file' = [n \in Name |-> None] /\ dirty' = Name /\ edited' = {} /\ slip' # {}
      BY <2>5 DEF C!Save, C!Lapsed, C!Nothing
    <3>2. UNCHANGED <<data, wanted>>
      BY <2>5 DEF C!Save
    <3>3. Trees'
      BY <3>1, <3>2 DEF Trees
    <3> QED
      BY <2>2, <3>1, <3>2, <3>3 DEF C!ConfigKept
  <2>6. CASE C!Load
    <3>1. /\ data' = [n \in Name |-> IF C!Missing(n) THEN data[n] ELSE file[n]]
          /\ dirty' = {n \in dirty : C!Missing(n)}
          /\ edited' = {}
          /\ UNCHANGED <<file, wanted>>
      BY <2>6 DEF C!Load, C!Merged
    <3>2. slip' = {} => /\ \A n \in dirty : C!Missing(n)
                        /\ \A n \in edited : ~C!Missing(n)
      BY <2>6 DEF C!Load, C!Lapsed
    <3>3. Trees'
      BY <3>1 DEF Trees
    <3>4. ASSUME slip' = {}, NEW n \in Name
          PROVE  data'[n] = wanted[n] /\ (n \in dirty \/ file[n] = wanted[n])
      BY <2>2, <3>1, <3>2, <3>4
    <3>5. slip' = {} => dirty' = dirty
      BY <3>1, <3>2
    <3> QED
      BY <3>1, <3>3, <3>4, <3>5 DEF C!ConfigKept
  <2>7. ASSUME NEW p \in C!Path, NEW v \in Entry, C!Default(p, v)
        PROVE  Trees' /\ C!ConfigKept'
    BY <2>3, <2>7 DEF C!Default
  <2>8. \A n \in Name : <<n>> \in C!Path
    BY DEF C!Path
  <2> QED
    BY <2>3, <2>4, <2>5, <2>6, <2>7, <2>8 DEF C!StorageNext
<1> QED
  BY <1>1, <1>2, PTL


\* A value for every setting: the governor, the frequencies and the like of cpu.py.
Settings(f) == f = [s \in P!Setting |-> f[s]]

\* When every file of a full set of settings is written, exactly these are in force.
LEMMA SetAll ==
    ASSUME NEW values, Settings(values)
    PROVE  P!Set(values, DOMAIN values) = values
<1>1. DOMAIN values = P!Setting
  BY DEF Settings
<1> QED
  BY <1>1 DEF P!Set, P!Overlay, Settings

\* Restoring a configuration that holds no settings writes nothing.
LEMMA SetNone ==
    ASSUME Settings(hw)
    PROVE  P!Set(<<>>, DOMAIN <<>>) = hw
<1>1. DOMAIN <<>> = {}
  OBVIOUS
<1> QED
  BY <1>1 DEF P!Set, P!Overlay, Settings

-----------------------------------------------------------------------------
(* The invariant.                                                          *)

\* The settings are reduced for a hibernate only, whose end is still to come or waits.
Stage ==
    /\ ~daemon => ~reduced
    /\ posts \in Seq({"pre", "post"})
    /\ reduced /\ phase = "awake" => \E n \in DOMAIN posts : posts[n] = "post"

\* What was accepted is in force or in the configuration.  Without any in the configuration
\* it is the largest settings, and so is what is in force.
Held ==
    /\ Settings(hw) /\ Settings(asked)
    /\ saved \in {<<>>, asked}
    /\ saved = <<>> => asked = P!Maxima /\ hw = P!Maxima
    /\ daemon /\ ~reduced => hw = asked

\* The radios that are on are those that should be; during a hibernate, some of them.
Tuned ==
    daemon /\ ~deaf => /\ radioOn \subseteq states
                       /\ ~reduced => radioOn = states

Kept == lost = {} => Stage /\ Held /\ Tuned

\* A daemon that has never run, on settings nobody has touched, satisfies the invariant.
LEMMA KeptInit == P!PowerInit => Kept
<1> SUFFICES ASSUME P!PowerInit PROVE Stage /\ Held /\ Tuned
  BY DEF Kept
<1>1. <<>> \in Seq({"pre", "post"})
  OBVIOUS
<1> QED
  BY <1>1 DEF P!PowerInit, Stage, Held, Tuned, Settings, P!Maxima

\* A message that comes keeps those that wait.
LEMMA TellKeeps ==
    ASSUME Stage, NEW m \in {"pre", "post"}, P!Tell(m)
    PROVE  /\ posts' \in Seq({"pre", "post"})
           /\ daemon => posts'[Len(posts')] = m
           /\ (\E n \in DOMAIN posts : posts[n] = "post")
                => \E n \in DOMAIN posts' : posts'[n] = "post"
           /\ daemon => Len(posts') \in DOMAIN posts'
<1>1. posts \in Seq({"pre", "post"})
  BY DEF Stage
<1>2. CASE ~daemon
  BY <1>1, <1>2 DEF P!Tell
<1>3. CASE daemon
  <2>1. posts' = Append(posts, m)
    BY <1>3 DEF P!Tell
  <2>2. /\ posts' \in Seq({"pre", "post"})
        /\ Len(posts') = Len(posts) + 1 /\ Len(posts) \in Nat
        /\ \A n \in 1..Len(posts) : posts'[n] = posts[n]
        /\ posts'[Len(posts) + 1] = m
        /\ DOMAIN posts = 1..Len(posts) /\ DOMAIN posts' = 1..Len(posts')
    BY <1>1, <2>1
  <2> QED
    BY <2>2
<1> QED
  BY <1>2, <1>3

\* A step that leaves the settings alone, and ends no hibernate, keeps what was accepted.
LEMMA HeldFrame ==
    ASSUME Held, UNCHANGED <<hw, saved, asked>>,
           daemon' /\ ~reduced' => daemon /\ ~reduced
    PROVE  Held'
BY DEF Held, Settings, P!Maxima

\* Switching a radio, on request or by force, keeps the radios in step with their states.
LEMMA RadioStep ==
    ASSUME Tuned, NEW r \in Radio, NEW on \in BOOLEAN, NEW force, P!Act(r, on, force)
    PROVE  Tuned'
<1>1. UNCHANGED <<daemon, reduced>> /\ (deaf => deaf')
  BY DEF P!Act, P!Switch, P!systemVars
<1>2. ASSUME ~deaf', on
      PROVE  radioOn' = radioOn \cup {r} /\ states' = states \cup {r}
  BY <1>2 DEF P!Act, P!Switch
<1>3. ASSUME ~deaf', ~on
      PROVE  radioOn' = radioOn \ {r} /\ states' = states \ {r}
  BY <1>3 DEF P!Act, P!Switch
<1> QED
  BY <1>1, <1>2, <1>3 DEF Tuned

-----------------------------------------------------------------------------
\* Every step of the daemon, of a user and of the system keeps the invariant.
LEMMA KeptStep == Kept /\ [P!PowerNext]_P!powerVars => Kept'
<1> SUFFICES ASSUME Kept, [P!PowerNext]_P!powerVars, lost' = {}
             PROVE  Stage' /\ Held' /\ Tuned'
  BY DEF Kept
<1> USE DEF P!cpuVars, P!radioVars, P!systemVars, P!powerVars
<1>1. lost = {}
  BY DEF P!PowerNext, P!Config, P!Act, P!BootConfig, P!Pre, P!Post, P!Start, P!Stop, P!Crash,
      P!Hibernate,
         P!Sleep, P!Wake, P!Reduce, P!Restore, P!Lapsed
<1>2. Stage /\ Held /\ Tuned
  BY <1>1 DEF Kept
<1>3. ASSUME NEW some \in SUBSET P!Setting, NEW values \in [some -> Value], P!Config(values)
      PROVE  Stage' /\ Held' /\ Tuned'
  <2>1. ~reduced /\ daemon
    BY <1>3 DEF P!Config, P!Lapsed
  <2>2. PICK written \in P!Written(values), read \in BOOLEAN :
           /\ hw' = P!Set(values, written)
           /\ asked' = P!Overlay(values, asked)
           /\ P!Save(read, hw', FALSE)
           /\ lost' = lost \cup P!Lapsed("failed", ~read \/ written # DOMAIN values)
                           \cup P!Lapsed("swapped", reduced)
    BY <1>3 DEF P!Config
  <2>3. read /\ written = DOMAIN values
    BY <2>2 DEF P!Lapsed
  <2>4. hw = asked
    BY <1>2, <2>1 DEF Held
  <2>5. hw' = asked' /\ saved' = asked'
    <3>1. values = [s \in written |-> values[s]]
      BY <2>3
    <3> QED
      BY <2>2, <2>3, <2>4, <3>1 DEF P!Set, P!Save
  <2>6. Settings(asked')
    BY <2>2 DEF P!Overlay, Settings
  <2>7. saved' = <<>> => asked' = P!Maxima
    <3>1. CASE P!Setting = {}
      BY <2>6, <3>1 DEF Settings, P!Maxima
    <3>2. CASE P!Setting # {}
      <4>1. DOMAIN asked' = P!Setting
        BY <2>6 DEF Settings
      <4>2. DOMAIN <<>> = {}
        OBVIOUS
      <4> QED
        BY <2>5, <3>2, <4>1, <4>2
    <3> QED
      BY <3>1, <3>2
  <2>8. Held'
    BY <2>5, <2>6, <2>7 DEF Held, Settings, P!Maxima
  <2>9. Stage' /\ Tuned'
    BY <1>2, <1>3 DEF P!Config, Stage, Tuned
  <2> QED
    BY <2>8, <2>9
<1>4. ASSUME NEW r \in Radio, NEW on \in BOOLEAN, NEW force \in BOOLEAN, P!Act(r, on, force)
      PROVE  Stage' /\ Held' /\ Tuned'
  <2>1. UNCHANGED <<P!cpuVars, P!systemVars, reduced>>
    BY <1>4 DEF P!Act
  <2>2. Held'
    BY <1>2, <2>1, HeldFrame
  <2>3. Tuned'
    BY <1>2, <1>4, RadioStep
  <2> QED
    BY <1>2, <2>1, <2>2, <2>3 DEF Stage
<1>5. ASSUME NEW r \in Radio, NEW on \in BOOLEAN, P!BootConfig(r, on)
      PROVE  Stage' /\ Held' /\ Tuned'
  <2>1. UNCHANGED <<hw, saved, asked, P!systemVars, reduced, radioOn, states, deaf>>
    BY <1>5 DEF P!BootConfig
  <2>2. Held'
    BY <1>2, <2>1, HeldFrame
  <2> QED
    BY <1>2, <2>1, <2>2 DEF Stage, Tuned
<1>6. ASSUME P!Pre
      PROVE  Stage' /\ Held' /\ Tuned'
  <2>1. PICK written \in P!Written(P!Maxima), read \in BOOLEAN :
           /\ hw' = P!Set(P!Maxima, written)
           /\ P!Keep(read, hw', FALSE)
           /\ lost' = lost \cup P!Lapsed("failed", ~read)
                            \cup P!Lapsed("swapped", phase = "awake" \/ reduced)
    BY <1>6 DEF P!Pre, P!Reduce
  <2>2. read /\ phase # "awake" /\ ~reduced
    BY <2>1 DEF P!Lapsed
  <2>3. daemon /\ UNCHANGED <<daemon, phase, asked, states>> /\ reduced' = TRUE
    BY <1>6 DEF P!Pre, P!Take, P!Reduce
  <2>4. posts' \in Seq({"pre", "post"})
    <3>1. posts \in Seq({"pre", "post"}) /\ posts # <<>> /\ posts' = P!Front(posts)
      BY <1>2, <1>6 DEF P!Pre, P!Take, Stage
    <3> QED
      BY <3>1, TakeLast DEF P!Front, S!Front
  <2>6. Stage'
    BY <2>2, <2>3, <2>4 DEF Stage
  <2>7. hw = asked /\ saved' = hw
    BY <1>2, <2>1, <2>2, <2>3 DEF Held, P!Keep, P!Save
  <2>8. Held'
    <3>1. Settings(hw')
      BY <2>1 DEF P!Set, P!Overlay, Settings
    <3>2. ASSUME saved' = <<>> PROVE asked' = P!Maxima /\ hw' = P!Maxima
      <4>1. P!Setting = {}
        BY <1>2, <2>7, <3>2 DEF Held, Settings
      <4> QED
        BY <1>2, <2>3, <3>1, <4>1 DEF Held, Settings, P!Maxima
    <3>3. Settings(asked')
      BY <1>2, <2>3 DEF Held, Settings
    <3> QED
      BY <2>3, <2>7, <3>1, <3>2, <3>3 DEF Held, Settings, P!Maxima
  <2>9. Tuned'
    <3>1. ~deaf' => ~deaf /\ radioOn' = radioOn \ states
      BY <1>6 DEF P!Pre, P!Switch
    <3> QED
      BY <1>2, <2>3, <3>1 DEF Tuned
  <2> QED
    BY <2>6, <2>8, <2>9
<1>7. ASSUME NEW stale \in BOOLEAN, P!Restore(saved, stale), UNCHANGED <<saved, asked>>
      PROVE  Held' /\ hw' = asked'
  <2>1. hw' = P!Set(saved, DOMAIN saved)
    BY <1>7 DEF P!Restore, P!Lapsed
  <2>2. CASE saved = <<>>
    <3>1. hw' = hw
      BY <1>2, <2>1, <2>2, SetNone DEF Held
    <3> QED
      BY <1>2, <1>7, <2>2, <3>1 DEF Held, Settings, P!Maxima
  <2>3. CASE saved = asked
    <3>1. hw' = asked
      BY <1>2, <2>1, <2>3, SetAll DEF Held
    <3> QED
      BY <1>2, <1>7, <2>3, <3>1 DEF Held, Settings, P!Maxima
  <2> QED
    BY <1>2, <2>2, <2>3 DEF Held
<1>8. ASSUME P!Post
      PROVE  Stage' /\ Held' /\ Tuned'
  <2>1. Held'
    BY <1>7, <1>8 DEF P!Post
  <2>2. daemon /\ UNCHANGED <<daemon, phase, states>> /\ ~reduced'
    BY <1>8 DEF P!Post, P!Take
  <2>3. posts' \in Seq({"pre", "post"})
    <3>1. posts \in Seq({"pre", "post"}) /\ posts # <<>> /\ posts' = P!Front(posts)
      BY <1>2, <1>8 DEF P!Post, P!Take, Stage
    <3> QED
      BY <3>1, TakeLast DEF P!Front, S!Front
  <2>4. Tuned'
    <3>1. ~deaf' => ~deaf /\ radioOn' = radioOn \cup states
      BY <1>8 DEF P!Post, P!Switch
    <3> QED
      BY <1>2, <2>2, <3>1 DEF Tuned
  <2> QED
    BY <2>1, <2>2, <2>3, <2>4 DEF Stage
<1>9. ASSUME P!Start
      PROVE  Stage' /\ Held' /\ Tuned'
  <2>1. PICK loaded \in {disk, P!Blank} :
           saved' = loaded.cpu /\ P!Restore(saved', saved' # saved)
    BY <1>9 DEF P!Start
  <2>2. saved' = saved
    BY <2>1 DEF P!Restore, P!Lapsed
  <2>3. asked' = asked /\ P!Restore(saved, saved' # saved) /\ (saved' # saved) \in BOOLEAN
    BY <1>9, <2>1, <2>2 DEF P!Start
  <2>4. Held'
    BY <1>7, <2>2, <2>3
  <2>5. Stage'
    BY <1>2, <1>9 DEF P!Start, Stage
  <2>6. Tuned'
    BY <1>9 DEF P!Start, P!Switch, Tuned
  <2> QED
    BY <2>4, <2>5, <2>6
<1>10. ASSUME P!Stop
       PROVE  Stage' /\ Held' /\ Tuned'
  <2>1. PICK written \in P!Written(P!Maxima), read \in BOOLEAN :
           /\ hw' = P!Set(P!Maxima, written)
           /\ P!Keep(read, hw', TRUE)
           /\ lost' = lost \cup P!Lapsed("failed", ~read) \cup P!Lapsed("swapped", reduced)
    BY <1>10 DEF P!Stop, P!Reduce
  <2>2. read /\ ~reduced /\ daemon
    BY <1>10, <2>1 DEF P!Lapsed, P!Stop
  <2>3. hw = asked /\ saved' = hw /\ asked' = asked /\ ~daemon'
    BY <1>2, <1>10, <2>1, <2>2 DEF Held, P!Keep, P!Save, P!Stop, P!Reduce
  <2>4. Settings(hw')
    BY <2>1 DEF P!Set, P!Overlay, Settings
  <2>5. ASSUME saved' = <<>> PROVE asked' = P!Maxima /\ hw' = P!Maxima
    <3>1. P!Setting = {}
      BY <1>2, <2>3, <2>5 DEF Held, Settings
    <3> QED
      BY <1>2, <2>3, <2>4, <3>1 DEF Held, Settings, P!Maxima
  <2>6. Held'
    BY <1>2, <2>3, <2>4, <2>5 DEF Held, Settings, P!Maxima
  <2>7. Stage' /\ Tuned'
    <3>1. <<>> \in Seq({"pre", "post"})
      OBVIOUS
    <3> QED
      BY <1>10, <3>1 DEF P!Stop, Stage, Tuned
  <2> QED
    BY <2>6, <2>7
<1>11. ASSUME P!Crash
       PROVE  Stage' /\ Held' /\ Tuned'
  <2>1. /\ ~daemon' /\ posts' = <<>> /\ ~reduced'
        /\ hw' \in {hw, P!Maxima} /\ UNCHANGED <<saved, asked>>
    BY <1>11 DEF P!Crash
  <2>2. Held'
    BY <1>2, <2>1 DEF Held, Settings, P!Maxima
  <2>3. <<>> \in Seq({"pre", "post"})
    OBVIOUS
  <2> QED
    BY <2>1, <2>2, <2>3 DEF Stage, Tuned
<1>12. ASSUME P!Hibernate \/ P!Sleep \/ P!Wake
       PROVE  Stage' /\ Held' /\ Tuned'
  <2>1. UNCHANGED <<P!cpuVars, P!radioVars, daemon, reduced>>
    BY <1>12 DEF P!Hibernate, P!Sleep, P!Wake
  <2>2. Held' /\ Tuned'
    BY <1>2, <2>1, HeldFrame DEF Tuned
  <2>3. Stage'
    <3>1. CASE P!Hibernate
      BY <1>2, <2>1, <3>1, TellKeeps DEF P!Hibernate, Stage
    <3>2. CASE P!Sleep
      BY <1>2, <3>2 DEF P!Sleep, Stage
    <3>3. CASE P!Wake
      BY <1>2, <2>1, <3>3, TellKeeps DEF P!Wake, Stage
    <3> QED
      BY <1>12, <3>1, <3>2, <3>3
  <2> QED
    BY <2>2, <2>3
<1>13. CASE UNCHANGED P!powerVars
  <2>1. Held'
    BY <1>2, <1>13, HeldFrame
  <2> QED
    BY <1>2, <1>13, <2>1 DEF Stage, Tuned
<1> QED
  BY <1>3, <1>4, <1>5, <1>6, <1>8, <1>9, <1>10, <1>11, <1>12, <1>13 DEF P!PowerNext

\* When the system is awake and nothing waits, what was accepted last is in force, whatever
\* hibernates, with any number of messages that wait, stops, crashes, losses of power and
\* saves that do not reach the file came before; unless settings were saved or reduced at a
\* wrong time, could not be read or set, or were not the last ones when the daemon started.
THEOREM SettingsOutlast == P!PowerSpec => []P!SettingsKept
<1>1. Kept => P!SettingsKept
  <2>1. DOMAIN <<>> = {}
    OBVIOUS
  <2> QED
    BY <2>1 DEF Kept, Stage, Held, Tuned, P!SettingsKept, P!Settled
<1> QED
  BY <1>1, KeptInit, KeptStep, PTL DEF P!PowerSpec

\* What is written of some values are values.
LEMMA WrittenFits ==
    ASSUME NEW some \in SUBSET P!Setting, NEW values \in [some -> Value],
           NEW written \in P!Written(values), NEW old \in [P!Setting -> Value]
    PROVE  P!Overlay([s \in written |-> values[s]], old) \in [P!Setting -> Value]
<1>1. written \subseteq some
  BY DEF P!Written
<1>2. \A s \in P!Setting :
         (IF s \in written THEN [r \in written |-> values[r]][s] ELSE old[s]) \in Value
  BY <1>1
<1> QED
  BY <1>2 DEF P!Overlay

\* No settings, or a full set of them, are values of some settings.
LEMMA SavedFits ==
    ASSUME NEW f, f = <<>> \/ f \in [P!Setting -> Value]
    PROVE  \E some \in SUBSET P!Setting : f \in [some -> Value]
<1>1. <<>> \in [{} -> Value]
  OBVIOUS
<1> QED
  BY <1>1

\* Every variable of Power keeps its type.
THEOREM PowerTyping == P!PowerSpec => []P!PowerTypeOK
<1> DEFINE Full == [P!Setting -> Value]
           Some == Full \cup {<<>>}
<1>1. P!PowerInit => P!PowerTypeOK
  <2> SUFFICES ASSUME P!PowerInit PROVE P!PowerTypeOK
    OBVIOUS
  <2>1. hw \in Full /\ asked \in Full
    BY ModulesAssumption DEF P!PowerInit
  <2>2. posts \in Seq({"pre", "post"})
    BY DEF P!PowerInit
  <2>3. disk.cpu = <<>> /\ disk.boot = Radio
    BY DEF P!PowerInit, P!Blank
  <2> QED
    BY <2>1, <2>2, <2>3 DEF P!PowerInit, P!PowerTypeOK
<1>2. P!PowerTypeOK /\ [P!PowerNext]_P!powerVars => P!PowerTypeOK'
  <2> SUFFICES ASSUME P!PowerTypeOK, [P!PowerNext]_P!powerVars
               PROVE  P!PowerTypeOK'
    OBVIOUS
  <2> USE DEF P!cpuVars, P!radioVars, P!systemVars, P!powerVars
  <2>0. hw \in Full /\ asked \in Full /\ saved \in Some /\ disk.cpu \in Some
    BY DEF P!PowerTypeOK
  <2>1. P!Maxima \in Full
    BY ModulesAssumption DEF P!Maxima
  <2>2. hw' \in Full /\ asked' \in Full /\ saved' \in Some /\ disk'.cpu \in Some
    <3>0. ASSUME NEW f, NEW radios, f \in Some, disk' \in P!Files(f, radios)
          PROVE  disk'.cpu \in Some
      BY <2>0, <3>0 DEF P!Files, P!Blank
    <3>1. ASSUME NEW some \in SUBSET P!Setting, NEW values \in [some -> Value], P!Config(values)
          PROVE  hw' \in Full /\ asked' \in Full /\ saved' \in Some /\ disk'.cpu \in Some
      <4>1. PICK written \in P!Written(values), read \in BOOLEAN :
               /\ hw' = P!Overlay([s \in written |-> values[s]], hw)
               /\ asked' = P!Overlay(values, asked)
               /\ P!Save(read, hw', FALSE)
        BY <3>1 DEF P!Config, P!Set
      <4>2. hw' \in Full
        BY <2>0, <4>1, WrittenFits
      <4>3. asked' \in Full
        <5>1. \A s \in P!Setting : (IF s \in DOMAIN values THEN values[s] ELSE asked[s]) \in Value
          BY <2>0
        <5> QED
          BY <4>1, <5>1 DEF P!Overlay
      <4>4. saved' \in Some /\ disk' \in P!Files(saved', boot) \cup {disk}
        BY <2>0, <4>1, <4>2 DEF P!Save
      <4> QED
        BY <2>0, <3>0, <4>2, <4>3, <4>4
    <3>2. ASSUME NEW late, NEW ends \in BOOLEAN, P!Reduce(late, ends)
          PROVE  hw' \in Full /\ asked' \in Full /\ saved' \in Some /\ disk'.cpu \in Some
      <4>1. PICK written \in P!Written(P!Maxima), read \in BOOLEAN :
               hw' = P!Set(P!Maxima, written) /\ P!Keep(read, hw', ends)
        BY <3>2 DEF P!Reduce
      <4>2. hw' \in Full
        BY <2>0, <2>1, <4>1, WrittenFits DEF P!Set
      <4>3. saved' \in Some /\ disk' \in P!Files(saved', boot) \cup {disk}
        BY <2>0, <4>1 DEF P!Keep, P!Save
      <4> QED
        BY <2>0, <3>0, <3>2, <4>2, <4>3 DEF P!Reduce
    <3>3. ASSUME NEW f \in Some, NEW stale, P!Restore(f, stale)
          PROVE  hw' \in Full
      <4>1. PICK some \in SUBSET P!Setting : f \in [some -> Value]
        BY SavedFits
      <4>2. PICK written \in P!Written(f) : hw' = P!Overlay([s \in written |-> f[s]], hw)
        BY <3>3 DEF P!Restore, P!Set
      <4> QED
        BY <2>0, <4>1, <4>2, WrittenFits
    <3>4. ASSUME P!Start
          PROVE  hw' \in Full /\ asked' \in Full /\ saved' \in Some /\ disk'.cpu \in Some
      <4>1. PICK loaded \in {disk, P!Blank} :
               /\ saved' = loaded.cpu
               /\ P!Restore(saved', saved' # saved)
               /\ disk' \in P!Files(saved', boot')
        BY <3>4 DEF P!Start
      <4>2. saved' \in Some
        BY <2>0, <4>1 DEF P!Blank
      <4>3. hw' \in Full
        BY <3>3, <4>1, <4>2
      <4> QED
        BY <2>0, <3>0, <3>4, <4>1, <4>2, <4>3 DEF P!Start
    <3>5. CASE P!Post
      <4>1. P!Restore(saved, FALSE) /\ UNCHANGED <<saved, disk, asked>>
        BY <3>5 DEF P!Post
      <4> QED
        BY <2>0, <3>3, <4>1
    <3>6. ASSUME NEW r \in Radio, NEW on \in BOOLEAN, P!BootConfig(r, on)
          PROVE  hw' \in Full /\ asked' \in Full /\ saved' \in Some /\ disk'.cpu \in Some
      BY <2>0, <3>0, <3>6 DEF P!BootConfig
    <3>7. CASE P!Crash
      BY <2>0, <2>1, <3>7 DEF P!Crash
    <3>8. CASE UNCHANGED <<hw, asked, saved, disk>>
      BY <2>0, <3>8
    <3> QED
      BY <3>1, <3>2, <3>4, <3>5, <3>6, <3>7, <3>8 DEF P!PowerNext, P!Pre, P!Stop, P!Act,
         P!Hibernate, P!Sleep, P!Wake
  <2>3. radioOn' \cup states' \cup boot' \cup disk'.boot \subseteq Radio /\ deaf' \in BOOLEAN
    <3>1. radioOn \cup states \cup boot \cup disk.boot \subseteq Radio /\ deaf \in BOOLEAN
      BY DEF P!PowerTypeOK
    <3>2. ASSUME NEW f, NEW radios \in SUBSET Radio, disk' \in P!Files(f, radios)
          PROVE  disk'.boot \subseteq Radio
      BY <3>1, <3>2 DEF P!Files, P!Blank
    <3>3. disk'.boot \subseteq Radio
      <4>1. ASSUME NEW read, NEW f, NEW ends, P!Save(read, f, ends)
            PROVE  disk'.boot \subseteq Radio
        BY <3>1, <3>2, <4>1 DEF P!Save
      <4>2. ASSUME NEW values, P!Config(values) PROVE disk'.boot \subseteq Radio
        BY <4>1, <4>2 DEF P!Config
      <4>3. ASSUME NEW late, NEW ends \in BOOLEAN, P!Reduce(late, ends)
            PROVE  disk'.boot \subseteq Radio
        BY <4>1, <4>3 DEF P!Reduce, P!Keep
      <4>4. ASSUME NEW r \in Radio, NEW on, P!BootConfig(r, on) PROVE disk'.boot \subseteq Radio
        BY <3>1, <3>2, <4>4 DEF P!BootConfig
      <4>5. CASE P!Start
        <5>1. boot' \in SUBSET Radio /\ disk' \in P!Files(saved', boot')
          BY <3>1, <4>5 DEF P!Start, P!Blank
        <5> QED
          BY <3>2, <5>1
      <4>6. CASE UNCHANGED disk
        BY <3>1, <4>6
      <4> QED
        BY <4>2, <4>3, <4>4, <4>5, <4>6 DEF P!PowerNext, P!Act, P!Pre, P!Post, P!Stop, P!Crash,
           P!Hibernate, P!Sleep, P!Wake
    <3>4. radioOn' \cup states' \cup boot' \subseteq Radio /\ deaf' \in BOOLEAN
      <4>1. CASE P!Start
        <5>1. boot' \subseteq Radio /\ states' = boot' /\ P!Switch(boot')
          BY <3>1, <4>1 DEF P!Start, P!Blank
        <5> QED
          BY <3>1, <5>1 DEF P!Switch
      <4>2. CASE ~P!Start
        BY <3>1, <4>2 DEF P!PowerNext, P!Config, P!Act, P!BootConfig, P!Pre, P!Post, P!Stop,
           P!Crash, P!Hibernate, P!Sleep, P!Wake, P!Switch, P!Take
      <4> QED
        BY <4>1, <4>2
    <3> QED
      BY <3>3, <3>4
  <2>4. (daemon' \in BOOLEAN /\ reduced' \in BOOLEAN) /\ phase' \in {"awake", "going", "asleep"}
    BY DEF P!PowerTypeOK, P!PowerNext, P!Config, P!Act, P!BootConfig, P!Pre, P!Post, P!Start, P!Stop,
       P!Crash, P!Hibernate, P!Sleep, P!Wake, P!Take
  <2>5. posts' \in Seq({"pre", "post"})
    <3>1. ASSUME NEW m, P!Take(m) PROVE posts' \in Seq({"pre", "post"})
      <4>1. posts \in Seq({"pre", "post"}) /\ posts # <<>> /\ posts' = P!Front(posts)
        BY <3>1 DEF P!Take, P!PowerTypeOK
      <4> QED
        BY <4>1, TakeLast DEF P!Front, S!Front
    <3>2. <<>> \in Seq({"pre", "post"})
      OBVIOUS
    <3>3. CASE P!Wake \/ P!Hibernate
      BY <3>3 DEF P!Wake, P!Hibernate, P!Tell, P!PowerTypeOK
    <3>4. CASE posts' \in {posts, <<>>}
      BY <3>2, <3>4 DEF P!PowerTypeOK
    <3> QED
      BY <3>1, <3>3, <3>4 DEF P!PowerNext, P!Config, P!Act, P!BootConfig, P!Pre, P!Post,
         P!Start, P!Stop, P!Crash, P!Sleep
  <2>6. lost' \subseteq {"swapped", "failed", "stale"}
    <3>1. \A l, b : P!Lapsed(l, b) \subseteq {l}
      BY DEF P!Lapsed
    <3>2. ASSUME NEW values, P!Config(values) PROVE lost' \subseteq {"swapped", "failed", "stale"}
      BY <3>1, <3>2 DEF P!PowerTypeOK, P!Config
    <3>3. ASSUME NEW late, NEW ends \in BOOLEAN, P!Reduce(late, ends)
          PROVE  lost' \subseteq {"swapped", "failed", "stale"}
      BY <3>1, <3>3 DEF P!PowerTypeOK, P!Reduce
    <3>4. ASSUME NEW f, NEW stale, P!Restore(f, stale)
          PROVE  lost' \subseteq {"swapped", "failed", "stale"}
      BY <3>1, <3>4 DEF P!PowerTypeOK, P!Restore
    <3>5. CASE lost' = lost
      BY <3>5 DEF P!PowerTypeOK
    <3> QED
      BY <3>2, <3>3, <3>4, <3>5 DEF P!PowerNext, P!Act, P!BootConfig, P!Pre, P!Post,
         P!Start, P!Stop, P!Crash, P!Hibernate, P!Sleep, P!Wake
  <2> QED
    BY <2>2, <2>3, <2>4, <2>5, <2>6 DEF P!PowerTypeOK
<1> QED
  BY <1>1, <1>2, PTL DEF P!PowerSpec

-----------------------------------------------------------------------------
(* Multi: the commands of a list.                                          *)

\* Why a thread polls.
Ops == {"none", "visit", "stop", "suspend", "resume"}

\* Where a thread can be.
Places ==
    {"idle", "poll", "exited", "advance", "start", "signal", "pause", "clear", "kill", "dead"}

\* What a thread can be doing.
Tasks == [op : Ops, at : Places, exit : {"none", "ok", "failed"}, taken : 0..Commands]

\* The task of a thread changes, and that of no other one.
Turns(t, op, place, exit, taken) ==
    /\ task' \in [M!Thread -> Tasks]
    /\ \A u \in M!Thread \ {t} : task'[u] = task[u]
    /\ task'[t].op = op /\ task'[t].at = place /\ task'[t].exit = exit /\ task'[t].taken = taken

\* Every variable has a value the code gives it, and the current process is the last begun.
Typed ==
    /\ Commands \in Nat \ {0}
    /\ breaks \in BOOLEAN /\ reported \in BOOLEAN /\ asleep \in BOOLEAN
    /\ bailed \in BOOLEAN /\ overlapped \in BOOLEAN /\ missed \in BOOLEAN
    /\ cmds \in Seq(M!Command)
    /\ begun \in Seq(M!Command) /\ begun # <<>> /\ current = begun[Len(begun)]
    /\ life \in [M!Command -> {"new", "run", "frozen", "ok", "failed"}]
    /\ task \in [M!Thread -> Tasks]
    /\ stops \in SUBSET M!Thread

\* What is left is the end of the list; what was taken or begun comes before it.
Handed ==
    /\ IsInjective(begun)
    /\ \A c \in M!Command : c \in Range(begun) <=> life[c] # "new"
    /\ Len(cmds) < Commands /\ \A n \in 1..Len(cmds) : cmds[n] = (Commands - Len(cmds)) + n
    /\ \A c \in Range(begun) : c <= Commands - Len(cmds)
    /\ \A t \in M!Thread : M!At(t, "start") =>
          /\ task[t].taken \in M!Command /\ life[task[t].taken] = "new"
          /\ task[t].taken <= Commands - Len(cmds)
          /\ \A u \in M!Thread \ {t} : M!At(u, "start") => task[u].taken # task[t].taken

\* Why a thread is where it is.
Purpose(t) ==
    /\ task[t].at = "idle" <=> task[t].op = "none"
    /\ task[t].op \in {"suspend", "resume"} => t = Disp
    /\ task[t].op = "stop" => t \in stops
    /\ task[t].at \in {"signal", "pause"} => task[t].op \in {"suspend", "resume"}
    /\ task[t].at \in {"clear", "kill"} => task[t].op \in {"visit", "stop"}
    /\ task[t].at = "kill" => cmds = <<>>

\* This goes for every thread, and the end is reported for an empty list only.
Purposes ==
    /\ \A t \in M!Thread : Purpose(t)
    /\ reported => cmds = <<>>

\* What a thread has seen is still so.
Sees(t) ==
    /\ task[t].at \in {"exited", "advance", "start"} =>
          ~M!Live(current) /\ task[t].exit = life[current]
    /\ task[t].at \in M!Advancing =>
          /\ breaks => task[t].exit = "ok"
          /\ \A u \in M!Thread \ {t} : task[u].at \notin M!Advancing
    /\ task[t].at = "advance" => cmds # <<>>
    /\ task[t].at = "start" => ~reported /\ \A c \in Range(begun) : c < task[t].taken
    /\ task[t].at # "dead"

\* What two threads that have not overlapped keep: one process at most is alive, the current
\* one, and commands begin in the order of the list.
Alone ==
    /\ \A t \in M!Thread : Sees(t)
    /\ \A m, n \in 1..Len(begun) : m < n => begun[m] < begun[n]
    /\ M!Runs \subseteq {current}
    /\ reported => ~M!Live(current)

\* The process has ended, and no poll would start another one.
Ended ==
    /\ ~M!Live(current)
    /\ cmds = <<>> \/ (breaks /\ life[current] = "failed")
    /\ \A t \in M!Thread : task[t].at \notin M!Advancing

\* The Backup is suspended, or about to be.
Sleeps ==
    \/ asleep /\ ~(task[Disp].op = "resume" /\ task[Disp].at = "pause")
    \/ task[Disp].op = "suspend" /\ task[Disp].at = "pause"

\* Commands follow one that succeeded, when that matters.
InOrder == breaks => \A n \in 1..(Len(begun) - 1) : life[begun[n]] = "ok"

\* A command was begun or is being begun, unless the list was ended.
Tally ==
    /\ \A t \in M!Thread : task[t].at = "start" =>
          task[t].taken = Len(begun) + 1 /\ task[t].taken = Commands - Len(cmds)
    /\ (\A t \in M!Thread : task[t].at # "start") =>
          IF cmds = <<>> THEN M!EndIsDue ELSE Len(begun) = Commands - Len(cmds)

\* Only an end that has come is seen.
EndSeen ==
    /\ \A t \in M!Thread :
          task[t].at \in {"clear", "kill"} /\ task[t].op = "visit" => M!EndIsDue
    /\ reported => M!EndIsDue

\* A stop ends the list, or is on its way to.
StopHolds == stops # {} => Ended \/ \E t \in M!Thread : task[t].op = "stop"

\* A suspended process is stopped, unless the list has ended.
SleepHolds == Sleeps /\ ~missed => life[current] = "frozen" \/ Ended

\* What holds besides while every command could be started.
Counted == InOrder /\ Tally /\ EndSeen /\ StopHolds /\ SleepHolds

\* The inductive invariant of Multi.
InTurn ==
    /\ Typed /\ Handed /\ Purposes
    /\ ~overlapped => Alone
    /\ ~overlapped /\ ~bailed => Counted

\* There is a first command.
LEMMA AtLeastOne == Typed => Commands \in Nat \ {0}
BY DEF Typed

\* What the steps make of the task of their thread.
LEMMA Goes ==
    ASSUME Typed, NEW t \in M!Thread, NEW p \in Places, M!Goto(t, p)
    PROVE  Turns(t, task[t].op, p, task[t].exit, task[t].taken)
BY DEF Typed, Tasks, M!Goto, Turns

LEMMA Leaves ==
    ASSUME Typed, NEW t \in M!Thread, M!Leave(t)
    PROVE  Turns(t, "none", "idle", "none", 0)
<1>1. M!Idle \in Tasks
  BY AtLeastOne DEF M!Idle, Tasks, Ops, Places
<1> QED
  BY <1>1 DEF Typed, Tasks, M!Leave, Turns, M!Idle

\* Where a thread goes that poll() has told that a process is alive.
LEMMA NoneReturned ==
    ASSUME Typed, Purposes, NEW t \in M!Thread, task[t].at # "idle", M!ReturnsNone(t)
    PROVE  \/ task[t].op = "visit" /\ Turns(t, "none", "idle", "none", 0)
           \/ task[t].op = "stop" /\ Turns(t, "stop", "clear", task[t].exit, task[t].taken)
           \/ /\ task[t].op \in {"suspend", "resume"}
              /\ Turns(t, task[t].op, "signal", task[t].exit, task[t].taken)
<1>1. task[t].op \in {"visit", "stop", "suspend", "resume"}
  BY DEF Purposes, Purpose, Typed, Tasks, Ops, M!At
<1>2. CASE task[t].op = "visit"
  BY <1>2, Leaves DEF M!ReturnsNone
<1>3. CASE task[t].op = "stop"
  BY <1>3, Goes DEF M!ReturnsNone, Places
<1>4. CASE task[t].op \in {"suspend", "resume"}
  BY <1>4, Goes DEF M!ReturnsNone, Places
<1> QED
  BY <1>1, <1>2, <1>3, <1>4

\* Where a thread goes that poll() has told an exit code.
LEMMA ExitReturned ==
    ASSUME Typed, Purposes, NEW t \in M!Thread, task[t].at # "idle", M!ReturnsExit(t)
    PROVE  \/ task[t].op = "stop" /\ Turns(t, "none", "idle", "none", 0)
           \/ task[t].op = "visit" /\ Turns(t, "visit", "clear", task[t].exit, task[t].taken)
           \/ /\ task[t].op \in {"suspend", "resume"}
              /\ Turns(t, task[t].op, "pause", task[t].exit, task[t].taken)
<1>1. task[t].op \in {"visit", "stop", "suspend", "resume"}
  BY DEF Purposes, Purpose, Typed, Tasks, Ops, M!At
<1>2. CASE task[t].op = "stop"
  BY <1>2, Leaves DEF M!ReturnsExit
<1>3. CASE task[t].op = "visit"
  BY <1>3, Goes DEF M!ReturnsExit, Places
<1>4. CASE task[t].op \in {"suspend", "resume"}
  BY <1>4, Goes DEF M!ReturnsExit, Places
<1> QED
  BY <1>1, <1>2, <1>3, <1>4

\* The steps, one by one, in these terms.
LEMMA PollDoes ==
    ASSUME Typed, Handed, Purposes, NEW t \in M!Thread, M!Poll(t)
    PROVE  /\ task[t].at = "poll" /\ task[t].op \in {"visit", "stop", "suspend", "resume"}
           /\ \/ /\ M!Live(current)
                 /\ \/ task[t].op = "visit" /\ Turns(t, "none", "idle", "none", 0)
                    \/ /\ task[t].op = "stop"
                       /\ Turns(t, "stop", "clear", task[t].exit, task[t].taken)
                    \/ /\ task[t].op \in {"suspend", "resume"}
                       /\ Turns(t, task[t].op, "signal", task[t].exit, task[t].taken)
              \/ /\ ~M!Live(current)
                 /\ Turns(t, task[t].op, "exited", life[current], task[t].taken)
<1>1. task[t].at = "poll" /\ task[t].op \in {"visit", "stop", "suspend", "resume"}
  BY DEF M!Poll, Purposes, Purpose, Typed, Tasks, Ops, M!At
<1>2. CASE M!Live(current)
  BY <1>1, <1>2, NoneReturned DEF M!Poll
<1>3. CASE ~M!Live(current)
  <2>1. current \in Range(begun) /\ current \in M!Command
    BY DEF Typed, Range
  <2>2. life[current] \in {"ok", "failed"}
    BY <1>3, <2>1 DEF Handed, Typed, M!Live
  <2>3. task' = [task EXCEPT ![t].at = "exited", ![t].exit = life[current]]
    BY <1>3 DEF M!Poll
  <2> QED
    BY <1>1, <1>3, <2>2, <2>3 DEF Typed, Tasks, Turns, Places
<1> QED
  BY <1>1, <1>2, <1>3

\* Multi.poll(), the test of the list.
LEMMA TestDoes ==
    ASSUME Typed, Purposes, NEW t \in M!Thread, M!Test(t)
    PROVE  /\ task[t].at = "exited" /\ task[t].op \in {"visit", "stop", "suspend", "resume"}
           /\ \/ /\ M!Over(t)
                 /\ \/ task[t].op = "stop" /\ Turns(t, "none", "idle", "none", 0)
                    \/ /\ task[t].op = "visit"
                       /\ Turns(t, "visit", "clear", task[t].exit, task[t].taken)
                    \/ /\ task[t].op \in {"suspend", "resume"}
                       /\ Turns(t, task[t].op, "pause", task[t].exit, task[t].taken)
              \/ ~M!Over(t) /\ Turns(t, task[t].op, "advance", task[t].exit, task[t].taken)
<1>1. task[t].at = "exited" /\ task[t].op \in {"visit", "stop", "suspend", "resume"}
  BY DEF M!Test, Purposes, Purpose, Typed, Tasks, Ops, M!At
<1>2. CASE M!Over(t)
  BY <1>1, <1>2, ExitReturned DEF M!Test
<1>3. CASE ~M!Over(t)
  BY <1>1, <1>3, Goes DEF M!Test, Places
<1> QED
  BY <1>1, <1>2, <1>3

\* Multi._next(), pop(0).
LEMMA PopDoes ==
    ASSUME Typed, Handed, Purposes, NEW t \in M!Thread, M!Pop(t)
    PROVE  /\ task[t].at = "advance" /\ task[t].op \in {"visit", "stop", "suspend", "resume"}
           /\ \/ /\ cmds = <<>> /\ cmds' = <<>>
                 /\ \/ Turns(t, "none", "idle", "none", 0)
                    \/ Turns(t, task[t].op, "dead", task[t].exit, task[t].taken)
              \/ /\ Len(cmds) >= 1 /\ Len(cmds') = Len(cmds) - 1 /\ cmds' \in Seq(M!Command)
                 /\ \A n \in 1..Len(cmds') : cmds'[n] = cmds[n + 1]
                 /\ cmds[1] \in M!Command
                 /\ Turns(t, task[t].op, "start", task[t].exit, cmds[1])
<1>1. task[t].at = "advance" /\ task[t].op \in {"visit", "stop", "suspend", "resume"}
  BY DEF M!Pop, Purposes, Purpose, Typed, Tasks, Ops, M!At
<1>2. CASE cmds = <<>>
  <2>1. M!Leave(t) \/ M!Goto(t, "dead")
    BY <1>2 DEF M!Pop
  <2> QED
    BY <1>1, <1>2, <2>1, Goes, Leaves DEF M!Pop, Places
<1>3. CASE cmds # <<>>
  <2>1. /\ Len(cmds) >= 1 /\ Len(cmds') = Len(cmds) - 1 /\ cmds' \in Seq(M!Command)
        /\ \A n \in 1..Len(cmds') : cmds'[n] = cmds[n + 1]
        /\ cmds[1] \in M!Command /\ Head(cmds) = cmds[1]
    <3>1. cmds' = Tail(cmds) /\ cmds \in Seq(M!Command)
      BY <1>3 DEF M!Pop, Typed
    <3> QED
      BY <1>3, <3>1, HeadTailProperties, ElementOfSeq
  <2>2. task' = [task EXCEPT ![t].at = "start", ![t].taken = cmds[1]]
    BY <1>3, <2>1 DEF M!Pop
  <2>3. cmds[1] \in 0..Commands
    BY <2>1 DEF M!Command
  <2>4. Turns(t, task[t].op, "start", task[t].exit, cmds[1])
    BY <2>2, <2>3 DEF Typed, Tasks, Turns, Places
  <2> QED
    BY <1>1, <2>1, <2>4
<1> QED
  BY <1>1, <1>2, <1>3

\* Multi._next(), the new process.
LEMMA StartDoes ==
    ASSUME Typed, Handed, Purposes, NEW t \in M!Thread, M!Start(t)
    PROVE  /\ task[t].at = "start" /\ task[t].op \in {"visit", "stop", "suspend", "resume"}
           /\ task[t].taken \in M!Command /\ life[task[t].taken] = "new"
           /\ current' = task[t].taken
           /\ life' = [life EXCEPT ![task[t].taken] = "run"]
           /\ begun' \in Seq(M!Command) /\ Len(begun') = Len(begun) + 1
           /\ begun'[Len(begun')] = task[t].taken
           /\ \A n \in 1..Len(begun) : begun'[n] = begun[n]
           /\ Range(begun') = Range(begun) \cup {task[t].taken}
           /\ \/ task[t].op = "visit" /\ Turns(t, "none", "idle", "none", 0)
              \/ task[t].op = "stop" /\ Turns(t, "stop", "clear", task[t].exit, task[t].taken)
              \/ /\ task[t].op \in {"suspend", "resume"}
                 /\ Turns(t, task[t].op, "signal", task[t].exit, task[t].taken)
<1>1. task[t].at = "start" /\ task[t].op \in {"visit", "stop", "suspend", "resume"}
  BY DEF M!Start, Purposes, Purpose, Typed, Tasks, Ops, M!At
<1>2. task[t].taken \in M!Command /\ life[task[t].taken] = "new"
  BY <1>1 DEF Handed, M!At
<1>3. begun' = Append(begun, task[t].taken)
  BY DEF M!Start
<1>4. /\ begun' \in Seq(M!Command) /\ Len(begun') = Len(begun) + 1
      /\ begun'[Len(begun')] = task[t].taken
      /\ \A n \in 1..Len(begun) : begun'[n] = begun[n]
  BY <1>2, <1>3 DEF Typed
<1>5. Range(begun') = Range(begun) \cup {task[t].taken}
  BY <1>2, <1>3, AppendElems DEF Typed
<1>6. current' = task[t].taken /\ life' = [life EXCEPT ![task[t].taken] = "run"]
  BY DEF M!Start
<1> QED
  BY <1>1, <1>2, <1>4, <1>5, <1>6, NoneReturned DEF M!Start

\* Multi._next(), the OSError.
LEMMA FailsDoes ==
    ASSUME Typed, Purposes, NEW t \in M!Thread, M!StartFails(t)
    PROVE  /\ task[t].at = "start" /\ task[t].op \in {"visit", "stop", "suspend", "resume"}
           /\ \/ task[t].op = "stop" /\ Turns(t, "none", "idle", "none", 0)
              \/ /\ task[t].op = "visit"
                 /\ Turns(t, "visit", "clear", task[t].exit, task[t].taken)
              \/ /\ task[t].op \in {"suspend", "resume"}
                 /\ Turns(t, task[t].op, "pause", task[t].exit, task[t].taken)
<1>1. task[t].at = "start" /\ task[t].op \in {"visit", "stop", "suspend", "resume"}
  BY DEF M!StartFails, Purposes, Purpose, Typed, Tasks, Ops, M!At
<1> QED
  BY <1>1, ExitReturned DEF M!StartFails

\* A thread begins to poll.
LEMMA BeginDoes ==
    ASSUME Typed, NEW t \in M!Thread, NEW op \in Ops, M!Begins(t, op)
    PROVE  /\ task[t].at = "idle" /\ ~reported
           /\ Turns(t, op, "poll", task[t].exit, task[t].taken)
<1>1. task[t].at = "idle" /\ ~reported
  BY DEF M!Begins, M!At
<1>2. task' = [task EXCEPT ![t].op = op, ![t].at = "poll"]
  BY DEF M!Begins
<1> QED
  BY <1>1, <1>2 DEF Typed, Tasks, Turns, Places

\* What the steps do besides, in one list.
LEMMA StepDoes ==
    ASSUME Typed, Handed, Purposes, M!MultiNext
    PROVE  \/ \E t \in M!Thread :
                 M!Poll(t) \/ M!Test(t) \/ M!Pop(t) \/ M!Start(t) \/ M!StartFails(t)
                 \/ M!Clear(t) \/ M!Kill(t)
           \/ \E t \in M!Thread, op \in {"visit", "stop", "suspend", "resume"} :
                 /\ M!Begins(t, op)
                 /\ op = "stop" => stops' = stops \cup {t}
                 /\ op # "stop" => stops' = stops
                 /\ op \in {"suspend", "resume"} =>
                       t = Disp /\ breaks /\ stops = {} /\ asleep = (op = "resume")
           \/ M!Signal \/ M!Pause
           \/ \E c \in M!Command, how \in {"ok", "failed"} : M!Exit(c, how)
<1>1. CASE M!Visit
  BY <1>1 DEF M!Visit, M!Thread
<1>2. ASSUME NEW op \in {"suspend", "resume"}, M!Asks(op)
      PROVE  /\ M!Begins(Disp, op) /\ Disp \in M!Thread /\ stops' = stops
             /\ breaks /\ stops = {} /\ asleep = (op = "resume")
  BY <1>2 DEF M!Asks, M!Thread
<1>3. ASSUME NEW t \in M!Thread, M!Stop(t) PROVE M!Begins(t, "stop") /\ stops' = stops \cup {t}
  BY <1>3 DEF M!Stop
<1> QED
  BY <1>1, <1>2, <1>3 DEF M!MultiNext

\* Every step keeps the types.
LEMMA TypedStep == Typed /\ Handed /\ Purposes /\ M!MultiNext => Typed'
<1> SUFFICES ASSUME Typed, Handed, Purposes, M!MultiNext PROVE Typed'
  OBVIOUS
<1> USE DEF M!processVars, M!backupVars, M!historyVars, M!Overlap
<1>0. ASSUME NEW t \in M!Thread, Turns(t, task'[t].op, task'[t].at, task'[t].exit, task'[t].taken)
      PROVE  task' \in [M!Thread -> Tasks]
  BY <1>0 DEF Turns
<1>1. ASSUME NEW t \in M!Thread, M!Poll(t) PROVE Typed'
  <2>1. task' \in [M!Thread -> Tasks]
    BY <1>1, PollDoes DEF Turns
  <2> QED
    BY <1>1, <2>1 DEF M!Poll, Typed
<1>2. ASSUME NEW t \in M!Thread, M!Test(t) PROVE Typed'
  <2>1. task' \in [M!Thread -> Tasks]
    BY <1>2, TestDoes DEF Turns
  <2> QED
    BY <1>2, <2>1 DEF M!Test, Typed
<1>3. ASSUME NEW t \in M!Thread, M!Pop(t) PROVE Typed'
  <2>1. task' \in [M!Thread -> Tasks] /\ cmds' \in Seq(M!Command)
    BY <1>3, PopDoes DEF Turns, Typed
  <2> QED
    BY <1>3, <2>1 DEF M!Pop, Typed
<1>4. ASSUME NEW t \in M!Thread, M!Start(t) PROVE Typed'
  <2>1. /\ task' \in [M!Thread -> Tasks] /\ begun' \in Seq(M!Command) /\ begun' # <<>>
        /\ current' = begun'[Len(begun')]
    BY <1>4, StartDoes DEF Turns, Typed
  <2>2. life' \in [M!Command -> {"new", "run", "frozen", "ok", "failed"}]
    BY <1>4, StartDoes DEF Typed
  <2> QED
    BY <1>4, <2>1, <2>2 DEF M!Start, Typed
<1>5. ASSUME NEW t \in M!Thread, M!StartFails(t) PROVE Typed'
  <2>1. task' \in [M!Thread -> Tasks]
    BY <1>5, FailsDoes DEF Turns
  <2> QED
    BY <1>5, <2>1 DEF M!StartFails, Typed
<1>6. ASSUME NEW t \in M!Thread, NEW op \in {"visit", "stop", "suspend", "resume"},
             M!Begins(t, op), stops' = stops \cup {t} \/ stops' = stops
      PROVE  Typed'
  <2>1. task' \in [M!Thread -> Tasks]
    BY <1>6, BeginDoes DEF Turns, Ops
  <2>2. stops' \in SUBSET M!Thread
    BY <1>6 DEF Typed
  <2> QED
    BY <1>6, <2>1, <2>2 DEF M!Begins, Typed
<1>7. ASSUME NEW t \in M!Thread, M!Clear(t) PROVE Typed'
  <2>1. task' \in [M!Thread -> Tasks] /\ cmds' = <<>>
    BY <1>7, Goes DEF Turns, M!Clear, Places
  <2>2. <<>> \in Seq(M!Command)
    OBVIOUS
  <2> QED
    BY <1>7, <2>1, <2>2 DEF M!Clear, Typed
<1>8. ASSUME NEW t \in M!Thread, M!Kill(t) PROVE Typed'
  <2>1. task' \in [M!Thread -> Tasks]
    BY <1>8, Leaves DEF Turns, M!Kill
  <2>2. life' \in [M!Command -> {"new", "run", "frozen", "ok", "failed"}]
    BY <1>8 DEF M!Kill, Typed
  <2> QED
    BY <1>8, <2>1, <2>2 DEF M!Kill, Typed
<1>9. CASE M!Signal
  <2>1. task' \in [M!Thread -> Tasks]
    BY <1>9, Goes DEF Turns, M!Signal, M!Thread, Places
  <2>2. life' \in [M!Command -> {"new", "run", "frozen", "ok", "failed"}]
    BY <1>9 DEF M!Signal, Typed
  <2> QED
    BY <1>9, <2>1, <2>2 DEF M!Signal, Typed
<1>10. CASE M!Pause
  <2>1. task' \in [M!Thread -> Tasks]
    BY <1>10, Leaves DEF Turns, M!Pause, M!Thread
  <2> QED
    BY <1>10, <2>1 DEF M!Pause, Typed
<1>11. ASSUME NEW c \in M!Command, NEW how \in {"ok", "failed"}, M!Exit(c, how) PROVE Typed'
  BY <1>11 DEF M!Exit, Typed
<1> QED
  BY <1>1, <1>2, <1>3, <1>4, <1>5, <1>6, <1>7, <1>8, <1>9, <1>10, <1>11, StepDoes

\* Commands are handed over by Pop and Start alone.
LEMMA HandedFrame ==
    ASSUME Typed, Handed, UNCHANGED <<cmds, begun>>, NEW t \in M!Thread,
           \A u \in M!Thread \ {t} : task'[u] = task[u],
           task'[t].at # "start",
           \A c \in M!Command : life'[c] = "new" <=> life[c] = "new"
    PROVE  Handed'
<1>1. \A u \in M!Thread : M!At(u, "start")' => u # t /\ M!At(u, "start") /\ task'[u] = task[u]
  BY DEF M!At
<1>2. ASSUME NEW u \in M!Thread, M!At(u, "start")'
      PROVE  /\ task'[u].taken \in M!Command /\ life'[task'[u].taken] = "new"
             /\ task'[u].taken <= Commands - Len(cmds')
             /\ \A v \in M!Thread \ {u} : M!At(v, "start")' => task'[v].taken # task'[u].taken
  BY <1>1, <1>2 DEF Handed
<1>3. \A c \in M!Command : c \in Range(begun') <=> life'[c] # "new"
  BY DEF Handed
<1> QED
  BY <1>2, <1>3 DEF Handed

\* Every step keeps what is left in the list and what was begun apart.
LEMMA HandedStep == Typed /\ Handed /\ Purposes /\ M!MultiNext => Handed'
<1> SUFFICES ASSUME Typed, Handed, Purposes, M!MultiNext PROVE Handed'
  OBVIOUS
<1> USE DEF M!processVars
<1>1. ASSUME NEW t \in M!Thread, M!Poll(t) PROVE Handed'
  BY <1>1, PollDoes, HandedFrame DEF Turns, M!Poll
<1>2. ASSUME NEW t \in M!Thread, M!Test(t) PROVE Handed'
  BY <1>2, TestDoes, HandedFrame DEF Turns, M!Test
<1>3. ASSUME NEW t \in M!Thread, M!Pop(t) PROVE Handed'
  <2>1. CASE cmds = <<>> /\ cmds' = <<>> /\ task'[t].at # "start"
    BY <1>3, <2>1, PopDoes, HandedFrame DEF Turns, M!Pop
  <2>2. CASE /\ Len(cmds) >= 1 /\ Len(cmds') = Len(cmds) - 1 /\ cmds' \in Seq(M!Command)
             /\ \A n \in 1..Len(cmds') : cmds'[n] = cmds[n + 1]
             /\ cmds[1] \in M!Command
             /\ Turns(t, task[t].op, "start", task[t].exit, cmds[1])
    <3> DEFINE k == Commands - Len(cmds)
    <3>1. /\ Len(cmds) \in Nat /\ k \in Nat /\ k >= 1 /\ cmds[1] = k + 1
          /\ Commands - Len(cmds') = k + 1 /\ UNCHANGED <<begun, life>>
      <4>1. PICK l \in Nat : l = Len(cmds)
        BY LenProperties DEF Typed
      <4>2. l < Commands /\ l >= 1 /\ \A n \in 1..l : cmds[n] = (Commands - l) + n
        BY <2>2, <4>1 DEF Handed
      <4>3. Len(cmds') = l - 1
        BY <2>2, <4>1
      <4>4. UNCHANGED <<begun, life>>
        BY <1>3 DEF M!Pop
      <4> QED
        BY <4>1, <4>2, <4>3, <4>4, AtLeastOne
    <3>2. Len(cmds') < Commands
      BY <2>2, <3>1, AtLeastOne DEF Handed
    <3>3. ASSUME NEW n \in 1..Len(cmds') PROVE cmds'[n] = (k + 1) + n
      <4>1. n + 1 \in 1..Len(cmds) /\ n \in Nat
        BY <2>2, <3>1, <3>3
      <4>2. cmds[n + 1] = k + (n + 1)
        BY <4>1 DEF Handed
      <4> QED
        BY <2>2, <3>1, <4>1, <4>2
    <3>4. \A c \in Range(begun) : c \in Nat /\ c <= k + 1 /\ c # cmds[1]
      <4>1. ASSUME NEW c \in Range(begun) PROVE c \in Nat /\ c <= k
        BY <4>1 DEF Handed, Typed, Range, M!Command
      <4> QED
        BY <4>1, <3>1
    <3>5. life[cmds[1]] = "new"
      BY <2>2, <3>4 DEF Handed
    <3>6. ASSUME NEW u \in M!Thread \ {t}, M!At(u, "start")
          PROVE  /\ task'[u] = task[u] /\ task[u].taken <= k + 1 /\ task[u].taken # cmds[1]
                 /\ task[u].taken \in M!Command /\ life[task[u].taken] = "new"
      <4>1. task[u].taken \in Nat /\ task[u].taken <= k
        BY <3>6 DEF Handed, M!Command
      <4> QED
        BY <3>6, <4>1, <2>2, <3>1 DEF Handed, Turns
    <3>7. \A u \in M!Thread \ {t} : M!At(u, "start")' <=> M!At(u, "start")
      BY <2>2 DEF M!At, Turns
    <3>8. task'[t].taken = cmds[1] /\ cmds[1] <= k + 1
      BY <2>2, <3>1 DEF Turns
    <3>9. \A u \in M!Thread : M!At(u, "start")' =>
          /\ task'[u].taken \in M!Command /\ life'[task'[u].taken] = "new"
          /\ task'[u].taken <= Commands - Len(cmds')
          /\ \A v \in M!Thread \ {u} : M!At(v, "start")' => task'[v].taken # task'[u].taken
      <4> HIDE DEF k
      <4>1. ASSUME NEW u \in M!Thread, NEW v \in M!Thread \ {u},
                   M!At(u, "start")', M!At(v, "start")'
            PROVE  task'[v].taken # task'[u].taken
        <5>1. CASE u = t
          BY <5>1, <4>1, <3>6, <3>7, <3>8
        <5>2. CASE v = t
          BY <5>2, <4>1, <3>6, <3>7, <3>8
        <5>3. CASE u # t /\ v # t
          BY <5>3, <4>1, <3>6, <3>7 DEF Handed
        <5> QED
          BY <5>1, <5>2, <5>3
      <4>2. ASSUME NEW u \in M!Thread, M!At(u, "start")'
            PROVE  /\ task'[u].taken \in M!Command /\ life'[task'[u].taken] = "new"
                   /\ task'[u].taken <= k + 1
        BY <4>2, <2>2, <3>1, <3>5, <3>6, <3>7, <3>8
      <4> QED
        BY <4>1, <4>2, <3>1
    <3> HIDE DEF k
    <3> QED
      BY <3>1, <3>2, <3>3, <3>4, <3>9 DEF Handed
  <2> QED
    BY <1>3, <2>1, <2>2, PopDoes DEF Turns
<1>4. ASSUME NEW t \in M!Thread, M!Start(t) PROVE Handed'
  <2> DEFINE x == task[t].taken
  <2>1. x \in M!Command /\ life[x] = "new" /\ x \notin Range(begun) /\ x <= Commands - Len(cmds)
    BY <1>4, StartDoes DEF Handed, M!At
  <2>2. /\ UNCHANGED cmds /\ begun' = Append(begun, x)
        /\ life' = [life EXCEPT ![x] = "run"]
        /\ Range(begun') = Range(begun) \cup {x} /\ task'[t].at # "start"
        /\ \A u \in M!Thread \ {t} : task'[u] = task[u]
    BY <1>4, StartDoes DEF M!Start, Turns
  <2>3. IsInjective(begun')
    BY <2>1, <2>2, AppendElems DEF Handed, Typed
  <2>4. \A c \in M!Command : c \in Range(begun') <=> life'[c] # "new"
    BY <2>1, <2>2 DEF Handed, Typed
  <2>5. ASSUME NEW u \in M!Thread, M!At(u, "start")'
        PROVE  /\ u # t /\ M!At(u, "start") /\ task'[u].taken = task[u].taken
               /\ task[u].taken # x
    <3>1. u # t
      BY <2>2, <2>5 DEF M!At
    <3>2. M!At(u, "start") /\ task'[u].taken = task[u].taken
      BY <2>2, <2>5, <3>1 DEF M!At
    <3>3. M!At(t, "start")
      BY <1>4, StartDoes DEF M!At
    <3>4. task[u].taken # x
      BY <3>1, <3>2, <3>3 DEF Handed
    <3> QED
      BY <3>1, <3>2, <3>4
  <2>6. \A u \in M!Thread : M!At(u, "start")' =>
          /\ task'[u].taken \in M!Command /\ life'[task'[u].taken] = "new"
          /\ task'[u].taken <= Commands - Len(cmds')
          /\ \A v \in M!Thread \ {u} : M!At(v, "start")' => task'[v].taken # task'[u].taken
    BY <2>2, <2>5 DEF Handed, Typed
  <2> HIDE DEF x
  <2> QED
    BY <2>1, <2>2, <2>3, <2>4, <2>6 DEF Handed
<1>5. ASSUME NEW t \in M!Thread, M!StartFails(t) PROVE Handed'
  BY <1>5, FailsDoes, HandedFrame DEF Turns, M!StartFails
<1>6. ASSUME NEW t \in M!Thread, NEW op \in {"visit", "stop", "suspend", "resume"}, M!Begins(t, op)
      PROVE  Handed'
  BY <1>6, BeginDoes, HandedFrame DEF Turns, M!Begins, Ops
<1>7. ASSUME NEW t \in M!Thread, M!Clear(t) PROVE Handed'
  <2>1. /\ Turns(t, task[t].op, "kill", task[t].exit, task[t].taken)
        /\ cmds' = <<>> /\ UNCHANGED <<begun, life>>
    BY <1>7, Goes DEF M!Clear, Places
  <2>2. \A c \in Range(begun) : c <= Commands
    BY AtLeastOne DEF Typed, Range, M!Command
  <2>3. \A u \in M!Thread : M!At(u, "start")' => u # t /\ M!At(u, "start") /\ task'[u] = task[u]
    BY <2>1 DEF Turns, M!At
  <2>4. \A u \in M!Thread : M!At(u, "start") => task[u].taken <= Commands
    BY AtLeastOne DEF Handed, M!Command
  <2> QED
    BY <2>1, <2>2, <2>3, <2>4, AtLeastOne DEF Handed
<1>8. ASSUME NEW t \in M!Thread, M!Kill(t) PROVE Handed'
  <2>1. /\ Turns(t, "none", "idle", "none", 0) /\ UNCHANGED <<cmds, begun>>
    BY <1>8, Leaves DEF M!Kill
  <2>2. \A c \in M!Command : life'[c] = "new" <=> life[c] = "new"
    BY <1>8 DEF M!Kill, Typed, M!Live
  <2> QED
    BY <2>1, <2>2, HandedFrame DEF Turns
<1>9. CASE M!Signal
  <2>1. /\ Turns(Disp, task[Disp].op, "pause", task[Disp].exit, task[Disp].taken)
        /\ UNCHANGED <<cmds, begun>> /\ Disp \in M!Thread
    BY <1>9, Goes DEF M!Signal, Places, M!Thread
  <2>2. \A c \in M!Command : life'[c] = "new" <=> life[c] = "new"
    BY <1>9 DEF M!Signal, Typed, M!Live
  <2> QED
    BY <2>1, <2>2, HandedFrame DEF Turns
<1>10. CASE M!Pause
  <2>1. Turns(Disp, "none", "idle", "none", 0) /\ Disp \in M!Thread
    BY <1>10, Leaves DEF M!Pause, M!Thread
  <2> QED
    BY <1>10, <2>1, HandedFrame DEF M!Pause, Turns
<1>11. ASSUME NEW c \in M!Command, NEW how \in {"ok", "failed"}, M!Exit(c, how) PROVE Handed'
  <2>1. \A d \in M!Command : life'[d] = "new" <=> life[d] = "new"
    BY <1>11 DEF M!Exit, Typed
  <2> QED
    BY <1>11, <2>1 DEF M!Exit, Handed, M!At
<1>12. ASSUME NEW t \in M!Thread,
              M!Poll(t) \/ M!Test(t) \/ M!Pop(t) \/ M!Start(t) \/ M!StartFails(t)
              \/ M!Clear(t) \/ M!Kill(t)
       PROVE  Handed'
  BY <1>12, <1>1, <1>2, <1>3, <1>4, <1>5, <1>7, <1>8
<1> QED
  BY <1>6, <1>9, <1>10, <1>11, <1>12, StepDoes

\* A step of one thread leaves the purpose of the other.
LEMMA PurposesFrame ==
    ASSUME Purposes, NEW t \in M!Thread, \A u \in M!Thread \ {t} : task'[u] = task[u],
           cmds = <<>> => cmds' = <<>>, stops \subseteq stops',
           reported' => reported \/ cmds' = <<>>,
           Purpose(t)'
    PROVE  Purposes'
BY DEF Purposes, Purpose

\* Every step of a thread goes where its purpose leads.
LEMMA PurposesStep == Typed /\ Handed /\ Purposes /\ M!MultiNext => Purposes'
<1> SUFFICES ASSUME Typed, Handed, Purposes, M!MultiNext PROVE Purposes'
  OBVIOUS
<1> USE DEF M!processVars, M!backupVars
<1>0. ASSUME NEW t \in M!Thread PROVE Purpose(t)
  BY DEF Purposes
<1>1. ASSUME NEW t \in M!Thread, M!Poll(t) PROVE Purposes'
  <2>1. Purpose(t)'
    BY <1>0, <1>1, PollDoes DEF Turns, M!Poll, Purpose
  <2> QED
    BY <1>1, <2>1, PollDoes, PurposesFrame DEF Turns, M!Poll
<1>2. ASSUME NEW t \in M!Thread, M!Test(t) PROVE Purposes'
  <2>1. Purpose(t)'
    BY <1>0, <1>2, TestDoes DEF Turns, M!Test, Purpose
  <2> QED
    BY <1>2, <2>1, TestDoes, PurposesFrame DEF Turns, M!Test
<1>3. ASSUME NEW t \in M!Thread, M!Pop(t) PROVE Purposes'
  <2>1. Purpose(t)' /\ (cmds = <<>> => cmds' = <<>>)
    BY <1>0, <1>3, PopDoes DEF Turns, M!Pop, Purpose
  <2> QED
    BY <1>3, <2>1, PopDoes, PurposesFrame DEF Turns, M!Pop
<1>4. ASSUME NEW t \in M!Thread, M!Start(t) PROVE Purposes'
  <2>1. Purpose(t)'
    BY <1>0, <1>4, StartDoes DEF Turns, M!Start, Purpose
  <2> QED
    BY <1>4, <2>1, StartDoes, PurposesFrame DEF Turns, M!Start
<1>5. ASSUME NEW t \in M!Thread, M!StartFails(t) PROVE Purposes'
  <2>1. Purpose(t)'
    BY <1>0, <1>5, FailsDoes DEF Turns, M!StartFails, Purpose
  <2> QED
    BY <1>5, <2>1, FailsDoes, PurposesFrame DEF Turns, M!StartFails
<1>6. ASSUME NEW t \in M!Thread, NEW op \in {"visit", "stop", "suspend", "resume"}, M!Begins(t, op),
             op = "stop" => stops' = stops \cup {t}, op # "stop" => stops' = stops,
             op \in {"suspend", "resume"} => t = Disp
      PROVE  Purposes'
  <2>1. Turns(t, op, "poll", task[t].exit, task[t].taken)
    BY <1>6, BeginDoes DEF Ops
  <2>2. Purpose(t)' /\ stops \subseteq stops'
    BY <1>6, <2>1 DEF Turns, Purpose
  <2> QED
    BY <1>6, <2>1, <2>2, PurposesFrame DEF Turns, M!Begins
<1>7. ASSUME NEW t \in M!Thread, M!Clear(t) PROVE Purposes'
  <2>1. /\ Turns(t, task[t].op, "kill", task[t].exit, task[t].taken) /\ task[t].at = "clear"
        /\ cmds' = <<>> /\ UNCHANGED <<stops, reported>>
    BY <1>7, Goes DEF M!Clear, Places, M!At
  <2>2. Purpose(t)'
    BY <1>0, <2>1 DEF Turns, Purpose
  <2> QED
    BY <2>1, <2>2, PurposesFrame DEF Turns
<1>8. ASSUME NEW t \in M!Thread, M!Kill(t) PROVE Purposes'
  <2>1. /\ Turns(t, "none", "idle", "none", 0) /\ task[t].at = "kill"
        /\ UNCHANGED <<stops, cmds>>
    BY <1>8, Leaves DEF M!Kill, M!At
  <2>2. Purpose(t)' /\ cmds' = <<>>
    BY <1>0, <2>1 DEF Turns, Purpose
  <2> QED
    BY <2>1, <2>2, PurposesFrame DEF Turns
<1>9. CASE M!Signal
  <2>1. /\ Turns(Disp, task[Disp].op, "pause", task[Disp].exit, task[Disp].taken)
        /\ task[Disp].at = "signal" /\ UNCHANGED <<stops, cmds, reported>> /\ Disp \in M!Thread
    BY <1>9, Goes DEF M!Signal, Places, M!Thread, M!At
  <2>2. Purpose(Disp)'
    BY <1>0, <2>1 DEF Turns, Purpose
  <2> QED
    BY <2>1, <2>2, PurposesFrame DEF Turns
<1>10. CASE M!Pause
  <2>1. /\ Turns(Disp, "none", "idle", "none", 0) /\ Disp \in M!Thread
        /\ UNCHANGED <<stops, cmds, reported>>
    BY <1>10, Leaves DEF M!Pause, M!Thread
  <2>2. Purpose(Disp)'
    BY <2>1 DEF Turns, Purpose
  <2> QED
    BY <2>1, <2>2, PurposesFrame DEF Turns
<1>11. ASSUME NEW c \in M!Command, NEW how \in {"ok", "failed"}, M!Exit(c, how) PROVE Purposes'
  BY <1>11 DEF M!Exit, Purposes, Purpose
<1> QED
  BY <1>1, <1>2, <1>3, <1>4, <1>5, <1>6, <1>7, <1>8, <1>9, <1>10, <1>11, StepDoes

\* A thread turns to something else, or sees that the process has ended.
LEMMA AloneFrame ==
    ASSUME Alone, UNCHANGED <<cmds, current, life, begun, reported, breaks>>,
           NEW t \in M!Thread, \A u \in M!Thread \ {t} : task'[u] = task[u],
           \/ task'[t].at \notin {"exited", "advance", "start", "dead"}
           \/ /\ task'[t].at = "exited" /\ ~M!Live(current) /\ task'[t].exit = life[current]
           \/ /\ task[t].at = "exited" /\ task'[t].at = "advance" /\ task'[t].exit = task[t].exit
              /\ (breaks => task[t].exit # "failed")
              /\ cmds # <<>> /\ life[current] \in {"ok", "failed"}
              /\ \A u \in M!Thread \ {t} : task[u].at \notin M!Advancing
    PROVE  Alone'
<1>1. Sees(t)'
  BY DEF Alone, Sees, M!Live, M!Advancing, M!Over
<1>2. ASSUME NEW u \in M!Thread \ {t} PROVE Sees(u)'
  <2>1. Sees(u)
    BY DEF Alone
  <2> QED
    BY <2>1 DEF Sees, M!Live, M!Advancing
<1> QED
  BY <1>1, <1>2 DEF Alone, M!Runs, M!Live

\* A step that is no overlap keeps the commands in turn.
LEMMA AloneStep ==
    ASSUME Typed, Handed, Purposes, ~overlapped => Alone, M!MultiNext, ~overlapped'
    PROVE  ~overlapped /\ Alone'
<1> USE DEF M!processVars, M!backupVars, M!historyVars
<1>0. ASSUME NEW t \in M!Thread, NEW places, M!Overlap(t, places)
      PROVE  ~overlapped /\ Alone /\ \A u \in M!Thread \ {t} : task[u].at \notin places
  BY <1>0 DEF M!Overlap
<1>1. ASSUME NEW t \in M!Thread, M!Poll(t) PROVE ~overlapped /\ Alone'
  <2>1. ~overlapped /\ Alone
    BY <1>0, <1>1 DEF M!Poll
  <2> QED
    BY <1>1, <2>1, PollDoes, AloneFrame DEF Turns, M!Poll
<1>2. ASSUME NEW t \in M!Thread, M!Test(t) PROVE ~overlapped /\ Alone'
  <2>1. ~overlapped /\ Alone /\ \A u \in M!Thread \ {t} : task[u].at \notin M!Advancing
    BY <1>0, <1>2 DEF M!Test
  <2>2. CASE M!Over(t)
    BY <1>2, <2>1, <2>2, TestDoes, AloneFrame DEF Turns, M!Test
  <2>3. CASE ~M!Over(t)
    <3>1. /\ task[t].at = "exited" /\ task'[t].at = "advance" /\ task'[t].exit = task[t].exit
          /\ \A u \in M!Thread \ {t} : task'[u] = task[u]
      BY <1>2, <2>3, TestDoes DEF Turns
    <3>2. ~M!Live(current) /\ task[t].exit = life[current]
      BY <2>1, <3>1 DEF Alone, Sees
    <3>3. life[current] \in {"ok", "failed"}
      <4>1. current \in Range(begun) /\ current \in M!Command
        BY DEF Typed, Range
      <4> QED
        BY <3>2, <4>1 DEF Handed, Typed, M!Live
    <3> QED
      BY <1>2, <2>1, <2>3, <3>1, <3>3, AloneFrame DEF M!Test, M!Over
  <2> QED
    BY <2>2, <2>3
<1>3. ASSUME NEW t \in M!Thread, M!Pop(t) PROVE ~overlapped /\ Alone'
  <2>1. ~overlapped /\ Alone /\ UNCHANGED <<breaks, current, life, begun, reported>>
    BY <1>3 DEF M!Pop
  <2>2. /\ task[t].at = "advance" /\ cmds # <<>> /\ ~M!Live(current) /\ task[t].exit = life[current]
        /\ breaks => task[t].exit = "ok"
        /\ \A u \in M!Thread \ {t} : task[u].at \notin M!Advancing
    BY <1>3, <2>1, PopDoes DEF Alone, Sees, M!Advancing
  <2>3. /\ Len(cmds) >= 1 /\ cmds[1] \in M!Command
        /\ Turns(t, task[t].op, "start", task[t].exit, cmds[1])
    BY <1>3, <2>2, PopDoes
  <2>4. ~reported
    BY <2>2 DEF Purposes
  <2>5. \A c \in Range(begun) : c < cmds[1]
    <3>1. PICK l \in Nat : l = Len(cmds)
      BY LenProperties DEF Typed
    <3>2. l < Commands /\ l >= 1 /\ cmds[1] = (Commands - l) + 1
      BY <2>3, <3>1 DEF Handed
    <3>3. \A c \in Range(begun) : c \in Nat /\ c <= Commands - l
      <4>1. \A c \in Range(begun) : c \in M!Command
        BY DEF Typed, Range
      <4> QED
        BY <3>1, <4>1 DEF Handed, M!Command
    <3> QED
      BY <3>2, <3>3, AtLeastOne
  <2>6. Sees(t)'
    BY <2>1, <2>2, <2>3, <2>4, <2>5 DEF Sees, Turns, M!Live, M!Advancing
  <2>7. ASSUME NEW u \in M!Thread \ {t} PROVE Sees(u)'
    <3>1. task'[u] = task[u] /\ Sees(u) /\ task[u].at \notin M!Advancing
      BY <2>1, <2>2, <2>3 DEF Turns, Alone
    <3> QED
      BY <2>1, <3>1 DEF Sees, M!Live, M!Advancing
  <2> QED
    BY <2>1, <2>6, <2>7 DEF Alone, M!Runs, M!Live
<1>4. ASSUME NEW t \in M!Thread, M!Start(t) PROVE ~overlapped /\ Alone'
  <2>1. ~overlapped /\ Alone /\ \A u \in M!Thread \ {t} : task[u].at # "exited"
    BY <1>0, <1>4 DEF M!Start
  <2> DEFINE x == task[t].taken
  <2>2. /\ task[t].at = "start" /\ x \in M!Command /\ ~M!Live(current)
        /\ ~reported /\ \A c \in Range(begun) : c < x
        /\ \A u \in M!Thread \ {t} : task[u].at \notin M!Advancing
    BY <1>4, <2>1, StartDoes DEF Alone, Sees, M!Advancing
  <2>3. /\ current' = x /\ life' = [life EXCEPT ![x] = "run"]
        /\ UNCHANGED <<cmds, breaks, reported>>
        /\ task'[t].at \notin {"exited", "advance", "start", "dead"}
        /\ \A u \in M!Thread \ {t} : task'[u] = task[u]
        /\ Len(begun') = Len(begun) + 1 /\ begun'[Len(begun')] = x
        /\ \A n \in 1..Len(begun) : begun'[n] = begun[n]
    BY <1>4, StartDoes DEF M!Start, Turns
  <2> HIDE DEF x
  <2>4. Sees(t)'
    BY <2>3 DEF Sees, M!Advancing
  <2>5. ASSUME NEW u \in M!Thread \ {t} PROVE Sees(u)'
    <3>1. task'[u] = task[u] /\ Sees(u) /\ task[u].at \notin {"exited", "advance", "start"}
      BY <2>1, <2>2, <2>3 DEF Alone, M!Advancing
    <3> QED
      BY <3>1 DEF Sees, M!Advancing
  <2>6. ASSUME NEW m \in 1..Len(begun'), NEW n \in 1..Len(begun'), m < n
        PROVE  begun'[m] < begun'[n]
    <3>1. PICK l \in Nat : l = Len(begun)
      BY LenProperties DEF Typed
    <3>2. \A k \in 1..l : begun[k] \in Range(begun)
      BY <3>1 DEF Range, Typed
    <3>3. CASE n = l + 1
      BY <2>2, <2>3, <2>6, <3>1, <3>2, <3>3
    <3>4. CASE n # l + 1
      BY <2>1, <2>3, <2>6, <3>1, <3>4 DEF Alone
    <3> QED
      BY <3>3, <3>4
  <2>7. M!Runs' \subseteq {current'}
    BY <2>1, <2>2, <2>3 DEF M!Runs, M!Live, Alone, Typed
  <2> QED
    BY <2>1, <2>2, <2>3, <2>4, <2>5, <2>6, <2>7 DEF Alone
<1>5. ASSUME NEW t \in M!Thread, M!StartFails(t) PROVE ~overlapped /\ Alone'
  BY <1>5, FailsDoes, AloneFrame DEF Turns, M!StartFails
<1>6. ASSUME NEW t \in M!Thread, NEW op \in {"visit", "stop", "suspend", "resume"}, M!Begins(t, op)
      PROVE  ~overlapped /\ Alone'
  BY <1>6, BeginDoes, AloneFrame DEF Turns, M!Begins, Ops
<1>7. ASSUME NEW t \in M!Thread, M!Clear(t) PROVE ~overlapped /\ Alone'
  <2>1. /\ Turns(t, task[t].op, "kill", task[t].exit, task[t].taken) /\ task[t].at = "clear"
        /\ cmds' = <<>> /\ UNCHANGED <<begun, life, current, reported, breaks>>
    BY <1>7, Goes DEF M!Clear, Places, M!At
  <2>2. ~overlapped /\ Alone /\ \A u \in M!Thread \ {t} : task[u].at \notin M!Advancing
    BY <1>0, <1>7 DEF M!Clear
  <2>3. Sees(t)'
    BY <2>1 DEF Turns, Sees, M!Advancing
  <2>4. ASSUME NEW u \in M!Thread \ {t} PROVE Sees(u)'
    <3>1. task'[u] = task[u] /\ Sees(u) /\ task[u].at \notin M!Advancing
      BY <2>1, <2>2 DEF Turns, Alone
    <3> QED
      BY <2>1, <3>1 DEF Sees, M!Live, M!Advancing
  <2> QED
    BY <2>1, <2>2, <2>3, <2>4 DEF Alone, M!Runs, M!Live
<1>8. ASSUME NEW t \in M!Thread, M!Kill(t) PROVE ~overlapped /\ Alone'
  <2>1. /\ Turns(t, "none", "idle", "none", 0)
        /\ life' = [life EXCEPT ![current] = IF M!Live(current) THEN "failed" ELSE @]
        /\ UNCHANGED <<cmds, begun, current, breaks>>
    BY <1>8, Leaves DEF M!Kill
  <2>2. ~overlapped /\ Alone /\ \A u \in M!Thread \ {t} : task[u].at \notin M!Advancing
    BY <1>0, <1>8 DEF M!Kill
  <2>3. /\ ~M!Live(current)' /\ \A c \in M!Command : M!Live(c)' => M!Live(c)
        /\ ~M!Live(current) => life' = life
    <3>1. current \in M!Command
      BY DEF Typed
    <3> QED
      BY <2>1, <3>1 DEF M!Live, Typed
  <2>4. Sees(t)'
    BY <2>1 DEF Turns, Sees, M!Advancing
  <2>5. ASSUME NEW u \in M!Thread \ {t} PROVE Sees(u)'
    <3>1. task'[u] = task[u] /\ Sees(u) /\ task[u].at \notin M!Advancing
      BY <2>1, <2>2 DEF Turns, Alone
    <3> QED
      BY <2>1, <2>3, <3>1 DEF Sees, M!Advancing
  <2>6. M!Runs' \subseteq {current'}
    BY <2>1, <2>2, <2>3 DEF Alone, M!Runs
  <2> QED
    BY <2>1, <2>2, <2>3, <2>4, <2>5, <2>6 DEF Alone
<1>9. CASE M!Signal
  <2>1. /\ Turns(Disp, task[Disp].op, "pause", task[Disp].exit, task[Disp].taken)
        /\ UNCHANGED <<cmds, begun, current, breaks, reported>> /\ Disp \in M!Thread
        /\ ~M!Live(current) => life' = life
        /\ \A c \in M!Command : M!Live(c)' <=> M!Live(c)
    <3>1. current \in M!Command
      BY DEF Typed
    <3> QED
      BY <1>9, <3>1, Goes DEF M!Signal, Places, M!Thread, M!Live, Typed
  <2>2. ~overlapped /\ Alone /\ current \in M!Command
    BY <1>9 DEF M!Signal, Typed
  <2>3. Sees(Disp)'
    BY <2>1 DEF Turns, Sees, M!Advancing
  <2>4. ASSUME NEW u \in M!Thread \ {Disp} PROVE Sees(u)'
    <3>1. task'[u] = task[u] /\ Sees(u) /\ task'[Disp].at \notin M!Advancing
      BY <2>1, <2>2 DEF Turns, Alone, M!Advancing
    <3>2. task[u].at \in M!Advancing => \A v \in M!Thread \ {u} : task'[v].at \notin M!Advancing
      BY <2>1, <3>1 DEF Sees, Turns
    <3> QED
      BY <2>1, <2>2, <3>1, <3>2 DEF Sees, M!Advancing
  <2>5. M!Runs' \subseteq {current'}
    BY <2>1, <2>2 DEF Alone, M!Runs
  <2> QED
    BY <2>1, <2>2, <2>3, <2>4, <2>5 DEF Alone
<1>10. CASE M!Pause
  <2>1. Turns(Disp, "none", "idle", "none", 0) /\ Disp \in M!Thread
    BY <1>10, Leaves DEF M!Pause, M!Thread
  <2> QED
    BY <1>10, <2>1, AloneFrame DEF Turns, M!Pause
<1>11. ASSUME NEW c \in M!Command, NEW how \in {"ok", "failed"}, M!Exit(c, how)
       PROVE  ~overlapped /\ Alone'
  <2>1. /\ life[c] = "run" /\ life' = [life EXCEPT ![c] = how]
        /\ UNCHANGED <<cmds, begun, current, breaks, reported, task>>
    BY <1>11 DEF M!Exit
  <2>2. ~overlapped /\ Alone
    BY <1>11 DEF M!Exit
  <2>3. c = current /\ M!Live(current)
    BY <2>1, <2>2 DEF Alone, M!Runs, M!Live
  <2>4. ~M!Live(current)' /\ \A d \in M!Command : M!Live(d)' => M!Live(d)
    BY <2>1, <2>3 DEF M!Live, Typed
  <2>5. ASSUME NEW u \in M!Thread PROVE Sees(u)'
    BY <2>1, <2>2, <2>3 DEF Sees, Alone, M!Advancing
  <2> QED
    BY <2>1, <2>2, <2>4, <2>5 DEF Alone, M!Runs
<1> QED
  BY <1>1, <1>2, <1>3, <1>4, <1>5, <1>6, <1>7, <1>8, <1>9, <1>10, <1>11, StepDoes

\* When the list has ended its end is due.
LEMMA EndMeans ==
    /\ Typed => (M!EndIsDue <=> \/ Len(begun) = Commands
                                \/ breaks /\ life[current] = "failed"
                                \/ stops # {})
    /\ Typed' => (M!EndIsDue' <=> \/ Len(begun') = Commands
                                  \/ breaks' /\ life'[current'] = "failed"
                                  \/ stops' # {})
BY DEF Typed, M!EndIsDue, M!Last

\* What holds while a thread has started no command and has taken none.
LEMMA CountedFrame ==
    ASSUME Typed, Typed', Counted, UNCHANGED <<breaks, begun, current>>, stops \subseteq stops',
           NEW t \in M!Thread, \A u \in M!Thread \ {t} : task'[u] = task[u],
           task[t].at # "start", task'[t].at # "start",
           cmds' = cmds \/ (cmds' = <<>> /\ M!EndIsDue /\ \A u \in M!Thread : task[u].at # "start"),
           \A c \in M!Command : life[c] \in {"ok", "failed"} => life'[c] = life[c]
    PROVE  InOrder' /\ Tally' /\ (M!EndIsDue => M!EndIsDue')
<1>1. M!EndIsDue => M!EndIsDue'
  BY EndMeans DEF Typed
<1>2. InOrder'
  BY DEF Counted, InOrder, Typed
<1>3. \A u \in M!Thread : task'[u].at = "start" => task[u].at = "start" /\ task'[u] = task[u]
  OBVIOUS
<1>4. (\A u \in M!Thread : task'[u].at # "start") => \A u \in M!Thread : task[u].at # "start"
  OBVIOUS
<1>5. CASE cmds' = cmds
  BY <1>1, <1>2, <1>3, <1>4, <1>5 DEF Counted, Tally
<1>6. CASE cmds' = <<>> /\ M!EndIsDue /\ \A u \in M!Thread : task[u].at # "start"
  BY <1>1, <1>2, <1>3, <1>6 DEF Counted, Tally
<1> QED
  BY <1>1, <1>2, <1>5, <1>6

\* A step that is no overlap, while every command could be started, keeps the end of the list,
\* the stop and the sleep.
LEMMA CountedStep ==
    ASSUME Typed, Handed, Purposes, Alone, Counted, M!MultiNext, ~overlapped', ~bailed',
           Typed', Alone'
    PROVE  Counted'
<1> USE DEF M!processVars, M!backupVars, M!historyVars
<1>0. ASSUME NEW t \in M!Thread, M!Overlap(t, M!Advancing)
      PROVE  \A u \in M!Thread \ {t} : task[u].at \notin M!Advancing
  BY <1>0 DEF M!Overlap
<1>1. ASSUME NEW t \in M!Thread, M!Poll(t) PROVE Counted'
  <2>1. /\ UNCHANGED <<breaks, begun, current, life, cmds, stops, reported, asleep>>
        /\ missed' = missed
        /\ \A u \in M!Thread \ {t} : task'[u] = task[u] /\ task[u].at \notin M!Advancing
        /\ task[t].at = "poll" /\ task'[t].at \notin M!Advancing \cup {"pause", "kill"}
        /\ task'[t].at = "clear" => task'[t].op = "stop"
        /\ task[t].op = "stop" => task'[t].op = "stop"
    BY <1>0, <1>1, PollDoes DEF M!Poll, M!Overlap, Turns, M!Advancing
  <2>2. InOrder' /\ Tally' /\ (M!EndIsDue => M!EndIsDue')
    BY <2>1, CountedFrame DEF M!Advancing
  <2>3. Ended => Ended'
    BY <2>1 DEF Ended, M!Live
  <2>4. EndSeen'
    BY <2>1, <2>2 DEF EndSeen, Counted
  <2>5. StopHolds'
    BY <2>1, <2>3 DEF StopHolds, Counted
  <2>6. Sleeps' => Sleeps
    <3>1. Disp \in M!Thread
      BY DEF M!Thread
    <3>2. CASE Disp = t
      BY <2>1, <3>2 DEF Sleeps
    <3>3. CASE Disp # t
      BY <2>1, <3>1, <3>3 DEF Sleeps
    <3> QED
      BY <3>2, <3>3
  <2>7. SleepHolds'
    BY <2>1, <2>3, <2>6 DEF SleepHolds, Counted
  <2> QED
    BY <2>2, <2>4, <2>5, <2>7 DEF Counted
<1>2. ASSUME NEW t \in M!Thread, M!Test(t) PROVE Counted'
  <2>1. /\ UNCHANGED <<breaks, begun, current, life, cmds, stops, reported, asleep>>
        /\ missed' = missed
        /\ \A u \in M!Thread \ {t} : task'[u] = task[u] /\ task[u].at \notin M!Advancing
        /\ task[t].at = "exited" /\ task'[t].at # "start"
    BY <1>0, <1>2, TestDoes DEF M!Test, M!Overlap, Turns
  <2>2. InOrder' /\ Tally' /\ (M!EndIsDue => M!EndIsDue')
    BY <2>1, CountedFrame
  <2>3. ~M!Live(current) /\ task[t].exit = life[current]
    BY <2>1 DEF Alone, Sees
  <2>4. CASE M!Over(t)
    <3>1. Ended' /\ M!EndIsDue /\ task'[t].at \notin M!Advancing
      <4>1. task'[t].at \notin M!Advancing
        BY <1>2, <2>4, TestDoes DEF Turns, M!Advancing
      <4>2. cmds = <<>> => M!EndIsDue
        BY <2>1 DEF Counted, Tally, M!Advancing
      <4>3. M!EndIsDue
        BY <2>3, <2>4, <4>2, EndMeans DEF M!Over
      <4> QED
        BY <2>1, <2>3, <2>4, <4>1, <4>3 DEF M!Over, Ended, M!Live
    <3> QED
      BY <2>1, <2>2, <3>1 DEF Counted, EndSeen, StopHolds, SleepHolds
  <2>5. CASE ~M!Over(t)
    <3>1. Turns(t, task[t].op, "advance", task[t].exit, task[t].taken)
      BY <1>2, <2>5, TestDoes
    <3>2. ~Ended
      BY <2>3, <2>5 DEF Ended, M!Over
    <3>3. EndSeen'
      BY <2>1, <2>2, <3>1 DEF EndSeen, Counted, Turns
    <3>4. StopHolds'
      <4>1. ASSUME NEW u \in M!Thread PROVE task'[u].op = task[u].op
        BY <2>1, <3>1 DEF Turns
      <4> QED
        BY <2>1, <3>2, <4>1 DEF StopHolds, Counted
    <3>5. Sleeps' => Sleeps
      BY <2>1, <3>1 DEF Sleeps, Turns, M!Thread
    <3>6. SleepHolds'
      BY <2>1, <3>2, <3>5 DEF SleepHolds, Counted
    <3> QED
      BY <2>2, <3>3, <3>4, <3>6 DEF Counted
  <2> QED
    BY <2>4, <2>5
<1>3. ASSUME NEW t \in M!Thread, M!Pop(t) PROVE Counted'
  <2>1. /\ UNCHANGED <<breaks, begun, current, life, stops, reported, asleep, missed>>
        /\ task[t].at = "advance" /\ cmds # <<>> /\ ~M!Live(current)
        /\ \A u \in M!Thread \ {t} : task[u].at \notin M!Advancing
    BY <1>3, PopDoes DEF M!Pop, Alone, Sees, M!Advancing
  <2>2. /\ Len(cmds) >= 1 /\ Len(cmds') = Len(cmds) - 1 /\ cmds[1] \in M!Command
        /\ Turns(t, task[t].op, "start", task[t].exit, cmds[1])
    BY <1>3, <2>1, PopDoes
  <2>3. \A u \in M!Thread : task[u].at # "start"
    BY <2>1 DEF M!Advancing
  <2>4. M!EndIsDue => M!EndIsDue'
    BY <2>1, EndMeans
  <2>5. Tally'
    <3>1. PICK l \in Nat : l = Len(cmds)
      BY LenProperties DEF Typed
    <3>2. l < Commands /\ l >= 1 /\ cmds[1] = (Commands - l) + 1 /\ Len(begun) = Commands - l
      BY <2>1, <2>2, <2>3, <3>1 DEF Handed, Counted, Tally
    <3>3. \A u \in M!Thread : task'[u].at = "start" => u = t
      BY <2>2, <2>3 DEF Turns
    <3>4. task'[t].at = "start" /\ task'[t].taken = cmds[1]
      BY <2>2 DEF Turns
    <3>5. cmds[1] = Len(begun') + 1 /\ cmds[1] = Commands - Len(cmds')
      BY <2>1, <2>2, <3>1, <3>2, AtLeastOne
    <3> QED
      BY <3>3, <3>4, <3>5 DEF Tally
  <2>6. ~Ended
    BY <2>1 DEF Ended, M!Advancing
  <2>7. \A u \in M!Thread : task'[u].op = task[u].op
    BY <2>2 DEF Turns
  <2>8. Sleeps' => Sleeps
    BY <2>1, <2>2 DEF Sleeps, Turns, M!Thread
  <2>9. InOrder'
    BY <2>1 DEF Counted, InOrder
  <2>10. EndSeen'
    BY <2>1, <2>2, <2>4 DEF EndSeen, Counted, Turns
  <2>11. StopHolds'
    BY <2>1, <2>6, <2>7 DEF StopHolds, Counted
  <2>12. SleepHolds'
    BY <2>1, <2>6, <2>8 DEF SleepHolds, Counted
  <2> QED
    BY <2>5, <2>9, <2>10, <2>11, <2>12 DEF Counted
<1>4. ASSUME NEW t \in M!Thread, M!Start(t) PROVE Counted'
  <2> DEFINE x == task[t].taken
  <2>1. /\ task[t].at = "start" /\ ~M!Live(current) /\ task[t].exit = life[current]
        /\ breaks => task[t].exit = "ok"
        /\ ~reported /\ \A u \in M!Thread \ {t} : task[u].at \notin M!Advancing
    BY <1>4, StartDoes DEF Alone, Sees, M!Advancing
  <2>2. /\ x \in M!Command /\ life[x] = "new" /\ current' = x /\ life' = [life EXCEPT ![x] = "run"]
        /\ Len(begun') = Len(begun) + 1 /\ begun'[Len(begun')] = x
        /\ \A n \in 1..Len(begun) : begun'[n] = begun[n]
        /\ \A u \in M!Thread \ {t} : task'[u] = task[u]
        /\ task'[t].at \in {"idle", "clear", "signal"}
        /\ task'[t].at = "clear" => task'[t].op = "stop"
        /\ task[t].op = "stop" => task'[t].op = "stop"
        /\ task'[t].op \in {task[t].op, "none"}
        /\ UNCHANGED <<breaks, cmds, stops, reported, asleep, missed>>
    BY <1>4, StartDoes DEF M!Start, Turns, M!Overlap
  <2>3. x = Len(begun) + 1 /\ x = Commands - Len(cmds) /\ Len(begun) \in Nat
    BY <2>1, LenProperties DEF Counted, Tally, Typed
  <2> HIDE DEF x
  <2>4. \A n \in 1..Len(begun) : life'[begun[n]] = life[begun[n]] /\ begun[n] \in M!Command
    <3>1. \A n \in 1..Len(begun) : begun[n] \in Range(begun) /\ begun[n] \in M!Command
      BY DEF Typed, Range
    <3>2. x \notin Range(begun)
      BY <2>2 DEF Handed
    <3> QED
      BY <2>2, <3>1, <3>2 DEF Typed
  <2>5. InOrder'
    <3>1. SUFFICES ASSUME breaks, NEW n \in 1..Len(begun) PROVE life[begun[n]] = "ok"
      BY <2>2, <2>3, <2>4 DEF InOrder
    <3>2. CASE n = Len(begun)
      BY <2>1, <3>1, <3>2 DEF Typed
    <3>3. CASE n # Len(begun)
      BY <2>3, <3>1, <3>3 DEF Counted, InOrder
    <3> QED
      BY <3>2, <3>3
  <2>6. M!EndIsDue => M!EndIsDue'
    <3>1. Len(begun) # Commands
      BY <2>2, <2>3, AtLeastOne DEF M!Command
    <3>2. ~(breaks /\ life[current] = "failed")
      BY <2>1
    <3> QED
      BY <2>2, <3>1, <3>2, EndMeans
  <2>7. Tally'
    <3>1. \A u \in M!Thread : task'[u].at # "start"
      BY <2>1, <2>2 DEF M!Advancing
    <3>2. cmds = <<>> => M!EndIsDue'
      <4>1. ASSUME cmds = <<>> PROVE Len(begun') = Commands
        BY <4>1, <2>2, <2>3, AtLeastOne
      <4> QED
        BY <4>1, EndMeans
    <3>3. Len(begun') = Commands - Len(cmds')
      BY <2>2, <2>3
    <3> QED
      BY <3>1, <3>2, <3>3, <2>2 DEF Tally
  <2>8. EndSeen'
    BY <2>1, <2>2, <2>6 DEF EndSeen, Counted
  <2>9. ~Ended
    BY <2>1 DEF Ended, M!Advancing
  <2>10. StopHolds'
    BY <2>2, <2>9 DEF StopHolds, Counted
  <2>11. Sleeps' => Sleeps
    BY <2>1, <2>2 DEF Sleeps, M!Thread
  <2>12. SleepHolds'
    <3>1. life[current] # "frozen"
      BY <2>1 DEF M!Live
    <3> QED
      BY <2>2, <2>9, <2>11, <3>1 DEF SleepHolds, Counted
  <2> QED
    BY <2>5, <2>7, <2>8, <2>10, <2>12 DEF Counted
<1>5. ASSUME NEW t \in M!Thread, M!StartFails(t) PROVE Counted'
  BY <1>5 DEF M!StartFails
<1>6. ASSUME NEW t \in M!Thread, NEW op \in {"visit", "stop", "suspend", "resume"}, M!Begins(t, op),
             op = "stop" => stops' = stops \cup {t}, op # "stop" => stops' = stops
      PROVE  Counted'
  <2>1. /\ UNCHANGED <<breaks, begun, current, life, cmds, reported, asleep, missed>>
        /\ Turns(t, op, "poll", task[t].exit, task[t].taken) /\ task[t].at = "idle"
        /\ stops \subseteq stops' /\ task[t].op # "stop"
        /\ stops' # {} => stops # {} \/ task'[t].op = "stop"
    BY <1>6, BeginDoes DEF M!Begins, Ops, Purposes, Purpose, Turns
  <2>2. InOrder' /\ Tally' /\ (M!EndIsDue => M!EndIsDue')
    BY <2>1, CountedFrame DEF Turns
  <2>3. Ended => Ended'
    BY <2>1 DEF Ended, M!Live, Turns, M!Advancing
  <2>4. EndSeen'
    BY <2>1, <2>2 DEF EndSeen, Counted, Turns
  <2>5. StopHolds'
    BY <2>1, <2>3 DEF StopHolds, Counted, Turns
  <2>6. Sleeps' => Sleeps
    BY <2>1 DEF Sleeps, Turns, M!Thread
  <2>7. SleepHolds'
    BY <2>1, <2>3, <2>6 DEF SleepHolds, Counted
  <2> QED
    BY <2>2, <2>4, <2>5, <2>7 DEF Counted
<1>7. ASSUME NEW t \in M!Thread, M!Clear(t) PROVE Counted'
  <2>1. /\ UNCHANGED <<breaks, begun, current, life, stops, reported, asleep>>
        /\ missed' = missed /\ cmds' = <<>>
        /\ Turns(t, task[t].op, "kill", task[t].exit, task[t].taken) /\ task[t].at = "clear"
        /\ \A u \in M!Thread \ {t} : task[u].at \notin M!Advancing
    BY <1>0, <1>7, Goes DEF M!Clear, M!Overlap, Places, M!At
  <2>2. M!EndIsDue
    <3>1. CASE task[t].op = "visit"
      BY <2>1, <3>1 DEF Counted, EndSeen
    <3>2. CASE task[t].op = "stop"
      BY <3>2, EndMeans DEF Purposes, Purpose
    <3> QED
      BY <2>1, <3>1, <3>2 DEF Purposes, Purpose
  <2>3. InOrder' /\ Tally' /\ (M!EndIsDue => M!EndIsDue')
    <3>1. \A u \in M!Thread : task[u].at # "start"
      BY <2>1 DEF M!Advancing
    <3> QED
      BY <2>1, <2>2, <3>1, CountedFrame DEF Turns
  <2>4. Ended => Ended'
    BY <2>1 DEF Ended, M!Live, Turns, M!Advancing
  <2>5. EndSeen'
    BY <2>2, <2>3 DEF EndSeen
  <2>6. \A u \in M!Thread : task'[u].op = task[u].op
    BY <2>1 DEF Turns
  <2>7. StopHolds'
    BY <2>1, <2>4, <2>6 DEF StopHolds, Counted
  <2>8. Sleeps' => Sleeps
    BY <2>1 DEF Sleeps, Turns, M!Thread
  <2>9. SleepHolds'
    BY <2>1, <2>4, <2>8 DEF SleepHolds, Counted
  <2> QED
    BY <2>3, <2>5, <2>7, <2>9 DEF Counted
<1>8. ASSUME NEW t \in M!Thread, M!Kill(t) PROVE Counted'
  <2>1. /\ UNCHANGED <<breaks, begun, current, stops, cmds>>
        /\ life' = [life EXCEPT ![current] = IF M!Live(current) THEN "failed" ELSE @]
        /\ Turns(t, "none", "idle", "none", 0) /\ task[t].at = "kill"
        /\ \A u \in M!Thread \ {t} : task[u].at \notin M!Advancing
    BY <1>0, <1>8, Leaves DEF M!Kill, M!At
  <2>2. cmds = <<>> /\ current \in M!Command
    BY <2>1 DEF Purposes, Purpose, Typed
  <2>3. \A c \in M!Command : life[c] \in {"ok", "failed"} => life'[c] = life[c]
    BY <2>1, <2>2 DEF Typed, M!Live
  <2>4. InOrder' /\ Tally' /\ (M!EndIsDue => M!EndIsDue')
    BY <2>1, <2>3, CountedFrame DEF Turns
  <2>5. M!EndIsDue'
    <3>1. \A u \in M!Thread : task[u].at # "start"
      BY <2>1 DEF M!Advancing
    <3> QED
      BY <2>2, <2>4, <3>1 DEF Counted, Tally
  <2>6. Ended'
    <3>1. ~M!Live(current)'
      BY <2>1, <2>2 DEF M!Live, Typed
    <3> QED
      BY <2>1, <2>2, <3>1 DEF Ended, Turns, M!Advancing
  <2> QED
    BY <2>4, <2>5, <2>6 DEF Counted, EndSeen, StopHolds, SleepHolds
<1>9. CASE M!Signal
  <2>1. /\ UNCHANGED <<breaks, begun, current, stops, cmds, reported, asleep>>
        /\ Turns(Disp, task[Disp].op, "pause", task[Disp].exit, task[Disp].taken)
        /\ task[Disp].at = "signal" /\ Disp \in M!Thread /\ current \in M!Command
        /\ task[Disp].op \in {"suspend", "resume"}
    BY <1>9, Goes DEF M!Signal, Places, M!Thread, M!At, Typed, Purposes, Purpose
  <2>2. life' = [life EXCEPT ![current] =
                   IF ~M!Live(current) THEN @
                   ELSE IF task[Disp].op = "suspend" THEN "frozen" ELSE "run"]
    BY <1>9 DEF M!Signal
  <2>3. \A c \in M!Command : life[c] \in {"ok", "failed"} => life'[c] = life[c]
    BY <2>1, <2>2 DEF Typed, M!Live
  <2>4. InOrder' /\ Tally' /\ (M!EndIsDue => M!EndIsDue')
    BY <2>1, <2>3, CountedFrame DEF Turns
  <2>5. EndSeen'
    BY <2>1, <2>4 DEF EndSeen, Counted, Turns
  <2>6. Ended => Ended'
    <3>1. ~M!Live(current) => life' = life
      BY <2>1, <2>2 DEF Typed
    <3> QED
      BY <2>1, <3>1 DEF Ended, M!Live, Turns, M!Advancing
  <2>7. \A u \in M!Thread : task'[u].op = task[u].op
    BY <2>1 DEF Turns
  <2>8. StopHolds'
    BY <2>1, <2>6, <2>7 DEF StopHolds, Counted
  <2>9. SleepHolds'
    <3>1. CASE task[Disp].op = "suspend"
      <4>1. ~missed' => M!Live(current)
        BY <1>9, <3>1 DEF M!Signal
      <4>2. M!Live(current) => life'[current'] = "frozen"
        BY <2>1, <2>2, <3>1 DEF Typed
      <4> QED
        BY <4>1, <4>2 DEF SleepHolds
    <3>2. CASE task[Disp].op = "resume"
      BY <2>1, <3>2 DEF SleepHolds, Sleeps, Turns
    <3> QED
      BY <2>1, <3>1, <3>2
  <2> QED
    BY <2>4, <2>5, <2>8, <2>9 DEF Counted
<1>10. CASE M!Pause
  <2>1. /\ UNCHANGED <<breaks, begun, current, life, stops, cmds, reported, missed>>
        /\ Turns(Disp, "none", "idle", "none", 0)
        /\ task[Disp].at = "pause" /\ Disp \in M!Thread
        /\ task[Disp].op \in {"suspend", "resume"} /\ asleep' = (task[Disp].op = "suspend")
    BY <1>10, Leaves DEF M!Pause, M!Thread, M!At, Purposes, Purpose
  <2>2. InOrder' /\ Tally' /\ (M!EndIsDue => M!EndIsDue')
    BY <2>1, CountedFrame DEF Turns
  <2>3. Ended => Ended'
    BY <2>1 DEF Ended, M!Live, Turns, M!Advancing
  <2>4. EndSeen'
    BY <2>1, <2>2 DEF EndSeen, Counted, Turns
  <2>5. StopHolds'
    BY <2>1, <2>3 DEF StopHolds, Counted, Turns
  <2>6. Sleeps' => Sleeps
    BY <2>1 DEF Sleeps, Turns
  <2>7. SleepHolds'
    BY <2>1, <2>3, <2>6 DEF SleepHolds, Counted
  <2> QED
    BY <2>2, <2>4, <2>5, <2>7 DEF Counted
<1>11. ASSUME NEW c \in M!Command, NEW how \in {"ok", "failed"}, M!Exit(c, how) PROVE Counted'
  <2>1. /\ life[c] = "run" /\ life' = [life EXCEPT ![c] = how]
        /\ UNCHANGED <<breaks, begun, current, stops, cmds, reported, asleep, missed, task>>
    BY <1>11 DEF M!Exit
  <2>2. c = current /\ M!Live(current)
    BY <2>1 DEF Alone, M!Runs, M!Live
  <2>3. InOrder'
    BY <2>1, <2>2 DEF Counted, InOrder, Typed
  <2>4. M!EndIsDue => M!EndIsDue'
    BY <2>1, <2>2, EndMeans DEF M!Live
  <2>5. Tally' /\ EndSeen'
    BY <2>1, <2>4 DEF Tally, EndSeen, Counted
  <2>6. ~Ended
    BY <2>2 DEF Ended
  <2>7. StopHolds'
    BY <2>1, <2>6 DEF StopHolds, Counted
  <2>8. ~(Sleeps' /\ ~missed')
    BY <2>1, <2>2, <2>6 DEF SleepHolds, Counted, Sleeps
  <2> QED
    BY <2>3, <2>5, <2>7, <2>8 DEF Counted, SleepHolds
<1> QED
  BY <1>1, <1>2, <1>3, <1>4, <1>6, <1>5, <1>7, <1>8, <1>9, <1>10, <1>11, StepDoes

\* The first command runs when Multi begins.
LEMMA InTurnInit == Commands \in Nat \ {0} /\ M!MultiInit => InTurn
<1> SUFFICES ASSUME Commands \in Nat \ {0}, M!MultiInit PROVE InTurn
  OBVIOUS
<1> USE DEF M!MultiInit
<1>1. /\ current = 1 /\ begun = <<1>> /\ Len(begun) = 1 /\ begun[1] = 1 /\ 1 \in M!Command
      /\ Range(begun) = {1}
      /\ \A t \in M!Thread : task[t] = M!Idle
      /\ M!Idle.op = "none" /\ M!Idle.at = "idle" /\ M!Idle \in Tasks
  BY DEF M!Command, Range, M!Idle, Tasks, Ops, Places
<1>2. cmds \in Seq(M!Command) /\ Len(cmds) = Commands - 1
  <2>1. \A c \in 1..(Commands - 1) : c + 1 \in M!Command
    BY DEF M!Command
  <2>2. Commands - 1 \in Nat
    OBVIOUS
  <2>3. cmds = [c \in 1..(Commands - 1) |-> c + 1]
    OBVIOUS
  <2> HIDE DEF M!MultiInit
  <2> QED
    BY <2>1, <2>2, <2>3
<1>3. Typed
  <2>1. /\ begun \in Seq(M!Command) /\ begun # <<>>
        /\ life \in [M!Command -> {"new", "run", "frozen", "ok", "failed"}]
        /\ task \in [M!Thread -> Tasks]
    BY <1>1
  <2> QED
    BY <1>1, <1>2, <2>1 DEF Typed
<1>4. Handed
  <2>1. IsInjective(begun)
    BY <1>1 DEF IsInjective
  <2>2. \A c \in M!Command : c \in Range(begun) <=> life[c] # "new"
    BY <1>1
  <2>3. \A n \in 1..Len(cmds) : cmds[n] = (Commands - Len(cmds)) + n
    BY <1>2
  <2>4. \A c \in Range(begun) : c <= Commands - Len(cmds)
    BY <1>1, <1>2
  <2> QED
    BY <1>1, <1>2, <2>1, <2>2, <2>3, <2>4 DEF Handed, M!At
<1>5. Purposes
  BY <1>1 DEF Purposes, Purpose
<1>6. Alone
  BY <1>1 DEF Alone, Sees, M!Runs, M!Live, M!Advancing
<1>7. Counted
  <2>1. InOrder
    BY <1>1 DEF InOrder
  <2>2. Tally
    <3>1. cmds = <<>> => M!EndIsDue
      BY <1>1, <1>2 DEF M!EndIsDue
    <3> QED
      BY <1>1, <1>2, <3>1 DEF Tally
  <2>3. EndSeen /\ StopHolds
    BY <1>1 DEF EndSeen, StopHolds
  <2>4. SleepHolds
    BY <1>1 DEF SleepHolds, Sleeps, M!Thread
  <2> QED
    BY <2>1, <2>2, <2>3, <2>4 DEF Counted
<1> QED
  BY <1>3, <1>4, <1>5, <1>6, <1>7 DEF InTurn

\* The invariant is inductive.
LEMMA InTurnStep == InTurn /\ [M!MultiNext]_M!multiVars => InTurn'
<1> SUFFICES ASSUME InTurn, [M!MultiNext]_M!multiVars PROVE InTurn'
  OBVIOUS
<1>1. CASE M!MultiNext
  <2>1. Typed /\ Handed /\ Purposes /\ (~overlapped => Alone)
        /\ (~overlapped /\ ~bailed => Counted)
    BY DEF InTurn
  <2>2. Typed' /\ Handed' /\ Purposes'
    BY <1>1, <2>1, TypedStep, HandedStep, PurposesStep
  <2>3. ~overlapped' => ~overlapped /\ Alone'
    BY <1>1, <2>1, AloneStep
  <2>4. ~bailed' => ~bailed
    BY <1>1, <2>1 DEF M!MultiNext, M!Poll, M!Test, M!Pop, M!Start, M!StartFails, M!Stop, M!Clear,
       M!Kill, M!Visit,
          M!Asks, M!Begins, M!Signal, M!Pause, M!Exit, M!processVars
  <2>5. ~overlapped' /\ ~bailed' => Counted'
    BY <1>1, <2>1, <2>2, <2>3, <2>4, CountedStep
  <2> QED
    BY <2>2, <2>3, <2>5 DEF InTurn
<1>2. CASE UNCHANGED M!multiVars
  <2>1. UNCHANGED <<breaks, cmds, current, life, task, stops, asleep, reported, begun, bailed,
                    overlapped, missed>>
    BY <1>2 DEF M!multiVars, M!processVars, M!backupVars, M!historyVars
  <2> QED
    BY <2>1 DEF InTurn, Typed, Handed, Purposes, Purpose, Alone, Sees, M!Runs, M!Live, M!At,
       Counted,
        InOrder, Tally, M!EndIsDue, EndSeen, StopHolds, SleepHolds, Sleeps, Ended
<1> QED
  BY <1>1, <1>2

\* The invariant implies the property.
LEMMA InTurnHolds == InTurn => M!CommandsInTurn
<1> SUFFICES ASSUME InTurn PROVE M!CommandsInTurn
  OBVIOUS
<1>1. M!IsInjective(begun)
  BY DEF InTurn, Handed, M!IsInjective, IsInjective
<1>2. ASSUME ~overlapped
      PROVE  /\ \A m, n \in 1..Len(begun) : m < n => begun[m] < begun[n]
             /\ M!Runs \subseteq {current}
             /\ reported => M!Runs = {}
  BY <1>2 DEF InTurn, Alone, M!Runs
<1>3. ASSUME ~overlapped, ~bailed
      PROVE  /\ breaks => \A n \in 1..(Len(begun) - 1) : life[begun[n]] = "ok"
             /\ reported => M!EndIsDue
             /\ M!Quiet /\ stops # {} => M!Runs = {}
             /\ M!Quiet /\ asleep /\ ~missed => \A c \in M!Runs : life[c] = "frozen"
  <2>1. Alone /\ Counted /\ Purposes
    BY <1>3 DEF InTurn
  <2>2. Ended => M!Runs = {}
    BY <2>1 DEF Ended, Alone, M!Runs
  <2>3. M!Quiet => \A t \in M!Thread : task[t].op = "none" /\ task[t].at = "idle"
    BY <2>1 DEF M!Quiet, Alone, Sees, Purposes, Purpose
  <2>4. M!Quiet /\ asleep => Sleeps
    BY <2>3 DEF Sleeps, M!Thread
  <2>5. \A c \in M!Runs : c = current
    BY <2>1 DEF Alone
  <2> QED
    BY <2>1, <2>2, <2>3, <2>4, <2>5 DEF Counted, InOrder, EndSeen, StopHolds, SleepHolds
<1> QED
  BY <1>1, <1>2, <1>3 DEF M!CommandsInTurn

\* CommandsInTurn (backup.py, Multi): for any number of commands, no command of a list is
\* started twice; and unless the two threads overlapped, commands run one after the other, none
\* after the end was reported, none after one that failed when that matters, and a stop or a
\* suspend leaves none running.
THEOREM CommandsTakeTurns ==
    M!MultiInit /\ [][M!MultiNext]_M!multiVars => []M!CommandsInTurn
<1>1. M!MultiInit => InTurn
  BY InTurnInit, ModulesAssumption
<1>2. M!MultiInit /\ [][M!MultiNext]_M!multiVars => []InTurn
  BY <1>1, InTurnStep, PTL
<1> QED
  BY <1>2, InTurnHolds, PTL

-----------------------------------------------------------------------------
(* The modules side by side.                                               *)

mcVars == <<topic, vars, sessionVars, powerVars, others>>

\* A step of the modules is one of each of them, or leaves it alone.
LEMMA OthersRest ==
    ASSUME [MCNext]_mcVars
    PROVE  /\ [S!SessionNext]_S!sessionVars
           /\ [P!PowerNext]_P!powerVars
           /\ [C!StorageNext]_C!storageVars
           /\ [M!MultiNext]_M!multiVars
           /\ [Next]_vars
           /\ UNCHANGED topic
<1>1. /\ S!SessionNext \/ UNCHANGED sessionVars
      /\ P!PowerNext \/ UNCHANGED powerVars
      /\ C!StorageNext \/ UNCHANGED storageVars
      /\ M!MultiNext \/ UNCHANGED multiVars
      /\ Next \/ UNCHANGED vars
      /\ UNCHANGED topic
  <2>1. CASE UNCHANGED mcVars
    BY <2>1 DEF mcVars, others
  <2>2. CASE MCNext
    BY <2>2 DEF MCNext, others
  <2> QED
    BY <2>1, <2>2
<1>2. UNCHANGED sessionVars => UNCHANGED S!sessionVars
  BY DEF sessionVars, S!sessionVars, S!configVars, S!screenVars
<1>3. UNCHANGED powerVars => UNCHANGED P!powerVars
  BY DEF powerVars, P!powerVars, P!cpuVars, P!radioVars, P!systemVars
<1>4. UNCHANGED storageVars => UNCHANGED C!storageVars
  BY DEF storageVars, C!storageVars, C!diskVars
<1>5. UNCHANGED multiVars => UNCHANGED M!multiVars
  BY DEF multiVars, M!multiVars, M!processVars, M!backupVars, M!historyVars
<1> QED
  BY <1>1, <1>2, <1>3, <1>4, <1>5

\* Each module of MCModules behaves as its own specification says.
LEMMA EachModule ==
    MCSpec => /\ Spec
              /\ S!SessionSpec
              /\ C!StorageInit /\ [][C!StorageNext]_C!storageVars
              /\ P!PowerSpec
              /\ M!MultiInit /\ [][M!MultiNext]_M!multiVars
<1>1. MCInit => Init /\ S!SessionInit /\ C!StorageInit /\ P!PowerInit /\ M!MultiInit
  BY DEF MCInit
<1>2. [MCNext]_mcVars => /\ [Next]_vars
                         /\ [S!SessionNext]_S!sessionVars
                         /\ [C!StorageNext]_C!storageVars
                         /\ [P!PowerNext]_P!powerVars
                         /\ [M!MultiNext]_M!multiVars
  BY OthersRest
<1> QED
  BY <1>1, <1>2, PTL DEF MCSpec, mcVars, Spec, S!SessionSpec, P!PowerSpec

\* WindowsThaw: beside the other modules, once the screen is unlocked and that was handled, no
\* window is frozen, except in the ways of Session's Lapsed (session.py, lock()).
THEOREM WindowsThawBeside == MCSpec => []WindowsThaw
<1>1. S!WindowsThaw => WindowsThaw
  BY DEF WindowsThaw
<1> QED
  BY <1>1, EachModule, EveryWindowThaws, PTL

\* ConfigKept: beside the other modules, the value that was set or edited last is in memory, or
\* waits in the file, except in the ways of Storage's Lapsed (storage.py).
THEOREM ConfigKeptBeside == MCSpec => []ConfigKept
<1>1. C!ConfigKept => ConfigKept
  BY DEF ConfigKept
<1> QED
  BY <1>1, EachModule, ValuesAreKept, PTL

\* SettingsKept: beside the other modules, the settings a hibernate reduced are those that were
\* accepted last once it is over (cpu.py and radio.py).
THEOREM SettingsKeptBeside == MCSpec => []SettingsKept
<1>1. P!SettingsKept => SettingsKept
  BY DEF SettingsKept
<1> QED
  BY <1>1, EachModule, SettingsOutlast, PTL

\* CommandsInTurn: beside the other modules, no command of a list is started twice; and unless
\* the two threads overlapped, the commands run one after the other and none is left running by
\* a stop or a suspend (backup.py, Multi).
THEOREM CommandsTakeTurnsBeside == MCSpec => []CommandsInTurn
<1>1. M!CommandsInTurn => CommandsInTurn
  BY DEF CommandsInTurn
<1> QED
  BY <1>1, EachModule, CommandsTakeTurns, PTL

\* BackgroundHolds: beside the other modules, one rotation runs when it should, whose pictures
\* fit the largest output that is lit; until a reload forks the rotation, the two threads meet
\* in _background(), or the picture is linked before _lock is set (background.py, display.py).
THEOREM BackgroundHoldsBeside ==
    ASSUME {"forked", "met", "early"} \subseteq Race
    PROVE  MCSpec => []BackgroundHolds
BY EachModule, BackgroundsHold, PTL

\* ModulesTypeOK: beside each other, the modules of a desktop, of a session and of the power
\* settings keep the types of their variables.
THEOREM ModulesTyped == MCSpec => []ModulesTypeOK
<1>1. TypeOK /\ S!SessionTypeOK /\ P!PowerTypeOK => ModulesTypeOK
  BY DEF ModulesTypeOK
<1>2. DesktopTypes => TypeOK
  BY DesktopTyped
<1> QED
  BY <1>1, <1>2, EachModule, DesktopTyping, SessionTyping, PowerTyping, PTL
================================================================================
