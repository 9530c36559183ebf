--------------------------- MODULE TokenLifeProofs ---------------------------
(***************************************************************************)
(* Proofs about TokenLife, for every set of processes, keys and sessions   *)
(* and every setting: which sessions of the token table are good, what a   *)
(* load that succeeds is worth, and that a process makes one token.        *)
(***************************************************************************)
EXTENDS TokenLife, WellFoundedInduction, TLAPS

USE TokenLifeAssumption

-----------------------------------------------------------------------------
(* The invariant, about one process: its record q, its library lib and the *)
(* slots s; faults tells whether calls may fail by themselves.             *)

SlotRecord == [label : Labels, pin : BOOLEAN, rsa : SUBSET (Urls \ AesUrls)]

\* There is always an uninitialized token, and it is the last one.
SlotsOK(s) ==
  /\ s \in Seq(SlotRecord) /\ Len(s) > 0
  /\ \A n \in 1..Len(s) : s[n].label = "blank" <=> n = Len(s)

\* The slots with an initialized token.
Named(s) == 1..(Len(s) - 1)

Matching(s, n) == n \in Named(s) /\ matches(s[n].label)

\* The slots only gain: t is s, or s with more keys or tokens.
Gains(s, t) ==
  /\ SlotsOK(t) /\ Len(s) <= Len(t)
  /\ \A n \in Named(s) : t[n].label = s[n].label /\ s[n].rsa \subseteq t[n].rsa

\* The slot of session h, and the object of key u on it.
SlotIn(lib, h) == IF h \in Handles THEN lib.open[h] ELSE 0

ObjectIn(lib, s, n, u) ==
  /\ n \in lib.user
  /\ IF u \in AesUrls THEN <<n, u>> \in lib.aes ELSE u \in s[n].rsa

\* Opening the token, and in the agent.
OpeningPcs == {"find", "create", "find_again", "open"}
AgentPcs   == {"load", "load_again", "unlock"}

\* Where a process is, and what it then has.
Control(q) ==
  /\ q.stage \in {"down", "loaded", "forked", "finalized"} => q.pc = "idle"
  /\ q.pc # "idle" => q.url \in Urls
  /\ q.create => q.pc \in OpeningPcs \cup AgentPcs
  /\ q.holder = "worker" <=> q.pc \in AgentPcs \/ q.create
  /\ q.pc \in OpeningPcs => ~q.entry.there
  /\ q.pc = "search" => q.entry.there
  /\ ~q.entry.there => q.entry.session = NoHandle /\ q.known = {} /\ ~q.session
  /\ q.fresh => q.entry.there /\ q.entry.session # NoHandle
  /\ q.stage = "forked" => ~q.fresh /\ q.child = NoHandle /\ q.handed = {}

\* The sessions it relies on are open and logged in, and what was handed to the
\* library is there.  If no call fails by itself, the library that opened the token has
\* all keys the agent knows, and the wrapping key.
Table(q, lib, s, faults) ==
  /\ lib.user \subseteq Named(s)
  /\ \A h \in lib.searching : lib.open[h] # 0
  /\ q.child # NoHandle => SlotIn(lib, q.child) # 0
  /\ q.entry.there /\ q.entry.session # NoHandle /\ (q.fresh \/ q.entry.session = q.child) =>
       /\ SlotIn(lib, q.entry.session) \in lib.user
       /\ Matching(s, SlotIn(lib, q.entry.session))
  /\ \A u \in q.handed : q.entry.there /\ ObjectIn(lib, s, SlotIn(lib, q.entry.session), u)
  /\ ~faults /\ q.fresh =>
       /\ q.known \subseteq q.handed
       /\ q.session => SlotIn(lib, q.entry.session) \in lib.swk

\* It opens a token that matches.  A load past its own search has left none in the
\* session; one that succeeded has the object there, or the agent knew the key.
Progress(q, lib, s, faults) ==
  /\ q.pc = "open" => Matching(s, q.slot)
  /\ q.entry.there /\ q.pc \in {"load", "load_again"} => q.entry.session \notin lib.searching
  /\ q.entry.there /\ (q.pc = "lock" \/ (q.pc \in {"unlock", "returned"} /\ q.ok)) =>
       SlotIn(lib, q.entry.session) # 0 /\ q.entry.session \notin lib.searching
  /\ q.pc \in {"unlock", "returned"} /\ q.ok =>
       \/ q.entry.there /\ ObjectIn(lib, s, SlotIn(lib, q.entry.session), q.url)
       \/ q.url \in q.known \ q.handed /\ (faults \/ ~q.fresh)

Good(q, lib, s, faults) ==
  Control(q) /\ Table(q, lib, s, faults) /\ Progress(q, lib, s, faults)

\* If C_GetTokenInfo does not fail, a process makes a token only when it found none,
\* and it finds the one it made.
MadeOnce ==
  "info" \notin setting.faults =>
    /\ \A p \in Processes :
         /\ proc[p].entry.there => proc[p].entry.session # NoHandle
         /\ proc[p].pc = "create" => \A i \in 1..Len(made) : made[i] # p
         /\ proc[p].pc = "find_again" => \E n \in Named(slots) : matches(slots[n].label)
    /\ \A i, j \in 1..Len(made) : made[i] = made[j] => i = j
    /\ made # <<>> => \E n \in Named(slots) : matches(slots[n].label)

TokenLifeInv ==
  /\ setting \in Settings
  /\ SlotsOK(slots)
  /\ proc \in [Processes -> Process]
  /\ library \in [Processes -> Library]
  /\ made \in Seq(Processes) /\ Len(made) <= setting.made
  /\ restarts \in 0..setting.restarts
  /\ \A p \in Processes : Good(proc[p], library[p], slots, CallsMayFail)
  /\ MadeOnce

-----------------------------------------------------------------------------
(* Slots. *)

LEMMA Blanks ==
  ASSUME NEW s, SlotsOK(s)
  PROVE  /\ Len(s) \in Nat \ {0} /\ DOMAIN s = 1..Len(s)
         /\ \A n \in 1..Len(s) : s[n] \in SlotRecord
         /\ \A n \in 1..Len(s) : s[n].label # "blank" => n \in Named(s)
         /\ \A n \in 1..Len(s) : matches(s[n].label) => Matching(s, n)
  <1>1. /\ Len(s) \in Nat \ {0} /\ DOMAIN s = 1..Len(s)
        /\ \A n \in 1..Len(s) : s[n] \in SlotRecord
    BY DEF SlotsOK
  <1>2. \A n \in 1..Len(s) : s[n].label # "blank" => n \in Named(s)
    <2>1. \A n \in 1..Len(s) : s[n].label # "blank" => n # Len(s)
      BY DEF SlotsOK
    <2>2. \A k \in Nat : \A n \in 1..k : n # k => n \in 1..(k - 1)
      OBVIOUS
    <2>3. \A n \in 1..Len(s) : n # Len(s) => n \in Named(s)
      BY <1>1, <2>2 DEF Named
    <2> QED BY <2>1, <2>3
  <1>3. \A n \in 1..Len(s) : matches(s[n].label) => s[n].label # "blank"
    BY DEF matches
  <1>4. \A n \in 1..Len(s) : matches(s[n].label) => Matching(s, n)
    BY <1>2, <1>3 DEF Matching
  <1> QED BY <1>1, <1>2, <1>4

\* A nonempty set of numbers has a least one.
LEMMA Least ==
  ASSUME NEW S \in SUBSET Nat, S # {}
  PROVE  \E n \in S : \A m \in S : n <= m
  <1>1. PICK n \in S : \A m \in S : ~(<<m, n>> \in OpToRel(<, Nat))
    BY NatLessThanWellFounded, WFMin
  <1>2. \A m \in S : ~(m < n)
    BY <1>1 DEF OpToRel
  <1> QED BY <1>2

\* What apimodule_findtoken returns is a token that matches; and if C_GetTokenInfo does
\* not fail it finds one if there is one.
LEMMA Found ==
  ASSUME SlotsOK(slots), NEW p, NEW f \in findtoken(p)
  PROVE  /\ f.rv \in BOOLEAN /\ f.slot \in Nat
         /\ f.slot # 0 => Matching(slots, f.slot)
         /\ "info" \notin setting.faults =>
              /\ f.rv
              /\ f.slot = 0 => \A n \in Named(slots) : ~matches(slots[n].label)
  <1>1. PICK bad : /\ f = [rv |-> findtoken_rv(bad), slot |-> found_slot(bad)]
                   /\ bad \in (IF "info" \in setting.faults THEN SUBSET (1..Len(slots)) ELSE {{}})
    BY DEF findtoken
  <1> DEFINE good == {n \in 1..Len(slots) : n \notin bad /\ matches(slots[n].label)}
  <1>2. good = {} => found_slot(bad) = 0
    BY DEF found_slot
  <1>3. good # {} => found_slot(bad) \in good
    <2>1. good # {} => \E n \in good : \A m \in good : n <= m
      <3>1. good \in SUBSET Nat
        OBVIOUS
      <3> HIDE DEF good
      <3> QED BY <3>1, Least
    <2> QED BY <2>1 DEF found_slot
  <1>4. f.rv \in BOOLEAN
    BY <1>1 DEF findtoken_rv
  <1>5. f.slot \in Nat /\ (f.slot # 0 => Matching(slots, f.slot))
    BY <1>1, <1>2, <1>3, Blanks
  <1>6. ASSUME "info" \notin setting.faults
        PROVE  f.rv /\ (f.slot = 0 => \A n \in Named(slots) : ~matches(slots[n].label))
    <2>1. bad = {}
      BY <1>1, <1>6
    <2>2. f.rv
      BY <1>1, <2>1 DEF findtoken_rv
    <2>3. f.slot = 0 => good = {}
      BY <1>1, <1>3
    <2>4. Named(slots) \subseteq 1..Len(slots)
      BY Blanks DEF Named
    <2> QED BY <2>1, <2>2, <2>3, <2>4
  <1> QED BY <1>4, <1>5, <1>6

LEMMA SameGains ==
  ASSUME NEW s, SlotsOK(s)
  PROVE  Gains(s, s)
  BY DEF Gains, SlotsOK, Named

LEMMA MadeGains ==
  ASSUME SlotsOK(slots), NEW pin \in BOOLEAN
  PROVE  /\ Gains(slots, TokenMade(pin))
         /\ Matching(TokenMade(pin), Len(slots))
         /\ Len(slots) \in Named(TokenMade(pin))
  <1> DEFINE made_one == [label |-> new_label, pin |-> pin, rsa |-> {}]
             s == [slots EXCEPT ![Len(slots)] = made_one]
             t == TokenMade(pin)
  <1>a. slots \in Seq(SlotRecord) /\ Len(slots) \in Nat /\ Len(slots) > 0
    BY DEF SlotsOK
  <1>b. /\ made_one \in SlotRecord /\ Blank \in SlotRecord
        /\ made_one.label = "KMS" /\ Blank.label = "blank"
    BY DEF SlotRecord, Labels, Blank, new_label
  <1>1. /\ slots \in Seq(SlotRecord) /\ Len(slots) \in Nat /\ Len(slots) > 0
        /\ made_one \in SlotRecord /\ Blank \in SlotRecord
        /\ made_one.label = "KMS" /\ Blank.label = "blank"
    BY <1>a, <1>b
  <1> HIDE DEF made_one
  <1>2. s \in Seq(SlotRecord) /\ Len(s) = Len(slots)
    BY <1>1
  <1>s. \A n \in 1..Len(slots) : s[n] = IF n = Len(slots) THEN made_one ELSE slots[n]
    BY <1>1
  <1>3. t = Append(s, Blank)
    BY DEF TokenMade, made_one
  <1> HIDE DEF s, t
  <1>4. t \in Seq(SlotRecord) /\ Len(t) = Len(slots) + 1
    BY <1>1, <1>2, <1>3
  <1>5. \A n \in 1..Len(slots) : t[n] = IF n = Len(slots) THEN made_one ELSE slots[n]
    BY <1>1, <1>2, <1>3, <1>s
  <1>6. t[Len(slots) + 1] = Blank
    BY <1>1, <1>2, <1>3
  <1>7. SlotsOK(t)
    BY <1>1, <1>4, <1>5, <1>6 DEF SlotsOK
  <1>8. Gains(slots, t)
    BY <1>1, <1>4, <1>5, <1>7 DEF Gains, Named
  <1>9. Len(slots) \in Named(t) /\ Matching(t, Len(slots))
    <2>1. Len(slots) \in Named(t)
      BY <1>1, <1>4 DEF Named
    <2>2. t[Len(slots)].label = "KMS"
      BY <1>1, <1>5
    <2> QED BY <2>1, <2>2 DEF Matching, matches
  <1> QED BY <1>8, <1>9 DEF t

LEMMA ChangedGains ==
  ASSUME NEW s, SlotsOK(s), NEW n \in Named(s), NEW r \in SlotRecord,
         r.label = s[n].label, s[n].rsa \subseteq r.rsa,
         NEW t, t = [s EXCEPT ![n] = r]
  PROVE  Gains(s, t)
  <1>1. s \in Seq(SlotRecord) /\ Len(s) \in Nat /\ n \in 1..Len(s)
    BY DEF SlotsOK, Named
  <1>2. t \in Seq(SlotRecord) /\ Len(t) = Len(s)
    BY <1>1
  <1>3. \A m \in 1..Len(s) : t[m] = IF m = n THEN r ELSE s[m]
    BY <1>1
  <1>4. SlotsOK(t)
    BY <1>1, <1>2, <1>3 DEF SlotsOK
  <1> QED BY <1>1, <1>2, <1>3, <1>4 DEF Gains, Named

LEMMA StoredGains ==
  ASSUME NEW s, SlotsOK(s), NEW n \in Named(s), NEW u \in Urls \ AesUrls,
         NEW t, t = [s EXCEPT ![n].rsa = @ \cup {u}]
  PROVE  Gains(s, t) /\ u \in t[n].rsa
  <1> DEFINE r == [s[n] EXCEPT !.rsa = @ \cup {u}]
  <1>1. s \in Seq(SlotRecord) /\ n \in 1..Len(s) /\ DOMAIN s = 1..Len(s)
    BY DEF SlotsOK, Named
  <1>2. s[n] \in SlotRecord
    BY <1>1
  <1>3. r \in SlotRecord /\ r.label = s[n].label /\ r.rsa = s[n].rsa \cup {u}
    BY <1>2 DEF SlotRecord
  <1>4. t = [s EXCEPT ![n] = r]
    BY <1>1
  <1>5. t[n] = r
    BY <1>1, <1>4
  <1> HIDE DEF r
  <1> QED BY <1>3, <1>4, <1>5, ChangedGains

-----------------------------------------------------------------------------
(* What a step leaves alone. *)

\* A process that a step does not touch keeps what it has when slots gain.
LEMMA GoodGains ==
  ASSUME NEW q \in Process, NEW lib \in Library, NEW s, NEW t, NEW faults,
         Good(q, lib, s, faults), SlotsOK(s), Gains(s, t)
  PROVE  Good(q, lib, t, faults)
  <1>1. /\ Named(s) \subseteq Named(t)
        /\ \A n \in Named(s) : t[n].label = s[n].label /\ s[n].rsa \subseteq t[n].rsa
    BY DEF Gains, Named, SlotsOK
  <1>2. \A n : Matching(s, n) => Matching(t, n)
    BY <1>1 DEF Matching
  <1>3. \A n, u : ObjectIn(lib, s, n, u) => ObjectIn(lib, t, n, u)
    BY <1>1 DEF Good, Table, ObjectIn
  <1>4. Table(q, lib, t, faults)
    BY <1>1, <1>2, <1>3 DEF Good, Table
  <1>5. Progress(q, lib, t, faults)
    BY <1>2, <1>3 DEF Good, Progress
  <1> QED BY <1>4, <1>5 DEF Good

\* A step of p, to the record q and the library lib.
LEMMA Step ==
  ASSUME TokenLifeInv, NEW p \in Processes, NEW q \in Process, NEW lib \in Library,
         proc' = [proc EXCEPT ![p] = q], library' = [library EXCEPT ![p] = lib],
         Gains(slots, slots'), setting' = setting, restarts' \in 0..setting.restarts,
         \/ made' = made
         \/ /\ made' = Append(made, p) /\ Len(made) < setting.made
            /\ proc[p].pc = "create"
            /\ \E n \in Named(slots') : matches(slots'[n].label),
         Good(q, lib, slots', CallsMayFail),
         "info" \notin setting.faults =>
           /\ q.entry.there => q.entry.session # NoHandle
           /\ q.pc = "create" => made' = made /\ \A i \in 1..Len(made) : made[i] # p
           /\ q.pc = "find_again" => \E n \in Named(slots') : matches(slots'[n].label)
  PROVE  TokenLifeInv'
  <1>1. /\ proc \in [Processes -> Process] /\ library \in [Processes -> Library]
        /\ SlotsOK(slots) /\ setting \in Settings /\ setting.made \in Nat
        /\ made \in Seq(Processes) /\ Len(made) <= setting.made
    BY DEF TokenLifeInv, Setting
  <1>2. /\ proc' \in [Processes -> Process] /\ library' \in [Processes -> Library]
        /\ proc'[p] = q /\ library'[p] = lib
        /\ \A r \in Processes \ {p} : proc'[r] = proc[r] /\ library'[r] = library[r]
    BY <1>1
  <1>3. SlotsOK(slots')
    BY DEF Gains
  <1>4. made' \in Seq(Processes) /\ Len(made') <= setting.made
    BY <1>1
  <1>5. CallsMayFail' = CallsMayFail
    BY DEF CallsMayFail
  <1>6. \A r \in Processes : Good(proc'[r], library'[r], slots', CallsMayFail')
    <2> SUFFICES ASSUME NEW r \in Processes
                 PROVE  Good(proc'[r], library'[r], slots', CallsMayFail)
      BY <1>5
    <2>1. CASE r = p
      BY <1>2, <2>1
    <2>2. CASE r # p
      <3>1. proc[r] \in Process /\ library[r] \in Library
        BY <1>1
      <3>2. Good(proc[r], library[r], slots, CallsMayFail)
        BY DEF TokenLifeInv
      <3>3. Good(proc[r], library[r], slots', CallsMayFail)
        BY <1>1, <3>1, <3>2, GoodGains
      <3> QED BY <1>2, <2>2, <3>3
    <2> QED BY <2>1, <2>2
  <1>7. MadeOnce'
    <2> SUFFICES ASSUME "info" \notin setting.faults
                 PROVE  /\ \A r \in Processes :
                             /\ proc'[r].entry.there => proc'[r].entry.session # NoHandle
                             /\ proc'[r].pc = "create" => \A i \in 1..Len(made') : made'[i] # r
                             /\ proc'[r].pc = "find_again" =>
                                  \E n \in Named(slots') : matches(slots'[n].label)
                        /\ \A i, j \in 1..Len(made') : made'[i] = made'[j] => i = j
                        /\ made' # <<>> => \E n \in Named(slots') : matches(slots'[n].label)
      BY DEF MadeOnce, Named
    <2>1. /\ \A r \in Processes :
               /\ proc[r].entry.there => proc[r].entry.session # NoHandle
               /\ proc[r].pc = "create" => \A i \in 1..Len(made) : made[i] # r
               /\ proc[r].pc = "find_again" => \E n \in Named(slots) : matches(slots[n].label)
          /\ \A i, j \in 1..Len(made) : made[i] = made[j] => i = j
          /\ made # <<>> => \E n \in Named(slots) : matches(slots[n].label)
      BY DEF TokenLifeInv, MadeOnce
    <2>2. (\E n \in Named(slots) : matches(slots[n].label)) =>
             \E n \in Named(slots') : matches(slots'[n].label)
      BY <1>1 DEF Gains, Named, SlotsOK
    <2>3. CASE made' = made
      BY <1>2, <2>1, <2>2, <2>3
    <2>4. CASE /\ made' = Append(made, p) /\ proc[p].pc = "create"
               /\ \E n \in Named(slots') : matches(slots'[n].label)
      <3>1. /\ Len(made') = Len(made) + 1 /\ made'[Len(made) + 1] = p
            /\ \A i \in 1..Len(made) : made'[i] = made[i]
        BY <1>1, <2>4
      <3>2. \A i \in 1..Len(made') : i \in 1..Len(made) \/ i = Len(made) + 1
        BY <1>1, <3>1
      <3>3. \A i \in 1..Len(made) : made[i] # p
        BY <2>1, <2>4
      <3>4. \A i, j \in 1..Len(made') : made'[i] = made'[j] => i = j
        BY <2>1, <3>1, <3>2, <3>3
      <3>5. made' # made
        BY <1>1, <3>1
      <3>6. \A r \in Processes : proc'[r].pc = "create" =>
              \A i \in 1..Len(made') : made'[i] # r
        BY <1>2, <2>1, <3>1, <3>2, <3>5
      <3> QED BY <1>2, <2>1, <2>2, <2>4, <3>4, <3>6
    <2> QED BY <2>3, <2>4
  <1> QED BY <1>1, <1>2, <1>3, <1>4, <1>6, <1>7 DEF TokenLifeInv

\* A process that moves, and its table stays.
SameTable(q, r) ==
  /\ r.entry = q.entry /\ r.known = q.known /\ r.session = q.session
  /\ r.fresh = q.fresh /\ r.child = q.child /\ r.handed = q.handed

LEMMA Moves ==
  ASSUME NEW q \in Process, NEW lib \in Library, NEW s, NEW faults,
         Good(q, lib, s, faults), NEW r \in Process, SameTable(q, r),
         Control(r), Progress(r, lib, s, faults)
  PROVE  Good(r, lib, s, faults)
  BY DEF Good, Table, SameTable

\* Where Progress asks nothing.
LEMMA NoProgress ==
  ASSUME NEW r \in Process, NEW lib, NEW s, NEW faults,
         \/ r.pc \in {"idle", "find", "create", "find_again", "search"}
         \/ r.pc \in {"unlock", "returned"} /\ ~r.ok
         \/ r.pc = "lock" /\ ~r.entry.there
  PROVE  Progress(r, lib, s, faults)
  BY DEF Progress

\* A step that changes the record of p only.
LEMMA StepAlone ==
  ASSUME TokenLifeInv, NEW p \in Processes, NEW q \in Process,
         proc' = [proc EXCEPT ![p] = q], UNCHANGED <<slots, library, made, setting>>,
         restarts' \in 0..setting.restarts,
         Good(q, library[p], slots, CallsMayFail),
         "info" \notin setting.faults =>
           /\ q.entry.there => q.entry.session # NoHandle
           /\ q.pc = "create" => \A i \in 1..Len(made) : made[i] # p
           /\ q.pc = "find_again" => \E n \in Named(slots) : matches(slots[n].label)
  PROVE  TokenLifeInv'
  <1>1. library[p] \in Library /\ library' = [library EXCEPT ![p] = library[p]]
    BY DEF TokenLifeInv
  <1>2. Gains(slots, slots')
    BY SameGains DEF TokenLifeInv
  <1>3. slots' = slots /\ made' = made /\ setting' = setting
    OBVIOUS
  <1>4. Good(q, library[p], slots', CallsMayFail)
    BY <1>3
  <1>5. "info" \notin setting.faults =>
           /\ q.entry.there => q.entry.session # NoHandle
           /\ q.pc = "create" => made' = made /\ \A i \in 1..Len(made) : made[i] # p
           /\ q.pc = "find_again" => \E n \in Named(slots') : matches(slots'[n].label)
    BY <1>3
  <1> QED BY <1>1, <1>2, <1>3, <1>4, <1>5, Step

\* One that also keeps the table.
LEMMA StepMoves ==
  ASSUME TokenLifeInv, NEW p \in Processes, NEW q \in Process,
         proc' = [proc EXCEPT ![p] = q],
         UNCHANGED <<slots, library, made, restarts, setting>>,
         SameTable(proc[p], q), Control(q), Progress(q, library[p], slots, CallsMayFail),
         "info" \notin setting.faults =>
           /\ q.pc = "create" => \A i \in 1..Len(made) : made[i] # p
           /\ q.pc = "find_again" => \E n \in Named(slots) : matches(slots[n].label)
  PROVE  TokenLifeInv'
  <1>1. /\ proc[p] \in Process /\ library[p] \in Library
        /\ Good(proc[p], library[p], slots, CallsMayFail)
    BY DEF TokenLifeInv
  <1>2. Good(q, library[p], slots, CallsMayFail)
    BY <1>1, Moves
  <1>3. restarts' \in 0..setting.restarts
    BY DEF TokenLifeInv
  <1>4. "info" \notin setting.faults => (q.entry.there => q.entry.session # NoHandle)
    BY DEF TokenLifeInv, MadeOnce, SameTable
  <1> QED BY <1>2, <1>3, <1>4, StepAlone

LEMMA Here ==
  ASSUME TokenLifeInv, NEW p \in Processes
  PROVE  /\ proc[p] \in Process /\ library[p] \in Library /\ SlotsOK(slots)
         /\ Good(proc[p], library[p], slots, CallsMayFail)
         /\ setting \in Setting /\ restarts \in 0..setting.restarts
  BY DEF TokenLifeInv

-----------------------------------------------------------------------------
(* The record of a process. *)

LEMMA Fields ==
  ASSUME NEW q \in Process
  PROVE  /\ q.entry.there \in BOOLEAN /\ q.entry.session \in Handles \cup {NoHandle}
         /\ q.preload_keys_flag \in BOOLEAN /\ q.known \subseteq Urls
         /\ q.session \in BOOLEAN /\ q.ok \in BOOLEAN /\ q.create \in BOOLEAN
         /\ q.fresh \in BOOLEAN /\ q.url \in Urls \cup {NoUrl} /\ q.slot \in Nat
         /\ q.child \in Handles \cup {NoHandle} /\ q.handed \subseteq Urls
  BY DEF Process, Entry, Slots

LEMMA NewFields ==
  /\ NewProcess \in Process /\ Down \in Process
  /\ Control(NewProcess) /\ Control(Down)
  /\ \A q \in {NewProcess, Down} :
       /\ q.pc = "idle" /\ ~q.entry.there /\ q.child = NoHandle /\ q.handed = {} /\ ~q.fresh
  <1>1. NewProcess \in Process /\ Down \in Process
    BY DEF NewProcess, Down, Process, Entry, Slots, Pcs
  <1>2. \A q \in {NewProcess, Down} :
          /\ q.pc = "idle" /\ q.entry = [there |-> FALSE, session |-> NoHandle]
          /\ q.child = NoHandle /\ q.handed = {} /\ q.fresh = FALSE
          /\ q.create = FALSE /\ q.holder = "nobody" /\ q.known = {} /\ q.session = FALSE
    <2> DEFINE Fresh(q) ==
          /\ q.pc = "idle" /\ q.entry = [there |-> FALSE, session |-> NoHandle]
          /\ q.child = NoHandle /\ q.handed = {} /\ q.fresh = FALSE
          /\ q.create = FALSE /\ q.holder = "nobody" /\ q.known = {} /\ q.session = FALSE
    <2>1. Fresh(NewProcess)
      BY DEF NewProcess
    <2>2. Fresh(Down)
      BY DEF NewProcess, Down
    <2> QED BY <2>1, <2>2
  <1>3. \A q \in {NewProcess, Down} : q.entry.there = FALSE /\ q.entry.session = NoHandle
    BY <1>2
  <1>4. Control(NewProcess) /\ Control(Down)
    BY <1>2, <1>3 DEF Control, OpeningPcs, AgentPcs
  <1> QED BY <1>1, <1>2, <1>3, <1>4

LEMMA NewLibraryFields ==
  /\ NewLibrary \in Library
  /\ NewLibrary.user = {} /\ NewLibrary.searching = {}
  BY DEF NewLibrary, Library, Slots

LEMMA BegunFields ==
  ASSUME NEW q \in Process, NEW u \in Urls
  PROVE  /\ Begun(q, u) \in Process /\ SameTable(q, Begun(q, u))
         /\ Begun(q, u).pc = IF q.entry.there THEN "search" ELSE "find"
         /\ Begun(q, u).url = u /\ ~Begun(q, u).create
         /\ Begun(q, u).holder = q.holder /\ Begun(q, u).stage = q.stage
  <1> DEFINE pc == IF q.entry.there THEN "search" ELSE "find"
             r  == [q EXCEPT !.pc = pc, !.url = u, !.ok = FALSE, !.create = FALSE]
  <1>1. Begun(q, u) = r /\ pc \in Pcs
    BY DEF Begun, Pcs
  <1> HIDE DEF pc
  <1>2. /\ r \in Process /\ SameTable(q, r)
        /\ r.pc = pc /\ r.url = u /\ ~r.create
        /\ r.holder = q.holder /\ r.stage = q.stage
    BY <1>1 DEF Process, SameTable
  <1> HIDE DEF r
  <1> QED BY <1>1, <1>2 DEF pc

LEMMA IdleFields ==
  ASSUME NEW q \in Process
  PROVE  /\ Idle(q) \in Process /\ SameTable(q, Idle(q))
         /\ Idle(q).pc = "idle" /\ ~Idle(q).create
         /\ Idle(q).holder = q.holder /\ Idle(q).stage = q.stage
  BY DEF Idle, Process, Pcs, SameTable, Slots

\* A process whose load has returned.
Returned(q, u, ok) == [Idle(q) EXCEPT !.pc = "returned", !.url = u, !.ok = ok]

LEMMA ReturnedFields ==
  ASSUME NEW q \in Process, NEW u \in Urls \cup {NoUrl}, NEW ok \in BOOLEAN,
         NEW r, r = Returned(q, u, ok)
  PROVE  /\ r \in Process /\ SameTable(q, r) /\ r.pc = "returned" /\ ~r.create
         /\ r.holder = q.holder /\ r.stage = q.stage /\ r.url = u /\ r.ok = ok
  <1> DEFINE i == Idle(q)
             s == [i EXCEPT !.pc = "returned", !.url = u, !.ok = ok]
  <1>1. /\ i \in Process /\ SameTable(q, i) /\ ~i.create
        /\ i.holder = q.holder /\ i.stage = q.stage
    BY IdleFields
  <1>2. r = s
    BY DEF Returned
  <1> HIDE DEF i
  <1>3. s \in Process
    BY <1>1 DEF Process, Pcs
  <1>4. /\ s.entry = i.entry /\ s.known = i.known /\ s.session = i.session
        /\ s.fresh = i.fresh /\ s.child = i.child /\ s.handed = i.handed
    BY <1>1 DEF Process
  <1>5. /\ s.pc = "returned" /\ s.create = i.create
        /\ s.holder = i.holder /\ s.stage = i.stage /\ s.url = u /\ s.ok = ok
    BY <1>1 DEF Process
  <1> HIDE DEF s
  <1>6. SameTable(q, r) /\ ~r.create
    BY <1>1, <1>2, <1>4, <1>5 DEF SameTable
  <1> QED BY <1>1, <1>2, <1>3, <1>5, <1>6

LEMMA FoundFields ==
  ASSUME NEW q \in Process, NEW n \in Slots
  PROVE  LET r == [q EXCEPT !.pc = "open", !.slot = n]
         IN /\ r \in Process /\ SameTable(q, r) /\ r.pc = "open" /\ r.slot = n
            /\ r.url = q.url /\ r.create = q.create
            /\ r.holder = q.holder /\ r.stage = q.stage
  <1> DEFINE r == [q EXCEPT !.pc = "open", !.slot = n]
  <1>1. r \in Process
    BY DEF Process, Pcs
  <1>2. /\ r.entry = q.entry /\ r.known = q.known /\ r.session = q.session
        /\ r.fresh = q.fresh /\ r.child = q.child /\ r.handed = q.handed
        /\ r.pc = "open" /\ r.slot = n /\ r.url = q.url /\ r.create = q.create
        /\ r.holder = q.holder /\ r.stage = q.stage
    BY DEF Process
  <1> HIDE DEF r
  <1>3. SameTable(q, r)
    BY <1>2 DEF SameTable
  <1> QED BY <1>1, <1>2, <1>3 DEF r

LEMMA ResetFields ==
  ASSUME NEW q \in Process
  PROVE  /\ Reset(q) \in Process
         /\ ~Reset(q).fresh /\ Reset(q).child = NoHandle /\ Reset(q).handed = {}
         /\ Reset(q).entry = q.entry /\ Reset(q).known = q.known
         /\ Reset(q).session = q.session /\ Reset(q).pc = q.pc /\ Reset(q).stage = q.stage
         /\ Reset(q).holder = q.holder /\ Reset(q).create = q.create /\ Reset(q).url = q.url
  BY DEF Reset, Process

-----------------------------------------------------------------------------
(* Processes. *)

LEMMA InitInv == TokenLifeInit => TokenLifeInv
  <1> SUFFICES ASSUME TokenLifeInit  PROVE TokenLifeInv
    OBVIOUS
  <1>1. setting \in Settings /\ setting \in Setting /\ setting.tokens \in Seq(Labels \ {"blank"})
        /\ setting.made \in Nat /\ setting.restarts \in Nat
    BY DEF TokenLifeInit, Setting
  <1>2. SlotsOK(slots)
    <2>1. PICK pin \in BOOLEAN :
            slots = [n \in 1..Len(setting.tokens) |->
                      [label |-> setting.tokens[n], pin |-> pin /\ setting.tokens[n] # "other",
                       rsa |-> {}]] \o <<Blank>>
      BY DEF TokenLifeInit
    <2> DEFINE named == [n \in 1..Len(setting.tokens) |->
                          [label |-> setting.tokens[n], pin |-> pin /\ setting.tokens[n] # "other",
                           rsa |-> {}]]
               k == Len(setting.tokens)
    <2>2. /\ k \in Nat
          /\ \A n \in 1..k : named[n] \in SlotRecord /\ named[n].label # "blank"
      <3>1. k \in Nat /\ \A n \in 1..k : setting.tokens[n] \in Labels \ {"blank"}
        BY <1>1
      <3>2. ASSUME NEW n \in 1..k
            PROVE  named[n] \in SlotRecord /\ named[n].label # "blank"
        <4> DEFINE b == pin /\ setting.tokens[n] # "other"
        <4>1. b \in BOOLEAN
          OBVIOUS
        <4>2. named[n] = [label |-> setting.tokens[n], pin |-> b, rsa |-> {}]
          OBVIOUS
        <4> HIDE DEF b, named
        <4> QED BY <3>1, <4>1, <4>2 DEF SlotRecord
      <3> QED BY <3>1, <3>2
    <2>3. named \in Seq(SlotRecord) /\ Len(named) = k
      <3>1. named = [n \in 1..k |-> named[n]]
        OBVIOUS
      <3> HIDE DEF named
      <3> QED BY <2>2, <3>1
    <2>4. Blank \in SlotRecord /\ Blank.label = "blank"
      BY DEF Blank, SlotRecord, Labels
    <2>5. slots = named \o <<Blank>>
      BY <2>1
    <2> HIDE DEF named, k
    <2>6. slots \in Seq(SlotRecord) /\ Len(slots) = k + 1
      BY <2>2, <2>3, <2>4, <2>5
    <2>7. \A n \in 1..(k + 1) : slots[n] = IF n = k + 1 THEN Blank ELSE named[n]
      BY <2>2, <2>3, <2>4, <2>5
    <2>8. \A n \in 1..(k + 1) : n # k + 1 => n \in 1..k
      BY <2>2
    <2> QED BY <2>2, <2>4, <2>6, <2>7, <2>8 DEF SlotsOK
  <1>3. proc \in [Processes -> Process] /\ \A p \in Processes : proc[p] = Down
    BY NewFields DEF TokenLifeInit
  <1>4. library \in [Processes -> Library] /\ \A p \in Processes : library[p] = NewLibrary
    BY NewLibraryFields DEF TokenLifeInit
  <1>5. made \in Seq(Processes) /\ Len(made) = 0 /\ made = <<>> /\ restarts = 0
    BY DEF TokenLifeInit
  <1>6. Good(Down, NewLibrary, slots, CallsMayFail)
    <2>1. Table(Down, NewLibrary, slots, CallsMayFail)
      BY NewFields, NewLibraryFields DEF Table
    <2>2. Progress(Down, NewLibrary, slots, CallsMayFail)
      BY NewFields, NoProgress
    <2> QED BY <2>1, <2>2, NewFields DEF Good
  <1>7. MadeOnce
    BY <1>3, <1>5, NewFields DEF MadeOnce
  <1> QED BY <1>1, <1>2, <1>3, <1>4, <1>5, <1>6, <1>7 DEF TokenLifeInv

\* A process without anything: it starts, or has ended.
LEMMA GoodNew ==
  ASSUME NEW q \in {NewProcess, Down}, NEW lib \in Library, NEW s, NEW faults,
         lib.user \subseteq Named(s), \A h \in lib.searching : lib.open[h] # 0
  PROVE  q \in Process /\ Good(q, lib, s, faults)
  <1>1. Table(q, lib, s, faults)
    BY NewFields DEF Table
  <1>2. q \in Process /\ Control(q)
    BY NewFields
  <1>3. Progress(q, lib, s, faults)
    BY <1>2, NewFields, NoProgress
  <1> QED BY <1>1, <1>2, <1>3 DEF Good

LEMMA start_keeps ==
  ASSUME TokenLifeInv, NEW p \in Processes, start(p)
  PROVE  TokenLifeInv'
  <1>1. Good(NewProcess, library[p], slots, CallsMayFail) /\ NewProcess \in Process
    BY Here, GoodNew DEF Good, Table
  <1>2. restarts' \in 0..setting.restarts
    BY Here DEF start, Setting
  <1>3. NewProcess.pc = "idle" /\ ~NewProcess.entry.there
    BY NewFields
  <1> QED BY <1>1, <1>2, <1>3, StepAlone DEF start

LEMMA stop_keeps ==
  ASSUME TokenLifeInv, NEW p \in Processes, stop(p)
  PROVE  TokenLifeInv'
  <1>1. Good(Down, NewLibrary, slots', CallsMayFail) /\ Down \in Process
    BY NewLibraryFields, GoodNew
  <1>2. restarts' \in 0..setting.restarts /\ Gains(slots, slots')
    BY Here, SameGains DEF stop
  <1>3. Down.pc = "idle" /\ ~Down.entry.there
    BY NewFields
  <1>4. library' = [library EXCEPT ![p] = NewLibrary] /\ made' = made /\ setting' = setting
    BY DEF stop, Reinitialized
  <1> QED BY <1>1, <1>2, <1>3, <1>4, NewLibraryFields, Step DEF stop

\* A load begins, in a process that is in no other.
LEMMA GoodBegun ==
  ASSUME NEW q \in Process, NEW lib \in Library, NEW s, NEW faults, Good(q, lib, s, faults),
         q.stage \notin {"down", "loaded", "forked", "finalized"},
         q.pc \in {"idle", "returned"}, NEW u \in Urls
  PROVE  Begun(q, u) \in Process /\ Good(Begun(q, u), lib, s, faults)
  <1> DEFINE r == Begun(q, u)
  <1>1. /\ r \in Process /\ SameTable(q, r)
        /\ r.pc = IF q.entry.there THEN "search" ELSE "find"
        /\ r.url = u /\ ~r.create /\ r.holder = q.holder /\ r.stage = q.stage
    BY BegunFields
  <1> HIDE DEF r
  <1>2. Control(r)
    BY <1>1 DEF Good, Control, SameTable, OpeningPcs, AgentPcs
  <1>3. Progress(r, lib, s, faults)
    BY <1>1, NoProgress
  <1> QED BY <1>1, <1>2, <1>3, Moves DEF r

LEMMA C_OnDemand_KeyLoad_keeps ==
  ASSUME TokenLifeInv, NEW p \in Processes, NEW u \in setting.urls, C_OnDemand_KeyLoad(p, u)
  PROVE  TokenLifeInv'
  <1>1. u \in Urls
    BY Here DEF Setting
  <1>2. /\ Begun(proc[p], u) \in Process
        /\ Good(Begun(proc[p], u), library[p], slots, CallsMayFail)
    BY <1>1, Here, GoodBegun DEF C_OnDemand_KeyLoad, Loading
  <1>3. /\ Begun(proc[p], u).pc \in {"search", "find"}
        /\ Begun(proc[p], u).entry = proc[p].entry
    BY <1>1, Here, BegunFields DEF SameTable
  <1>4. "info" \notin setting.faults => (proc[p].entry.there => proc[p].entry.session # NoHandle)
    BY DEF TokenLifeInv, MadeOnce
  <1>5. restarts' \in 0..setting.restarts
    BY Here DEF C_OnDemand_KeyLoad
  <1> QED BY <1>2, <1>3, <1>4, <1>5, StepAlone DEF C_OnDemand_KeyLoad

\* C_Initialize of the API module, in a process that is not forked or is told apart
\* from one; it may begin to load the key to preload.
LEMMA GoodInitialized ==
  ASSUME NEW q \in Process, NEW lib \in Library, NEW s, NEW faults, Good(q, lib, s, faults),
         q.pc = "idle", NEW stage \in {"preparing", "running"}
  PROVE  /\ Initialized(q, stage) \in Process
         /\ Good(Initialized(q, stage), lib, s, faults)
         /\ Initialized(q, stage).entry = q.entry
         /\ Initialized(q, stage).pc \in {"idle", "search", "find"}
  <1> DEFINE r == [q EXCEPT !.stage = stage, !.preload_keys_flag = TRUE]
  <1>1. /\ r \in Process /\ SameTable(q, r) /\ r.pc = "idle" /\ r.stage = stage
        /\ r.create = q.create /\ r.holder = q.holder
    BY DEF Process, SameTable
  <1>a. Initialized(q, stage) \in {r} \cup {Begun(r, u) : u \in Urls}
    BY DEF Initialized
  <1> HIDE DEF r
  <1>2. Control(r)
    BY <1>1 DEF Good, Control, SameTable, OpeningPcs, AgentPcs
  <1>3. Progress(r, lib, s, faults)
    BY <1>1, NoProgress
  <1>4. Good(r, lib, s, faults) /\ r.entry = q.entry
    BY <1>1, <1>2, <1>3, Moves DEF SameTable
  <1>5. ASSUME NEW u \in Urls
        PROVE  /\ Begun(r, u) \in Process /\ Good(Begun(r, u), lib, s, faults)
               /\ Begun(r, u).entry = q.entry /\ Begun(r, u).pc \in {"search", "find"}
    <2>1. Begun(r, u) \in Process /\ Good(Begun(r, u), lib, s, faults)
      BY <1>1, <1>4, GoodBegun
    <2> QED BY <1>1, <1>4, <2>1, BegunFields DEF SameTable
  <1> QED BY <1>1, <1>a, <1>4, <1>5

LEMMA C_Initialize_keeps ==
  ASSUME TokenLifeInv, NEW p \in Processes, C_Initialize(p)
  PROVE  TokenLifeInv'
  <1> DEFINE r == Initialized(proc[p], "running")
  <1>1. proc[p].pc = "idle"
    BY Here DEF C_Initialize, Good, Control
  <1>2. /\ r \in Process /\ Good(r, library[p], slots, CallsMayFail)
        /\ r.entry = proc[p].entry /\ r.pc \in {"idle", "search", "find"}
    BY <1>1, Here, GoodInitialized
  <1>3. "info" \notin setting.faults => (proc[p].entry.there => proc[p].entry.session # NoHandle)
    BY DEF TokenLifeInv, MadeOnce
  <1>4. /\ proc' = [proc EXCEPT ![p] = r] /\ UNCHANGED <<slots, library, made, setting>>
        /\ restarts' \in 0..setting.restarts
    BY Here DEF C_Initialize
  <1> HIDE DEF r
  <1> QED BY <1>2, <1>3, <1>4, StepAlone

\* A record without what its library had is good with any library.
LEMMA GoodReset ==
  ASSUME NEW q \in Process, NEW lib \in Library, NEW s, NEW faults, NEW r \in Process,
         Control(r), r.pc \in {"idle", "find_again"}, ~r.fresh, r.child = NoHandle, r.handed = {},
         lib.user \subseteq Named(s), \A h \in lib.searching : lib.open[h] # 0
  PROVE  Good(r, lib, s, faults)
  <1>1. Table(r, lib, s, faults)
    BY DEF Table
  <1>2. Progress(r, lib, s, faults)
    BY NoProgress
  <1> QED BY <1>1, <1>2 DEF Good

LEMMA C_Finalize_keeps ==
  ASSUME TokenLifeInv, NEW p \in Processes, C_Finalize(p)
  PROVE  TokenLifeInv'
  <1> DEFINE q == proc[p]
             r == [Idle(Reset(q)) EXCEPT !.stage = "finalized"]
  <1>1. /\ r \in Process /\ r.pc = "idle" /\ ~r.create /\ r.holder = q.holder
        /\ r.stage = "finalized"
        /\ ~r.fresh /\ r.child = NoHandle /\ r.handed = {}
        /\ r.entry = q.entry /\ r.known = q.known /\ r.session = q.session
    <2>1. Reset(q) \in Process
      BY Here, ResetFields
    <2>2. Idle(Reset(q)) \in Process
      BY <2>1, IdleFields
    <2>3. /\ r \in Process /\ SameTable(Idle(Reset(q)), r) /\ r.stage = "finalized"
          /\ r.pc = Idle(Reset(q)).pc /\ r.create = Idle(Reset(q)).create
          /\ r.holder = Idle(Reset(q)).holder
      BY <2>2 DEF Process, SameTable
    <2> HIDE DEF r
    <2> QED BY <2>1, <2>2, <2>3, Here, ResetFields, IdleFields DEF SameTable
  <1>2. proc[p].pc \in {"idle", "returned"} /\ Control(q)
    BY Here DEF C_Finalize, Loading, Good
  <1>3. proc' = [proc EXCEPT ![p] = r] /\ library' = [library EXCEPT ![p] = NewLibrary]
    BY DEF C_Finalize, Reinitialized
  <1>4. "info" \notin setting.faults => (q.entry.there => q.entry.session # NoHandle)
    BY DEF TokenLifeInv, MadeOnce
  <1>5. /\ restarts' \in 0..setting.restarts /\ Gains(slots, slots')
        /\ setting' = setting /\ made' = made
    BY Here, SameGains DEF C_Finalize, Setting
  <1> HIDE DEF r
  <1>6. Control(r)
    BY <1>1, <1>2 DEF Control, OpeningPcs, AgentPcs
  <1>7. Good(r, NewLibrary, slots', CallsMayFail)
    BY <1>1, <1>6, NewLibraryFields, GoodReset
  <1>8. "info" \notin setting.faults => (r.entry.there => r.entry.session # NoHandle)
    BY <1>1, <1>4
  <1> QED BY <1>1, <1>3, <1>5, <1>7, <1>8, NewLibraryFields, Step

LEMMA fork_keeps ==
  ASSUME TokenLifeInv, NEW p \in Processes, NEW q \in Processes, fork(p, q)
  PROVE  TokenLifeInv'
  <1> DEFINE r == [Idle(Reset(proc[p])) EXCEPT
                     !.stage = "forked", !.holder = inherited_lock(proc[p])]
  <1>1. /\ r \in Process /\ r.pc = "idle" /\ ~r.create /\ r.holder # "worker"
        /\ r.stage = "forked"
        /\ ~r.fresh /\ r.child = NoHandle /\ r.handed = {}
        /\ r.entry = proc[p].entry /\ r.known = proc[p].known /\ r.session = proc[p].session
    <2>1. Reset(proc[p]) \in Process
      BY Here, ResetFields
    <2>2. Idle(Reset(proc[p])) \in Process
      BY <2>1, IdleFields
    <2>3. /\ r \in Process /\ SameTable(Idle(Reset(proc[p])), r) /\ r.stage = "forked"
          /\ r.pc = Idle(Reset(proc[p])).pc /\ r.create = Idle(Reset(proc[p])).create
          /\ r.holder = inherited_lock(proc[p])
      BY <2>2 DEF Process, SameTable, inherited_lock
    <2>4. inherited_lock(proc[p]) # "worker"
      BY DEF inherited_lock
    <2> HIDE DEF r
    <2> QED BY <2>1, <2>2, <2>3, <2>4, Here, ResetFields, IdleFields DEF SameTable
  <1>2. Control(proc[p])
    BY Here DEF Good
  <1>3. proc' = [proc EXCEPT ![q] = r] /\ UNCHANGED <<slots, library, made, setting>>
    BY DEF fork
  <1>4. "info" \notin setting.faults => (proc[p].entry.there => proc[p].entry.session # NoHandle)
    BY DEF TokenLifeInv, MadeOnce
  <1>5. restarts' \in 0..setting.restarts
    BY Here DEF fork, Setting
  <1> HIDE DEF r
  <1>6. Control(r)
    BY <1>1, <1>2 DEF Control, OpeningPcs, AgentPcs
  <1>7. Good(r, library[q], slots, CallsMayFail)
    <2>1. library[q] \in Library /\ Table(proc[q], library[q], slots, CallsMayFail)
      BY Here DEF Good
    <2>2. library[q].user \subseteq Named(slots)
          /\ \A h \in library[q].searching : library[q].open[h] # 0
      BY <2>1 DEF Table
    <2> QED BY <1>1, <1>6, <2>1, <2>2, GoodReset
  <1>8. "info" \notin setting.faults => (r.entry.there => r.entry.session # NoHandle)
    BY <1>1, <1>4
  <1> QED BY <1>1, <1>3, <1>5, <1>7, <1>8, StepAlone

LEMMA prepare_child_keeps ==
  ASSUME TokenLifeInv, NEW p \in Processes, prepare_child(p)
  PROVE  TokenLifeInv'
  <1> DEFINE r == Initialized(proc[p], "preparing")
  <1>1. /\ proc[p].pc = "idle" /\ proc[p] \in Process /\ Control(proc[p])
        /\ ~proc[p].fresh /\ proc[p].child = NoHandle /\ proc[p].handed = {}
    BY Here DEF prepare_child, Good, Control
  <1>2. Good(proc[p], NewLibrary, slots', CallsMayFail)
    BY <1>1, NewLibraryFields, GoodReset
  <1>3. /\ r \in Process /\ Good(r, NewLibrary, slots', CallsMayFail)
        /\ r.entry = proc[p].entry /\ r.pc \in {"idle", "search", "find"}
    BY <1>1, <1>2, NewLibraryFields, GoodInitialized
  <1>4. "info" \notin setting.faults => (proc[p].entry.there => proc[p].entry.session # NoHandle)
    BY DEF TokenLifeInv, MadeOnce
  <1>5. /\ proc' = [proc EXCEPT ![p] = r] /\ library' = [library EXCEPT ![p] = NewLibrary]
        /\ restarts' \in 0..setting.restarts /\ Gains(slots, slots')
        /\ setting' = setting /\ made' = made
    BY Here, SameGains DEF prepare_child, Reinitialized
  <1> HIDE DEF r
  <1> QED BY <1>3, <1>4, <1>5, NewLibraryFields, Step

-----------------------------------------------------------------------------
(* Sessions. *)

LEMMA OpenedFields ==
  ASSUME NEW lib \in Library, NEW h \in Handles, NEW n \in Slots
  PROVE  /\ Opened(lib, h, n) \in Library
         /\ Opened(lib, h, n).open = [lib.open EXCEPT ![h] = n]
         /\ Opened(lib, h, n).searching = lib.searching
         /\ Opened(lib, h, n).user = lib.user
         /\ Opened(lib, h, n).swk = lib.swk /\ Opened(lib, h, n).aes = lib.aes
  BY DEF Opened, Library

LEMMA LoginFields ==
  ASSUME NEW lib \in Library, NEW n \in Slots, NEW new, new = [lib EXCEPT !.user = @ \cup {n}]
  PROVE  /\ new \in Library /\ new.user = lib.user \cup {n}
         /\ new.open = lib.open /\ new.searching = lib.searching
         /\ new.swk = lib.swk /\ new.aes = lib.aes
  BY DEF Library

\* A handle that was free names the slot now, and the others what they did.
LEMMA OpenedSlots ==
  ASSUME NEW lib \in Library, NEW h \in Handles, NEW n \in Slots, lib.open[h] = 0,
         NEW new \in Library, new.open = [lib.open EXCEPT ![h] = n]
  PROVE  /\ SlotIn(new, h) = n
         /\ \A x : x # h => SlotIn(new, x) = SlotIn(lib, x)
         /\ \A x : SlotIn(lib, x) # 0 => x # h
  BY DEF SlotIn, Library

\* A session is opened, and the user may be logged in to a token.
LEMMA GoodOpened ==
  ASSUME NEW q \in Process, NEW lib \in Library, NEW s, NEW faults, Good(q, lib, s, faults),
         SlotsOK(s), NEW h \in Handles, NEW n \in Slots, lib.open[h] = 0,
         NEW new \in Library, new.open = [lib.open EXCEPT ![h] = n],
         new.searching = lib.searching, lib.user \subseteq new.user,
         new.user \subseteq Named(s), new.swk = lib.swk, new.aes = lib.aes
  PROVE  Good(q, new, s, faults)
  <1>1. /\ \A x : x # h => SlotIn(new, x) = SlotIn(lib, x)
        /\ \A x : SlotIn(lib, x) # 0 => x # h
    BY OpenedSlots
  <1>2. Control(q) /\ Table(q, lib, s, faults) /\ Progress(q, lib, s, faults)
    BY DEF Good
  <1>3. 0 \notin lib.user /\ 0 \notin new.user
    BY <1>2 DEF Table, Named
  <1>4. \A x : SlotIn(lib, x) # 0 => SlotIn(new, x) = SlotIn(lib, x)
    BY <1>1
  <1>5. \A x, u : ObjectIn(lib, s, SlotIn(lib, x), u) => ObjectIn(new, s, SlotIn(new, x), u)
    BY <1>3, <1>4 DEF ObjectIn
  <1>6. \A x : SlotIn(lib, x) \in lib.user =>
          SlotIn(new, x) = SlotIn(lib, x) /\ SlotIn(new, x) \in new.user
    BY <1>3, <1>4
  <1>7. \A x \in new.searching : new.open[x] # 0
    BY <1>2 DEF Table, Library, Slots
  <1>8. q.fresh => q.entry.there /\ q.entry.session # NoHandle
    BY <1>2 DEF Control
  <1>9. Table(q, new, s, faults)
    BY <1>2, <1>4, <1>5, <1>6, <1>7, <1>8 DEF Table
  <1>10. Progress(q, new, s, faults)
    BY <1>2, <1>4, <1>5 DEF Progress
  <1> QED BY <1>2, <1>9, <1>10 DEF Good

LEMMA application_opens_keeps ==
  ASSUME TokenLifeInv, NEW p \in Processes, application_opens(p)
  PROVE  TokenLifeInv'
  <1>1. PICK h \in FreeHandles(p), n \in 1..Len(slots), user \in BOOLEAN :
          /\ slots[n].label # "blank"
          /\ library' = [library EXCEPT
                            ![p] = IF user THEN [Opened(library[p], h, n) EXCEPT !.user = @ \cup {n}]
                                   ELSE Opened(library[p], h, n)]
    BY DEF application_opens
  <1> DEFINE opened == Opened(library[p], h, n)
             login == [opened EXCEPT !.user = @ \cup {n}]
             new == IF user THEN login ELSE opened
  <1>2. n \in Slots /\ n \in Named(slots) /\ h \in Handles /\ library[p].open[h] = 0
    BY <1>1, Here, Blanks DEF Slots, FreeHandles
  <1>3. /\ opened \in Library /\ opened.open = [library[p].open EXCEPT ![h] = n]
        /\ opened.searching = library[p].searching /\ opened.user = library[p].user
        /\ opened.swk = library[p].swk /\ opened.aes = library[p].aes
    BY <1>2, Here, OpenedFields
  <1> HIDE DEF opened
  <1>4. /\ login \in Library /\ login.user = opened.user \cup {n}
        /\ login.open = opened.open /\ login.searching = opened.searching
        /\ login.swk = opened.swk /\ login.aes = opened.aes
    BY <1>2, <1>3, LoginFields
  <1>5. library' = [library EXCEPT ![p] = new]
    BY <1>1 DEF opened
  <1> HIDE DEF login
  <1>6. /\ new \in Library /\ new.open = [library[p].open EXCEPT ![h] = n]
        /\ new.searching = library[p].searching /\ library[p].user \subseteq new.user
        /\ new.user \subseteq library[p].user \cup {n}
        /\ new.swk = library[p].swk /\ new.aes = library[p].aes
    BY <1>3, <1>4
  <1> HIDE DEF new
  <1>7. library[p].user \subseteq Named(slots)
    BY Here DEF Good, Table
  <1>8. Good(proc[p], new, slots, CallsMayFail)
    BY <1>2, <1>6, <1>7, Here, GoodOpened
  <1>9. /\ slots' = slots /\ made' = made /\ setting' = setting
        /\ proc' = [proc EXCEPT ![p] = proc[p]]
        /\ restarts' \in 0..setting.restarts /\ Gains(slots, slots')
    BY Here, SameGains DEF application_opens, TokenLifeInv
  <1>10. Good(proc[p], new, slots', CallsMayFail)
    BY <1>8, <1>9
  <1>11. "info" \notin setting.faults =>
           /\ proc[p].entry.there => proc[p].entry.session # NoHandle
           /\ proc[p].pc = "create" => made' = made /\ \A i \in 1..Len(made) : made[i] # p
           /\ proc[p].pc = "find_again" => \E m \in Named(slots') : matches(slots'[m].label)
    BY <1>9 DEF TokenLifeInv, MadeOnce
  <1> QED BY <1>5, <1>6, <1>9, <1>10, <1>11, Here, Step

\* apimodule_prepare_child has run: r is q, with session h as the child's.
ChildRuns(q, r, h) ==
  /\ r.stage = "running" /\ r.child = h
  /\ r.entry = q.entry /\ r.known = q.known /\ r.session = q.session
  /\ r.fresh = q.fresh /\ r.handed = q.handed
  /\ r.pc = q.pc /\ r.url = q.url /\ r.ok = q.ok /\ r.create = q.create
  /\ r.holder = q.holder /\ r.slot = q.slot

LEMMA ChildFields ==
  ASSUME NEW q \in Process, NEW h \in Handles \cup {NoHandle}
  PROVE  LET r == [q EXCEPT !.stage = "running", !.child = h]
         IN r \in Process /\ ChildRuns(q, r, h)
  <1> DEFINE r == [q EXCEPT !.stage = "running", !.child = h]
  <1>1. r \in Process
    BY DEF Process
  <1>2. ChildRuns(q, r, h)
    BY DEF ChildRuns, Process
  <1> QED BY <1>1, <1>2

LEMMA GoodChild ==
  ASSUME NEW q \in Process, NEW lib \in Library, NEW s, NEW faults, Good(q, lib, s, faults),
         q.stage = "preparing", NEW h \in Handles \cup {NoHandle},
         h # NoHandle =>
           /\ SlotIn(lib, h) # 0 /\ SlotIn(lib, h) \in lib.user
           /\ Matching(s, SlotIn(lib, h)),
         NEW r \in Process, ChildRuns(q, r, h)
  PROVE  Good(r, lib, s, faults)
  <1>1. Control(r)
    BY DEF Good, Control, ChildRuns
  <1>2. Table(r, lib, s, faults)
    BY DEF Good, Table, ChildRuns
  <1>3. Progress(r, lib, s, faults)
    BY DEF Good, Progress, ChildRuns
  <1> QED BY <1>1, <1>2, <1>3 DEF Good

LEMMA prepare_child_session_keeps ==
  ASSUME TokenLifeInv, NEW p \in Processes, prepare_child_session(p)
  PROVE  TokenLifeInv'
  <1>1. /\ proc[p].stage = "preparing" /\ proc[p].pc \in {"idle", "returned"}
        /\ slots' = slots /\ made' = made /\ setting' = setting
        /\ restarts' \in 0..setting.restarts /\ Gains(slots, slots')
    BY Here, SameGains DEF prepare_child_session, Loading
  <1>2. "info" \notin setting.faults => (proc[p].entry.there => proc[p].entry.session # NoHandle)
    BY DEF TokenLifeInv, MadeOnce
  \* The child runs with session h of library new.
  <1>3. ASSUME NEW new \in Library, NEW h \in Handles \cup {NoHandle},
               NEW r \in Process, ChildRuns(proc[p], r, h), Good(proc[p], new, slots, CallsMayFail),
               h # NoHandle =>
                 /\ SlotIn(new, h) # 0 /\ SlotIn(new, h) \in new.user
                 /\ Matching(slots, SlotIn(new, h)),
               proc' = [proc EXCEPT ![p] = r], library' = [library EXCEPT ![p] = new]
        PROVE  TokenLifeInv'
    <2>1. /\ Good(r, new, slots, CallsMayFail)
          /\ r.entry = proc[p].entry /\ r.pc = proc[p].pc
      BY <1>1, <1>3, Here, GoodChild DEF ChildRuns
    <2>2. Good(r, new, slots', CallsMayFail)
      BY <1>1, <2>1
    <2> QED BY <1>1, <1>2, <1>3, <2>1, <2>2, Step
  <1>4. CASE proc' = [proc EXCEPT ![p].stage = "running"] /\ library' = library
    <2> DEFINE r == [proc[p] EXCEPT !.stage = "running"]
    <2>1. /\ r \in Process /\ SameTable(proc[p], r) /\ r.stage = "running"
          /\ r.pc = proc[p].pc /\ r.url = proc[p].url /\ r.ok = proc[p].ok
          /\ r.create = proc[p].create /\ r.holder = proc[p].holder /\ r.slot = proc[p].slot
      BY Here DEF Process, SameTable
    <2>2. proc' = [proc EXCEPT ![p] = r]
      BY <1>4
    <2> HIDE DEF r
    <2>3. Control(r)
      BY <1>1, <2>1, Here DEF Good, Control, SameTable
    <2>4. Progress(r, library[p], slots, CallsMayFail)
      BY <2>1, Here DEF Good, Progress, SameTable
    <2> QED BY <1>1, <1>4, <2>1, <2>2, <2>3, <2>4, StepMoves DEF prepare_child_session
  <1>5. ASSUME NEW f \in findtoken(p), NEW h \in FreeHandles(p), f.slot # 0,
               NEW ok \in BOOLEAN,
               library' = [library EXCEPT
                             ![p] = IF ok THEN child_login(p, Opened(library[p], h, f.slot), f.slot)
                                    ELSE Opened(library[p], h, f.slot)],
               proc' = [proc EXCEPT ![p].stage = "running",
                                    ![p].child = IF ok THEN h ELSE NoHandle]
        PROVE  TokenLifeInv'
    <2> DEFINE n == f.slot
               opened == Opened(library[p], h, n)
               login == [opened EXCEPT !.user = @ \cup {n}]
               new == IF ok THEN login ELSE opened
               x == IF ok THEN h ELSE NoHandle
               r == [proc[p] EXCEPT !.stage = "running", !.child = x]
    <2>1. /\ Matching(slots, n) /\ n \in Named(slots) /\ n \in Slots
          /\ h \in Handles /\ library[p].open[h] = 0
      BY <1>5, Here, Found DEF Matching, Named, Slots, FreeHandles
    <2>2. proc' = [proc EXCEPT ![p] = r] /\ library' = [library EXCEPT ![p] = new]
      BY <1>5, Here DEF child_login
    <2> HIDE DEF n
    <2>3. /\ opened \in Library /\ opened.open = [library[p].open EXCEPT ![h] = n]
          /\ opened.searching = library[p].searching /\ opened.user = library[p].user
          /\ opened.swk = library[p].swk /\ opened.aes = library[p].aes
      BY <2>1, Here, OpenedFields
    <2> HIDE DEF opened
    <2>4. /\ login \in Library /\ login.user = opened.user \cup {n}
          /\ login.open = opened.open /\ login.searching = opened.searching
          /\ login.swk = opened.swk /\ login.aes = opened.aes
      BY <2>1, <2>3, LoginFields
    <2> HIDE DEF login
    <2>5. /\ new \in Library /\ new.open = [library[p].open EXCEPT ![h] = n]
          /\ new.searching = library[p].searching /\ library[p].user \subseteq new.user
          /\ new.user \subseteq library[p].user \cup {n} /\ (ok => n \in new.user)
          /\ new.swk = library[p].swk /\ new.aes = library[p].aes
      BY <2>3, <2>4
    <2>6. x \in Handles \cup {NoHandle} /\ (x # NoHandle => ok /\ x = h)
      BY <2>1
    <2> HIDE DEF new, x
    <2>7. library[p].user \subseteq Named(slots)
      BY Here DEF Good, Table
    <2>8. Good(proc[p], new, slots, CallsMayFail)
      BY <2>1, <2>5, <2>7, Here, GoodOpened
    <2>9. SlotIn(new, h) = n /\ n # 0
      BY <2>1, <2>5, Here, OpenedSlots DEF Slots
    <2>10. x # NoHandle =>
             /\ SlotIn(new, x) # 0 /\ SlotIn(new, x) \in new.user
             /\ Matching(slots, SlotIn(new, x))
      BY <2>1, <2>5, <2>6, <2>9
    <2> HIDE DEF x
    <2>11. r \in Process /\ ChildRuns(proc[p], r, x)
      BY <2>6, Here, ChildFields
    <2> HIDE DEF r
    <2> QED BY <1>3, <2>2, <2>5, <2>6, <2>8, <2>10, <2>11
  <1> QED
    <2>1. CASE ~(proc' = [proc EXCEPT ![p].stage = "running"] /\ library' = library)
      <3>1. PICK f \in findtoken(p), h \in FreeHandles(p) :
              /\ f.slot # 0
              /\ \E ok \in Outcome(can_login(Opened(library[p], h, f.slot), f.slot)) :
                   /\ library' = [library EXCEPT
                                ![p] = IF ok THEN child_login(p, Opened(library[p], h, f.slot), f.slot)
                                       ELSE Opened(library[p], h, f.slot)]
                   /\ proc' = [proc EXCEPT ![p].stage = "running",
                                           ![p].child = IF ok THEN h ELSE NoHandle]
        BY <2>1 DEF prepare_child_session
      <3>2. PICK ok \in BOOLEAN :
                   /\ library' = [library EXCEPT
                                ![p] = IF ok THEN child_login(p, Opened(library[p], h, f.slot), f.slot)
                                       ELSE Opened(library[p], h, f.slot)]
                   /\ proc' = [proc EXCEPT ![p].stage = "running",
                                           ![p].child = IF ok THEN h ELSE NoHandle]
        <4>1. Outcome(can_login(Opened(library[p], h, f.slot), f.slot)) \subseteq BOOLEAN
          BY DEF Outcome, can_login
        <4> QED BY <3>1, <4>1
      <3> QED BY <1>5, <3>1, <3>2
    <2> QED BY <1>4, <2>1

-----------------------------------------------------------------------------
(* Opening the token. *)

LEMMA GoesFields ==
  ASSUME NEW q \in Process, NEW pc \in Pcs, NEW r, r = [q EXCEPT !.pc = pc]
  PROVE  /\ r \in Process /\ SameTable(q, r) /\ r.pc = pc
         /\ r.url = q.url /\ r.ok = q.ok /\ r.create = q.create
         /\ r.holder = q.holder /\ r.stage = q.stage /\ r.slot = q.slot
  BY DEF Process, SameTable

\* The record of a process that did not get the token.
GaveUp(q, r) ==
  /\ r \in Process /\ SameTable(q, r) /\ Control(r)
  /\ \/ r.pc = "unlock" /\ ~r.ok
     \/ r.pc = "lock" /\ ~r.entry.there

LEMMA NoTokenRecord ==
  ASSUME TokenLifeInv, NEW p \in Processes, proc[p].pc \in OpeningPcs
  PROVE  \E r \in Process : NoToken(p) = [proc EXCEPT ![p] = r] /\ GaveUp(proc[p], r)
  <1> DEFINE q == proc[p]
  <1>1. q \in Process /\ Control(q) /\ ~q.entry.there /\ proc \in [Processes -> Process]
    BY Here DEF Good, Control, TokenLifeInv
  <1>2. CASE q.create
    <2> DEFINE r == [Idle(q) EXCEPT !.pc = "unlock", !.url = q.url, !.ok = FALSE]
    <2>1. /\ r \in Process /\ SameTable(q, r)
          /\ r.pc = "unlock" /\ ~r.create /\ r.holder = q.holder /\ r.stage = q.stage
          /\ r.url = q.url /\ r.ok = FALSE
      BY <1>1 DEF Idle, Process, Pcs, SameTable, Slots
    <2>2. NoToken(p) = [proc EXCEPT ![p] = r]
      BY <1>1, <1>2 DEF NoToken, Ends
    <2> HIDE DEF r
    <2>3. Control(r)
      BY <1>1, <1>2, <2>1 DEF Control, SameTable, OpeningPcs, AgentPcs
    <2>4. ~r.ok
      BY <2>1
    <2> QED BY <2>1, <2>2, <2>3, <2>4 DEF GaveUp
  <1>3. CASE ~q.create
    <2> DEFINE r == [q EXCEPT !.pc = "lock", !.slot = 0]
    <2>1. /\ r \in Process /\ SameTable(q, r)
          /\ r.pc = "lock" /\ r.create = q.create /\ r.holder = q.holder /\ r.stage = q.stage
          /\ r.url = q.url
      BY <1>1 DEF Process, SameTable, Pcs, Slots
    <2>2. NoToken(p) = [proc EXCEPT ![p] = r]
      BY <1>1, <1>3 DEF NoToken
    <2> HIDE DEF r
    <2>3. Control(r)
      BY <1>1, <1>3, <2>1 DEF Control, SameTable, OpeningPcs, AgentPcs
    <2>4. ~r.entry.there
      BY <1>1, <2>1 DEF SameTable
    <2> QED BY <2>1, <2>2, <2>3, <2>4 DEF GaveUp
  <1> QED BY <1>2, <1>3

\* It does not get the token, and nothing else changes.
LEMMA NoTokenAlone ==
  ASSUME TokenLifeInv, NEW p \in Processes, proc[p].pc \in OpeningPcs,
         proc' = NoToken(p), UNCHANGED <<slots, library, made, restarts, setting>>
  PROVE  TokenLifeInv'
  <1>1. PICK r \in Process : NoToken(p) = [proc EXCEPT ![p] = r] /\ GaveUp(proc[p], r)
    BY NoTokenRecord
  <1>2. /\ SameTable(proc[p], r) /\ Control(r) /\ r.pc \in {"unlock", "lock"}
        /\ Progress(r, library[p], slots, CallsMayFail)
    BY <1>1, NoProgress DEF GaveUp
  <1> QED BY <1>1, <1>2, StepMoves

\* The step to another place of the opening.
LEMMA OpeningControl ==
  ASSUME NEW q \in Process, Control(q), q.pc \in OpeningPcs,
         NEW r \in Process, SameTable(q, r), r.pc \in OpeningPcs,
         r.url = q.url, r.create = q.create, r.holder = q.holder, r.stage = q.stage
  PROVE  Control(r)
  BY DEF Control, SameTable, OpeningPcs, AgentPcs

LEMMA find_keeps ==
  ASSUME TokenLifeInv, NEW p \in Processes, find(p)
  PROVE  TokenLifeInv'
  <1>1. proc[p].pc = "find" /\ proc[p].pc \in OpeningPcs
    BY DEF find, At, OpeningPcs
  <1>2. UNCHANGED <<slots, library, made, restarts, setting>>
    BY DEF find
  <1>3. PICK f \in findtoken(p) :
          proc' = IF ~f.rv THEN NoToken(p)
                  ELSE IF f.slot # 0 THEN Goes(p, "find_again")
                  ELSE IF proc[p].create THEN Goes(p, "create") ELSE NoToken(p)
    BY DEF find
  <1>4. CASE proc' = NoToken(p)
    BY <1>1, <1>2, <1>4, NoTokenAlone
  <1>5. ASSUME NEW pc \in {"find_again", "create"}, proc' = Goes(p, pc),
               "info" \notin setting.faults =>
                 /\ pc = "create" => \A i \in 1..Len(made) : made[i] # p
                 /\ pc = "find_again" => \E n \in Named(slots) : matches(slots[n].label)
        PROVE  TokenLifeInv'
    <2> DEFINE r == [proc[p] EXCEPT !.pc = pc]
    <2>1. pc \in Pcs /\ pc \in OpeningPcs
      BY DEF Pcs, OpeningPcs
    <2>2. /\ r \in Process /\ SameTable(proc[p], r) /\ r.pc = pc
          /\ r.url = proc[p].url /\ r.create = proc[p].create
          /\ r.holder = proc[p].holder /\ r.stage = proc[p].stage
      BY <2>1, Here, GoesFields
    <2>3. proc' = [proc EXCEPT ![p] = r]
      BY <1>5 DEF Goes
    <2> HIDE DEF r
    <2>4. Control(r)
      BY <1>1, <2>1, <2>2, Here, OpeningControl DEF Good
    <2>5. Progress(r, library[p], slots, CallsMayFail)
      BY <2>2, NoProgress
    <2>6. "info" \notin setting.faults =>
           /\ r.pc = "create" => \A i \in 1..Len(made) : made[i] # p
           /\ r.pc = "find_again" => \E n \in Named(slots) : matches(slots[n].label)
      BY <1>5, <2>2
    <2> QED BY <1>2, <2>2, <2>3, <2>4, <2>5, <2>6, StepMoves
  <1>6. CASE f.slot # 0 /\ proc' = Goes(p, "find_again")
    <2>1. \E n \in Named(slots) : matches(slots[n].label)
      BY <1>6, Here, Found DEF Matching
    <2> QED BY <1>5, <1>6, <2>1
  <1>7. CASE f.slot = 0 /\ proc' = Goes(p, "create")
    <2>1. ASSUME "info" \notin setting.faults
          PROVE  \A i \in 1..Len(made) : made[i] # p
      <3>1. \A n \in Named(slots) : ~matches(slots[n].label)
        BY <1>7, <2>1, Here, Found
      <3>2. made = <<>>
        BY <2>1, <3>1 DEF TokenLifeInv, MadeOnce
      <3> QED BY <3>2
    <2> QED BY <1>5, <1>7, <2>1
  <1> QED BY <1>3, <1>4, <1>6, <1>7

\* cache_apimodule_token: q opened the token with session h, or without one.
CachedRecord(q, r, h) ==
  /\ r.entry.there = TRUE /\ r.entry.session = h /\ r.fresh = (h # NoHandle)
  /\ r.pc = IF q.create THEN "load" ELSE "search"
  /\ r.known = q.known /\ r.session = q.session /\ r.child = q.child /\ r.handed = q.handed
  /\ r.url = q.url /\ r.create = q.create /\ r.holder = q.holder /\ r.stage = q.stage

LEMMA CachedFields ==
  ASSUME TokenLifeInv, NEW p \in Processes, NEW h \in Handles \cup {NoHandle}
  PROVE  \E r \in Process : Cached(p, h) = [proc EXCEPT ![p] = r] /\ CachedRecord(proc[p], r, h)
  <1> DEFINE e == [there |-> TRUE, session |-> h]
             fresh == h # NoHandle
             pc == IF proc[p].create THEN "load" ELSE "search"
             r == [proc[p] EXCEPT !.entry = e, !.fresh = fresh, !.slot = 0, !.pc = pc]
  <1>1. e \in Entry /\ e.there = TRUE /\ e.session = h /\ fresh \in BOOLEAN /\ pc \in Pcs
    BY DEF Entry, Pcs
  <1>2. proc \in [Processes -> Process] /\ proc[p] \in Process
    BY DEF TokenLifeInv
  <1>3. Cached(p, h) = [proc EXCEPT ![p] = r]
    BY <1>2 DEF Cached
  <1> HIDE DEF e, fresh, pc
  <1>4. /\ r \in Process /\ r.entry = e /\ r.fresh = fresh /\ r.pc = pc
        /\ r.known = proc[p].known /\ r.session = proc[p].session
        /\ r.child = proc[p].child /\ r.handed = proc[p].handed
        /\ r.url = proc[p].url /\ r.create = proc[p].create
        /\ r.holder = proc[p].holder /\ r.stage = proc[p].stage
    BY <1>1, <1>2 DEF Process, Slots
  <1> HIDE DEF r
  <1>5. CachedRecord(proc[p], r, h)
    BY <1>1, <1>4 DEF CachedRecord, fresh, pc
  <1> QED BY <1>3, <1>4, <1>5

\* A library in which session h is on a token that matches, and logged in.
LEMMA GoodCached ==
  ASSUME NEW q \in Process, NEW lib \in Library, NEW s, NEW faults, Good(q, lib, s, faults),
         q.pc \in {"find_again", "open"}, NEW new \in Library,
         new.user \subseteq Named(s), \A x \in new.searching : new.open[x] # 0,
         q.child # NoHandle => SlotIn(new, q.child) # 0,
         NEW h \in Handles \cup {NoHandle}, h \notin new.searching,
         h # NoHandle => SlotIn(new, h) \in new.user /\ Matching(s, SlotIn(new, h)),
         NEW r \in Process, CachedRecord(q, r, h)
  PROVE  Good(r, new, s, faults)
  <1>1. ~q.entry.there /\ q.known = {} /\ ~q.session /\ q.handed = {}
    BY DEF Good, Control, Table, OpeningPcs
  <1>2. /\ r.entry.there /\ r.entry.session = h /\ (r.fresh => h # NoHandle)
        /\ r.known = {} /\ ~r.session /\ r.handed = {} /\ r.child = q.child
        /\ r.pc = IF q.create THEN "load" ELSE "search"
    BY <1>1 DEF CachedRecord
  <1>3. Control(r)
    BY <1>1, <1>2 DEF Good, Control, CachedRecord, OpeningPcs, AgentPcs
  <1>4. Table(r, new, s, faults)
    BY <1>2 DEF Table
  <1>5. Progress(r, new, s, faults)
    BY <1>2 DEF Progress
  <1> QED BY <1>3, <1>4, <1>5 DEF Good

LEMMA find_again_keeps ==
  ASSUME TokenLifeInv, NEW p \in Processes, find_again(p)
  PROVE  TokenLifeInv'
  <1>1. proc[p].pc = "find_again" /\ proc[p].pc \in OpeningPcs
    BY DEF find_again, At, OpeningPcs
  <1>2. UNCHANGED <<slots, library, made, restarts, setting>>
    BY DEF find_again
  <1>3. PICK f \in findtoken(p) :
          proc' = IF ~f.rv THEN NoToken(p)
                  ELSE IF f.slot = 0 THEN Cached(p, NoHandle)
                  ELSE [proc EXCEPT ![p].pc = "open", ![p].slot = f.slot]
    BY DEF find_again
  <1>4. CASE proc' = NoToken(p)
    BY <1>1, <1>2, <1>4, NoTokenAlone
  <1>5. CASE f.slot = 0 /\ proc' = Cached(p, NoHandle)
    <2>1. PICK r \in Process :
            Cached(p, NoHandle) = [proc EXCEPT ![p] = r] /\ CachedRecord(proc[p], r, NoHandle)
      BY CachedFields
    <2>2. NoHandle \notin library[p].searching
      BY Here DEF Library
    <2>3. Good(r, library[p], slots, CallsMayFail)
      BY <1>1, <2>1, <2>2, Here, GoodCached DEF Good, Table
    <2>4. "info" \in setting.faults
      BY <1>1, <1>5, Here, Found DEF TokenLifeInv, MadeOnce
    <2>5. restarts' \in 0..setting.restarts
      BY <1>2, Here
    <2> QED BY <1>2, <1>5, <2>1, <2>3, <2>4, <2>5, StepAlone
  <1>6. CASE f.slot # 0 /\ proc' = [proc EXCEPT ![p].pc = "open", ![p].slot = f.slot]
    <2> DEFINE r == [proc[p] EXCEPT !.pc = "open", !.slot = f.slot]
    <2>1. f.slot \in Slots /\ Matching(slots, f.slot)
      BY <1>6, Here, Found DEF Slots
    <2>2. /\ r \in Process /\ SameTable(proc[p], r) /\ r.pc = "open" /\ r.slot = f.slot
          /\ r.url = proc[p].url /\ r.create = proc[p].create
          /\ r.holder = proc[p].holder /\ r.stage = proc[p].stage
      BY <2>1, Here, FoundFields
    <2>3. proc' = [proc EXCEPT ![p] = r]
      BY <1>6
    <2> HIDE DEF r
    <2>4. Control(r)
      BY <1>1, <2>2, Here, OpeningControl DEF Good, OpeningPcs
    <2>5. Progress(r, library[p], slots, CallsMayFail)
      BY <2>1, <2>2 DEF Progress
    <2> QED BY <1>2, <2>2, <2>3, <2>4, <2>5, StepMoves
  <1> QED BY <1>3, <1>4, <1>5, <1>6

\* Without the token, whatever the library has become.
LEMMA GoodGaveUp ==
  ASSUME NEW q \in Process, NEW lib \in Library, NEW s, NEW faults, Good(q, lib, s, faults),
         q.pc \in OpeningPcs, NEW new \in Library, NEW t,
         new.user \subseteq Named(t), \A x \in new.searching : new.open[x] # 0,
         q.child # NoHandle => SlotIn(new, q.child) # 0,
         NEW r \in Process, GaveUp(q, r)
  PROVE  Good(r, new, t, faults)
  <1>1. ~q.entry.there /\ q.handed = {} /\ ~q.fresh
    BY DEF Good, Control, Table
  <1>2. ~r.entry.there /\ r.handed = {} /\ ~r.fresh /\ r.child = q.child
    BY <1>1 DEF GaveUp, SameTable
  <1>3. Table(r, new, t, faults)
    BY <1>2 DEF Table
  <1>4. Progress(r, new, t, faults)
    BY NoProgress DEF GaveUp
  <1> QED BY <1>3, <1>4 DEF Good, GaveUp

LEMMA LoggedOutFields ==
  ASSUME NEW lib \in Library, NEW n \in Slots
  PROVE  /\ LoggedOut(lib, n) \in Library
         /\ LoggedOut(lib, n).open = lib.open /\ LoggedOut(lib, n).searching = lib.searching
         /\ LoggedOut(lib, n).user = lib.user \ {n}
  <1> DEFINE a == {o \in lib.aes : o[1] # n}
  <1>1. a \subseteq Slots \X AesUrls
    BY DEF Library
  <1>2. LoggedOut(lib, n) = [lib EXCEPT !.user = @ \ {n}, !.swk = @ \ {n}, !.aes = a]
    BY DEF LoggedOut
  <1> HIDE DEF a
  <1> QED BY <1>1, <1>2 DEF Library

LEMMA open_session_keeps ==
  ASSUME TokenLifeInv, NEW p \in Processes, open_session(p)
  PROVE  TokenLifeInv'
  <1> DEFINE n == proc[p].slot
             L == library[p]
  <1>1. /\ proc[p].pc = "open" /\ proc[p].pc \in OpeningPcs
        /\ Matching(slots, n) /\ n \in Named(slots) /\ n \in Slots
    BY Here DEF open_session, At, OpeningPcs, Good, Progress, Matching, Named, Slots
  <1>2. /\ UNCHANGED <<slots, made, restarts, setting>>
        /\ Gains(slots, slots') /\ restarts' \in 0..setting.restarts
    BY Here, SameGains DEF open_session
  <1>3. CASE proc' = NoToken(p) /\ UNCHANGED library
    BY <1>1, <1>2, <1>3, NoTokenAlone
  <1>4. ASSUME NEW h \in FreeHandles(p), NEW out \in BOOLEAN, NEW ok \in BOOLEAN,
               NEW lib, lib = IF out THEN LoggedOut(Opened(L, h, n), n) ELSE Opened(L, h, n),
               library' = [library EXCEPT
                             ![p] = IF ok THEN [lib EXCEPT !.user = @ \cup {n}] ELSE lib],
               proc' = IF ok THEN Cached(p, h) ELSE NoToken(p)
        PROVE  TokenLifeInv'
    <2> HIDE DEF n, L
    <2>1. h \in Handles /\ L.open[h] = 0 /\ L \in Library
      BY Here DEF FreeHandles, L
    <2>2. /\ lib \in Library /\ lib.open = [L.open EXCEPT ![h] = n]
          /\ lib.searching = L.searching /\ lib.user \subseteq L.user
      <3>1. /\ Opened(L, h, n) \in Library /\ Opened(L, h, n).open = [L.open EXCEPT ![h] = n]
            /\ Opened(L, h, n).searching = L.searching /\ Opened(L, h, n).user = L.user
        BY <1>1, <2>1, OpenedFields
      <3>2. /\ LoggedOut(Opened(L, h, n), n) \in Library
            /\ LoggedOut(Opened(L, h, n), n).open = Opened(L, h, n).open
            /\ LoggedOut(Opened(L, h, n), n).searching = Opened(L, h, n).searching
            /\ LoggedOut(Opened(L, h, n), n).user = Opened(L, h, n).user \ {n}
        BY <1>1, <3>1, LoggedOutFields
      <3> QED BY <1>4, <3>1, <3>2
    <2> DEFINE login == [lib EXCEPT !.user = @ \cup {n}]
               new == IF ok THEN login ELSE lib
    <2>3. /\ login \in Library /\ login.user = lib.user \cup {n}
          /\ login.open = lib.open /\ login.searching = lib.searching
      BY <1>1, <2>2, LoginFields
    <2>4. library' = [library EXCEPT ![p] = new]
      BY <1>4
    <2> HIDE DEF login
    <2>5. /\ new \in Library /\ new.open = [L.open EXCEPT ![h] = n]
          /\ new.searching = L.searching /\ new.user \subseteq L.user \cup {n}
          /\ (ok => n \in new.user)
      BY <2>2, <2>3
    <2> HIDE DEF new
    <2>6. /\ SlotIn(new, h) = n
          /\ \A x : x # h => SlotIn(new, x) = SlotIn(L, x)
          /\ \A x : SlotIn(L, x) # 0 => x # h
      BY <1>1, <2>1, <2>5, OpenedSlots
    <2>7. Table(proc[p], L, slots, CallsMayFail)
      BY Here DEF Good, L
    <2>8. new.user \subseteq Named(slots)
      BY <1>1, <2>5, <2>7 DEF Table
    <2>9. /\ \A x \in new.searching : new.open[x] # 0
          /\ h \notin new.searching
      BY <1>1, <2>1, <2>5, <2>7 DEF Table, Library, Slots
    <2>10. proc[p].child # NoHandle => SlotIn(new, proc[p].child) # 0
      BY <2>6, <2>7 DEF Table
    <2>11. CASE ok
      <3>1. PICK r \in Process :
              Cached(p, h) = [proc EXCEPT ![p] = r] /\ CachedRecord(proc[p], r, h)
        BY <2>1, CachedFields
      <3>2. SlotIn(new, h) \in new.user /\ Matching(slots, SlotIn(new, h))
        BY <1>1, <2>5, <2>6, <2>11
      <3>3. Good(r, new, slots, CallsMayFail)
        BY <1>1, <2>1, <2>5, <2>8, <2>9, <2>10, <3>1, <3>2, Here, GoodCached DEF L
      <3>4. Good(r, new, slots', CallsMayFail)
        BY <1>2, <3>3
      <3>5. proc' = [proc EXCEPT ![p] = r] /\ made' = made /\ setting' = setting
        BY <1>2, <1>4, <2>11, <3>1
      <3>6. r.entry.session # NoHandle /\ r.pc \in {"load", "search"}
        BY <2>1, <3>1 DEF CachedRecord
      <3> QED BY <1>2, <2>4, <2>5, <3>4, <3>5, <3>6, Step
    <2>12. CASE ~ok
      <3>1. PICK r \in Process : NoToken(p) = [proc EXCEPT ![p] = r] /\ GaveUp(proc[p], r)
        BY <1>1, NoTokenRecord
      <3>3. Good(r, new, slots, CallsMayFail)
        BY <1>1, <2>5, <2>8, <2>9, <2>10, <3>1, Here, GoodGaveUp DEF L
      <3>4. Good(r, new, slots', CallsMayFail)
        BY <1>2, <3>3
      <3>5. proc' = [proc EXCEPT ![p] = r] /\ made' = made /\ setting' = setting
        BY <1>2, <1>4, <2>12, <3>1
      <3>6. ~r.entry.there /\ r.pc \in {"unlock", "lock"}
        BY <1>1, <3>1, Here DEF GaveUp, SameTable, Good, Control
      <3> QED BY <1>2, <2>4, <2>5, <3>4, <3>5, <3>6, Step
    <2> QED BY <2>11, <2>12
  <1>5. CASE ~(proc' = NoToken(p) /\ UNCHANGED library)
    <2>1. PICK h \in FreeHandles(p), out \in Outcome(TRUE) :
            LET lib == IF out THEN LoggedOut(Opened(L, h, n), n) ELSE Opened(L, h, n)
            IN \E ok \in Outcome(can_login(lib, n)) :
                 /\ library' = [library EXCEPT
                                  ![p] = IF ok THEN [lib EXCEPT !.user = @ \cup {n}] ELSE lib]
                 /\ proc' = IF ok THEN Cached(p, h) ELSE NoToken(p)
      BY <1>5 DEF open_session, open_ok
    <2> DEFINE lib == IF out THEN LoggedOut(Opened(L, h, n), n) ELSE Opened(L, h, n)
    <2>2. out \in BOOLEAN /\ Outcome(can_login(lib, n)) \subseteq BOOLEAN
      BY DEF Outcome, can_login
    <2>3. PICK ok \in Outcome(can_login(lib, n)) :
                 /\ library' = [library EXCEPT
                                  ![p] = IF ok THEN [lib EXCEPT !.user = @ \cup {n}] ELSE lib]
                 /\ proc' = IF ok THEN Cached(p, h) ELSE NoToken(p)
      BY <2>1
    <2> QED BY <1>4, <2>2, <2>3
  <1> QED BY <1>3, <1>5

LEMMA create_keeps ==
  ASSUME TokenLifeInv, NEW p \in Processes, create(p)
  PROVE  TokenLifeInv'
  <1> DEFINE q == Reset(proc[p])
             r == [q EXCEPT !.pc = "find_again"]
  <1>1. proc[p].pc = "create" /\ ~proc[p].entry.there
    BY Here DEF create, At, Good, Control, OpeningPcs
  <1>2. /\ r \in Process /\ r.pc = "find_again" /\ r.stage = proc[p].stage
        /\ ~r.fresh /\ r.child = NoHandle /\ r.handed = {}
        /\ r.entry = proc[p].entry /\ r.known = proc[p].known /\ r.session = proc[p].session
        /\ r.holder = proc[p].holder /\ r.create = proc[p].create /\ r.url = proc[p].url
    <2>1. q \in Process
      BY Here, ResetFields
    <2>2. /\ r \in Process /\ SameTable(q, r) /\ r.pc = "find_again" /\ r.url = q.url
          /\ r.create = q.create /\ r.holder = q.holder /\ r.stage = q.stage
      BY <2>1, GoesFields DEF Pcs
    <2> HIDE DEF r
    <2> QED BY <2>1, <2>2, Here, ResetFields DEF SameTable
  <1>3. /\ proc' = [proc EXCEPT ![p] = r] /\ library' = [library EXCEPT ![p] = NewLibrary]
        /\ slots' = TokenMade(TRUE) /\ made' = Append(made, p) /\ Len(made) < setting.made
        /\ restarts' \in 0..setting.restarts /\ setting' = setting
    BY Here DEF create, Reinitialized, CanMake
  <1>4. /\ Gains(slots, slots')
        /\ \E n \in Named(slots') : matches(slots'[n].label)
    BY <1>3, Here, MadeGains DEF Matching
  <1> HIDE DEF r
  <1>5. Control(r)
    BY <1>1, <1>2, Here DEF Good, Control, OpeningPcs, AgentPcs
  <1>6. Good(r, NewLibrary, slots', CallsMayFail)
    BY <1>2, <1>5, Here, NewLibraryFields, GoodReset
  <1>7. ~r.entry.there /\ r.pc # "create"
    BY <1>1, <1>2
  <1> QED BY <1>1, <1>2, <1>3, <1>4, <1>6, <1>7, NewLibraryFields, Step

LEMMA create_fails_keeps ==
  ASSUME TokenLifeInv, NEW p \in Processes, create_fails(p)
  PROVE  TokenLifeInv'
  <1>1. proc[p].pc = "create" /\ proc[p].pc \in OpeningPcs /\ ~proc[p].entry.there
    BY Here DEF create_fails, At, Good, Control, OpeningPcs
  <1>2. /\ proc' = NoToken(p) /\ setting' = setting /\ restarts' = restarts
        /\ restarts' \in 0..setting.restarts
    BY Here DEF create_fails
  <1>3. CASE UNCHANGED <<slots, library, made>>
    BY <1>1, <1>2, <1>3, NoTokenAlone
  <1>4. ASSUME NEW pin \in BOOLEAN, NEW new \in Library, slots' = TokenMade(pin),
               library' = [library EXCEPT ![p] = new],
               made' = Append(made, p), CanMake(p),
               new.user \subseteq library[p].user,
               \A x \in new.searching : new.open[x] # 0,
               proc[p].child # NoHandle => SlotIn(new, proc[p].child) # 0
        PROVE  TokenLifeInv'
    <2>1. PICK r \in Process : NoToken(p) = [proc EXCEPT ![p] = r] /\ GaveUp(proc[p], r)
      BY <1>1, NoTokenRecord
    <2>2. /\ Gains(slots, slots')
          /\ \E n \in Named(slots') : matches(slots'[n].label)
      BY <1>4, Here, MadeGains DEF Matching
    <2>3. new.user \subseteq Named(slots')
      <3>1. library[p].user \subseteq Named(slots)
        BY Here DEF Good, Table
      <3>2. Len(slots) \in Nat /\ Len(slots') \in Nat /\ Len(slots) <= Len(slots')
        BY <2>2, Here DEF Gains, SlotsOK
      <3>3. Named(slots) \subseteq Named(slots')
        BY <3>2 DEF Named
      <3> QED BY <1>4, <3>1, <3>3
    <2>4. Good(r, new, slots', CallsMayFail)
      BY <1>1, <1>4, <2>1, <2>3, Here, GoodGaveUp
    <2>5. ~r.entry.there /\ r.pc \in {"unlock", "lock"}
      BY <1>1, <2>1 DEF GaveUp, SameTable
    <2>6. Len(made) < setting.made
      BY <1>4 DEF CanMake
    <2> QED BY <1>1, <1>2, <1>4, <2>1, <2>2, <2>4, <2>5, <2>6, Step
  <1>5. Table(proc[p], library[p], slots, CallsMayFail)
    BY Here DEF Good
  <1>6. CASE /\ CanMake(p) /\ made' = Append(made, p)
             /\ slots' = TokenMade(FALSE) /\ UNCHANGED library
    <2>1. library' = [library EXCEPT ![p] = library[p]] /\ library[p] \in Library
      BY <1>6 DEF TokenLifeInv
    <2> QED BY <1>4, <1>5, <1>6, <2>1 DEF Table
  <1>7. ASSUME CanMake(p), made' = Append(made, p), NEW h \in FreeHandles(p),
               NEW pin \in BOOLEAN, slots' = TokenMade(pin),
               library' = [library EXCEPT ![p] = Opened(@, h, Len(slots))]
        PROVE  TokenLifeInv'
    <2> DEFINE new == Opened(library[p], h, Len(slots))
    <2>1. Len(slots) \in Slots /\ h \in Handles /\ library[p].open[h] = 0
      BY Here, Blanks DEF Slots, FreeHandles
    <2>2. /\ new \in Library /\ new.open = [library[p].open EXCEPT ![h] = Len(slots)]
          /\ new.searching = library[p].searching /\ new.user = library[p].user
      BY <2>1, Here, OpenedFields
    <2>3. library' = [library EXCEPT ![p] = new]
      BY <1>7
    <2> HIDE DEF new
    <2>4. /\ \A x : x # h => SlotIn(new, x) = SlotIn(library[p], x)
          /\ \A x : SlotIn(library[p], x) # 0 => x # h
      BY <2>1, <2>2, Here, OpenedSlots
    <2>5. \A x \in new.searching : new.open[x] # 0
      BY <1>5, <2>1, <2>2, Here DEF Table, Library, Slots
    <2>6. proc[p].child # NoHandle => SlotIn(new, proc[p].child) # 0
      BY <1>5, <2>4 DEF Table
    <2> QED BY <1>4, <1>7, <2>2, <2>3, <2>5, <2>6
  <1> QED BY <1>3, <1>6, <1>7 DEF create_fails

-----------------------------------------------------------------------------
(* The search, and the agent. *)

\* The lemmas are about library[p]; so are the operators of the model.
LEMMA Views ==
  ASSUME NEW p \in Processes, NEW h, NEW n, NEW u
  PROVE  /\ SlotOf(p, h) = SlotIn(library[p], h)
         /\ Visible(p, n, u) <=> ObjectIn(library[p], slots, n, u)
         /\ Usable(p, h) <=> SlotIn(library[p], h) # 0 /\ h \notin library[p].searching
         /\ LoggedIn(p, h) <=> SlotIn(library[p], h) \in library[p].user
         /\ unwraps(p, h) <=> /\ SlotIn(library[p], h) \in library[p].user
                             /\ SlotIn(library[p], h) \in library[p].swk
  BY DEF SlotOf, SlotIn, Visible, ObjectIn, Usable, LoggedIn, unwraps

\* A load that has begun is over, before the agent or in it.
LEMMA EndControl ==
  ASSUME NEW q \in Process, Control(q), NEW r \in Process, SameTable(q, r),
         \/ q.pc = "search" /\ r.pc = "returned"
         \/ q.pc \in AgentPcs /\ r.pc = "unlock",
         ~r.create, r.url = q.url, r.holder = q.holder, r.stage = q.stage
  PROVE  Control(r)
  BY DEF Control, SameTable, OpeningPcs, AgentPcs

\* A search is left in an open session.
LEMMA TableSearching ==
  ASSUME NEW q \in Process, NEW lib \in Library, NEW s, NEW faults, Table(q, lib, s, faults),
         NEW h, lib.open[h] # 0, NEW new \in Library,
         new.open = lib.open, new.user = lib.user, new.swk = lib.swk, new.aes = lib.aes,
         new.searching = lib.searching \cup {h}
  PROVE  Table(q, new, s, faults)
  <1>1. \A x : SlotIn(new, x) = SlotIn(lib, x)
    BY DEF SlotIn
  <1>2. \A n, u : ObjectIn(new, s, n, u) <=> ObjectIn(lib, s, n, u)
    BY DEF ObjectIn
  <1> QED BY <1>1, <1>2 DEF Table

LEMMA search_keeps ==
  ASSUME TokenLifeInv, NEW p \in Processes, search(p)
  PROVE  TokenLifeInv'
  <1> DEFINE q == proc[p]
             L == library[p]
             h == q.entry.session
             n == SlotOf(p, h)
  <1>1. /\ q \in Process /\ Control(q) /\ Table(q, L, slots, CallsMayFail)
        /\ q.pc = "search" /\ q.entry.there /\ L \in Library
        /\ proc \in [Processes -> Process]
    BY Here DEF search, At, Good, Control, TokenLifeInv
  <1>2. /\ UNCHANGED <<slots, made, restarts, setting>>
        /\ Gains(slots, slots') /\ restarts' \in 0..setting.restarts
    BY Here, SameGains DEF search
  <1>3. PICK init \in search_starts(p), ended \in Outcome(TRUE), read \in Outcome(TRUE) :
          /\ library' = IF init /\ ~ended THEN [library EXCEPT ![p].searching = @ \cup {h}]
                        ELSE library
          /\ proc' = IF ~init \/ ~ended THEN Returns(p, FALSE)
                     ELSE IF object_found(p, n) THEN Returns(p, read)
                     ELSE Goes(p, "lock")
    BY DEF search
  <1>4. init => SlotIn(L, h) # 0 /\ h \notin L.searching
    BY <1>3, Views DEF search_starts, Outcome
  <1>5. init \in BOOLEAN /\ ended \in BOOLEAN /\ read \in BOOLEAN
    BY <1>3 DEF search_starts, Outcome, Usable
  \* It returns.
  <1>6. ASSUME NEW ok \in BOOLEAN, proc' = Returns(p, ok)
        PROVE  \E r \in Process :
                 /\ proc' = [proc EXCEPT ![p] = r] /\ SameTable(q, r) /\ Control(r)
                 /\ r.pc = "returned" /\ r.ok = ok /\ r.url = q.url
    <2> DEFINE r == Returned(q, q.url, ok)
    <2>1. /\ r \in Process /\ SameTable(q, r) /\ r.pc = "returned" /\ ~r.create
          /\ r.holder = q.holder /\ r.stage = q.stage /\ r.url = q.url /\ r.ok = ok
      <3>1. q.url \in Urls \cup {NoUrl}
        BY <1>1 DEF Process
      <3> QED BY <1>1, <3>1, ReturnedFields
    <2>2. proc' = [proc EXCEPT ![p] = r]
      BY <1>1, <1>6 DEF Returns, Returned
    <2> HIDE DEF r
    <2>3. Control(r)
      BY <1>1, <2>1, EndControl
    <2> QED BY <2>1, <2>2, <2>3
  <1>7. CASE init /\ ~ended
    <2> DEFINE new == [L EXCEPT !.searching = @ \cup {h}]
    <2>1. h \in Handles /\ L.open[h] # 0
      BY <1>4, <1>7 DEF SlotIn
    <2>2. /\ new \in Library /\ new.open = L.open /\ new.user = L.user
          /\ new.swk = L.swk /\ new.aes = L.aes /\ new.searching = L.searching \cup {h}
      BY <1>1, <2>1 DEF Library
    <2>3. library' = [library EXCEPT ![p] = new]
      BY <1>3, <1>7
    <2> HIDE DEF new, h, n, L, q
    <2>4. PICK r \in Process :
                 /\ proc' = [proc EXCEPT ![p] = r] /\ SameTable(q, r) /\ Control(r)
                 /\ r.pc = "returned" /\ r.ok = FALSE
      BY <1>3, <1>6, <1>7
    <2>5. Table(q, new, slots, CallsMayFail)
      BY <1>1, <2>1, <2>2, TableSearching
    <2>6. Table(r, new, slots, CallsMayFail)
      BY <2>4, <2>5 DEF Table, SameTable
    <2>7. Progress(r, new, slots, CallsMayFail)
      BY <2>4, NoProgress
    <2>8. Good(r, new, slots', CallsMayFail)
      BY <1>2, <2>4, <2>6, <2>7 DEF Good
    <2>9. "info" \notin setting.faults => (r.entry.there => r.entry.session # NoHandle)
      BY <2>4 DEF TokenLifeInv, MadeOnce, SameTable, q
    <2> QED BY <1>2, <2>2, <2>3, <2>4, <2>8, <2>9, Step
  <1>8. CASE ~init
    <2>1. PICK r \in Process :
                 /\ proc' = [proc EXCEPT ![p] = r] /\ SameTable(q, r) /\ Control(r)
                 /\ r.pc = "returned" /\ r.ok = FALSE
      BY <1>3, <1>6, <1>8
    <2>2. Progress(r, L, slots, CallsMayFail)
      BY <2>1, NoProgress
    <2> QED BY <1>2, <1>3, <1>8, <2>1, <2>2, StepMoves
  <1>9. CASE init /\ ended /\ object_found(p, n)
    <2>1. PICK r \in Process :
                 /\ proc' = [proc EXCEPT ![p] = r] /\ SameTable(q, r) /\ Control(r)
                 /\ r.pc = "returned" /\ r.ok = read /\ r.url = q.url
      BY <1>3, <1>5, <1>6, <1>9
    <2>2. ObjectIn(L, slots, SlotIn(L, h), q.url)
      BY <1>9, Views DEF object_found
    <2>3. r.entry = q.entry
      BY <2>1 DEF SameTable
    <2>4. Progress(r, L, slots, CallsMayFail)
      BY <1>1, <1>4, <1>9, <2>1, <2>2, <2>3 DEF Progress
    <2> QED BY <1>2, <1>3, <1>9, <2>1, <2>4, StepMoves
  <1>10. CASE init /\ ended /\ ~object_found(p, n)
    <2> DEFINE r == [q EXCEPT !.pc = "lock"]
    <2>1. /\ r \in Process /\ SameTable(q, r) /\ r.pc = "lock" /\ r.url = q.url
          /\ r.create = q.create /\ r.holder = q.holder /\ r.stage = q.stage
      BY <1>1, GoesFields DEF Pcs
    <2>2. proc' = [proc EXCEPT ![p] = r]
      BY <1>3, <1>10 DEF Goes
    <2> HIDE DEF r
    <2>3. Control(r)
      BY <1>1, <2>1 DEF Control, SameTable, OpeningPcs, AgentPcs
    <2>4. r.entry = q.entry
      BY <2>1 DEF SameTable
    <2>5. Progress(r, L, slots, CallsMayFail)
      BY <1>4, <1>10, <2>1, <2>4 DEF Progress
    <2> QED BY <1>2, <1>3, <1>10, <2>1, <2>2, <2>3, <2>5, StepMoves
  <1> QED BY <1>5, <1>7, <1>8, <1>9, <1>10

LEMMA lock_keeps ==
  ASSUME TokenLifeInv, NEW p \in Processes, lock(p)
  PROVE  TokenLifeInv'
  <1> DEFINE q == proc[p]
             L == library[p]
             knows == q.url \in q.known
             pc == IF knows THEN "unlock" ELSE "load"
             r == [q EXCEPT !.holder = "worker", !.pc = pc, !.ok = knows]
  <1>1. /\ q \in Process /\ Control(q) /\ Table(q, L, slots, CallsMayFail)
        /\ Progress(q, L, slots, CallsMayFail) /\ q.pc = "lock"
    BY Here DEF lock, At, Good
  <1>2. UNCHANGED <<slots, library, made, restarts, setting>>
    BY DEF lock
  <1>3. proc' = [proc EXCEPT ![p] = r]
    BY DEF lock
  <1>4. knows \in BOOLEAN /\ pc \in Pcs /\ pc = (IF knows THEN "unlock" ELSE "load")
    BY DEF Pcs
  <1> HIDE DEF pc
  <1>5. /\ r \in Process /\ SameTable(q, r) /\ r.pc = pc /\ r.url = q.url
        /\ r.create = q.create /\ r.holder = "worker" /\ r.stage = q.stage
        /\ r.ok = knows
    <2> HIDE DEF knows
    <2> QED BY <1>1, <1>4 DEF Process, SameTable
  <1> HIDE DEF r
  <1>6. Control(r)
    BY <1>1, <1>4, <1>5 DEF Control, SameTable, OpeningPcs, AgentPcs
  <1>7. /\ r.entry = q.entry /\ r.known = q.known /\ r.handed = q.handed /\ r.fresh = q.fresh
    BY <1>5 DEF SameTable
  <1>8. knows =>
          \/ q.entry.there /\ ObjectIn(L, slots, SlotIn(L, q.entry.session), q.url)
          \/ q.url \in q.known \ q.handed /\ (CallsMayFail \/ ~q.fresh)
    BY <1>1 DEF Table
  <1>9. Progress(r, L, slots, CallsMayFail)
    <2>1. q.entry.there => SlotIn(L, q.entry.session) # 0 /\ q.entry.session \notin L.searching
      BY <1>1 DEF Progress
    <2>2. r.ok => knows
      BY <1>5
    <2> HIDE DEF knows, q, L
    <2>3. r.pc = "open" => Matching(slots, r.slot)
      BY <1>4, <1>5
    <2>4. r.pc \in {"unlock", "returned"} /\ r.ok =>
            \/ r.entry.there /\ ObjectIn(L, slots, SlotIn(L, r.entry.session), r.url)
            \/ r.url \in r.known \ r.handed /\ (CallsMayFail \/ ~r.fresh)
      BY <1>5, <1>7, <1>8, <2>2
    <2>5. r.entry.there => SlotIn(L, r.entry.session) # 0 /\ r.entry.session \notin L.searching
      BY <1>7, <2>1
    <2> QED BY <2>3, <2>4, <2>5 DEF Progress
  <1>10. r.pc \in {"unlock", "load"}
    BY <1>4, <1>5
  <1> QED BY <1>2, <1>3, <1>5, <1>6, <1>9, <1>10, StepMoves

LEMMA get_challenge_keeps ==
  ASSUME TokenLifeInv, NEW p \in Processes, get_challenge(p)
  PROVE  TokenLifeInv'
  <1> DEFINE q == proc[p]
             r == [q EXCEPT !.pc = "find", !.create = TRUE]
  <1>1. q \in Process /\ Control(q) /\ q.pc = "load" /\ ~q.entry.there
    BY Here DEF get_challenge, At, Good
  <1>2. UNCHANGED <<slots, library, made, restarts, setting>> /\ proc' = [proc EXCEPT ![p] = r]
    BY DEF get_challenge
  <1>3. /\ r \in Process /\ SameTable(q, r) /\ r.pc = "find" /\ r.url = q.url
        /\ r.create = TRUE /\ r.holder = q.holder /\ r.stage = q.stage
    BY <1>1 DEF Process, SameTable, Pcs
  <1> HIDE DEF r
  <1>4. Control(r)
    BY <1>1, <1>3 DEF Control, SameTable, OpeningPcs, AgentPcs
  <1>5. Progress(r, library[p], slots, CallsMayFail)
    BY <1>3, NoProgress
  <1> QED BY <1>2, <1>3, <1>4, <1>5, StepMoves

\* The load fails in the agent.
LEMMA EndsRecord ==
  ASSUME TokenLifeInv, NEW p \in Processes, proc[p].pc \in AgentPcs, NEW r,
         r = [Idle(proc[p]) EXCEPT !.pc = "unlock", !.url = proc[p].url, !.ok = FALSE]
  PROVE  /\ Ends(p, FALSE) = [proc EXCEPT ![p] = r]
         /\ r \in Process /\ SameTable(proc[p], r) /\ Control(r)
         /\ r.pc = "unlock" /\ ~r.ok
  <1>1. proc[p] \in Process /\ Control(proc[p]) /\ proc \in [Processes -> Process]
    BY Here DEF Good, TokenLifeInv
  <1>2. /\ r \in Process /\ SameTable(proc[p], r) /\ r.pc = "unlock" /\ ~r.create
        /\ r.holder = proc[p].holder /\ r.stage = proc[p].stage
        /\ r.url = proc[p].url /\ r.ok = FALSE
    BY <1>1 DEF Idle, Process, Pcs, SameTable, Slots
  <1>3. Ends(p, FALSE) = [proc EXCEPT ![p] = r]
    BY <1>1 DEF Ends
  <1>4. Control(r)
    BY <1>1, <1>2, EndControl
  <1>5. ~r.ok
    BY <1>2
  <1> QED BY <1>2, <1>3, <1>4, <1>5

LEMMA load_fails_keeps ==
  ASSUME TokenLifeInv, NEW p \in Processes, load_fails(p)
  PROVE  TokenLifeInv'
  <1> DEFINE r == [Idle(proc[p]) EXCEPT !.pc = "unlock", !.url = proc[p].url, !.ok = FALSE]
  <1>1. proc[p].pc \in AgentPcs
    BY DEF load_fails, Asking, At, AgentPcs
  <1>2. /\ Ends(p, FALSE) = [proc EXCEPT ![p] = r]
        /\ r \in Process /\ SameTable(proc[p], r) /\ Control(r)
        /\ r.pc = "unlock" /\ ~r.ok
    BY <1>1, EndsRecord
  <1>3. /\ UNCHANGED <<slots, library, made, restarts, setting>>
        /\ proc' = [proc EXCEPT ![p] = r]
    BY <1>2 DEF load_fails
  <1> HIDE DEF r
  <1>4. Progress(r, library[p], slots, CallsMayFail)
    BY <1>2, NoProgress
  <1> QED BY <1>2, <1>3, <1>4, StepMoves

LEMMA unlock_keeps ==
  ASSUME TokenLifeInv, NEW p \in Processes, unlock(p)
  PROVE  TokenLifeInv'
  <1> DEFINE q == proc[p]
             b == Returned(q, q.url, q.ok)
             r == [b EXCEPT !.holder = "nobody"]
  <1>1. /\ q \in Process /\ Control(q) /\ q.pc = "unlock" /\ q.ok \in BOOLEAN
        /\ Progress(q, library[p], slots, CallsMayFail)
        /\ proc \in [Processes -> Process]
    BY Here, Fields DEF unlock, At, Good, TokenLifeInv
  <1>2. /\ b \in Process /\ SameTable(q, b) /\ b.pc = "returned" /\ ~b.create
        /\ b.stage = q.stage /\ b.url = q.url /\ b.ok = q.ok
    <2>1. q.url \in Urls \cup {NoUrl}
      BY <1>1 DEF Process
    <2> QED BY <1>1, <2>1, ReturnedFields
  <1>3. /\ UNCHANGED <<slots, library, made, restarts, setting>>
        /\ proc' = [proc EXCEPT ![p] = r]
    BY <1>1 DEF unlock, Returns, Returned, unlocked
  <1> HIDE DEF b
  <1>4. /\ r \in Process /\ SameTable(q, r) /\ r.pc = "returned" /\ r.create = b.create
        /\ r.stage = q.stage /\ r.url = q.url /\ r.ok = q.ok /\ r.holder = "nobody"
    BY <1>2 DEF Process, SameTable
  <1> HIDE DEF r
  <1>5. Control(r)
    BY <1>1, <1>2, <1>4 DEF Control, SameTable, OpeningPcs, AgentPcs
  <1>6. /\ r.entry = q.entry /\ r.known = q.known /\ r.handed = q.handed /\ r.fresh = q.fresh
    BY <1>4 DEF SameTable
  <1>7. Progress(r, library[p], slots, CallsMayFail)
    BY <1>1, <1>4, <1>6 DEF Progress
  <1> QED BY <1>3, <1>4, <1>5, <1>7, StepMoves

\* The record of a process that announces a session from now on.
Announces(q, r) ==
  /\ r.session = TRUE
  /\ r.entry = q.entry /\ r.known = q.known /\ r.fresh = q.fresh
  /\ r.child = q.child /\ r.handed = q.handed /\ r.url = q.url
  /\ r.holder = q.holder /\ r.stage = q.stage
  /\ \/ r.pc = "load_again" /\ r.create = q.create
     \/ r.pc = "unlock" /\ ~r.create /\ ~r.ok

LEMMA AnnouncesRecord ==
  ASSUME TokenLifeInv, NEW p \in Processes, Asking(p), create_session(p)
  PROVE  \E r \in Process : proc' = [proc EXCEPT ![p] = r] /\ Announces(proc[p], r)
  <1> DEFINE q == proc[p]
  <1>1. q \in Process /\ proc \in [Processes -> Process]
    BY DEF TokenLifeInv
  <1>2. CASE At(p, "load")
    <2> DEFINE r == [q EXCEPT !.pc = "load_again", !.session = TRUE]
    <2>1. proc' = [proc EXCEPT ![p] = r]
      BY <1>1, <1>2 DEF create_session, Goes
    <2>2. r \in Process /\ r.pc = "load_again" /\ r.create = q.create
      BY <1>1 DEF Process, Pcs
    <2>3. /\ r.session = TRUE
          /\ r.entry = q.entry /\ r.known = q.known /\ r.fresh = q.fresh
          /\ r.child = q.child /\ r.handed = q.handed /\ r.url = q.url
          /\ r.holder = q.holder /\ r.stage = q.stage
      BY <1>1 DEF Process
    <2> HIDE DEF r
    <2> QED BY <2>1, <2>2, <2>3 DEF Announces
  <1>3. CASE ~At(p, "load")
    <2> DEFINE b == [Idle(q) EXCEPT !.pc = "unlock", !.url = q.url, !.ok = FALSE]
               r == [b EXCEPT !.session = TRUE]
    <2>1. q.pc \in AgentPcs
      BY <1>3 DEF Asking, At, AgentPcs
    <2>2. /\ b \in Process /\ SameTable(q, b) /\ b.pc = "unlock" /\ ~b.create /\ ~b.ok
          /\ b.holder = q.holder /\ b.stage = q.stage /\ b.url = q.url
      BY <1>1 DEF Idle, Process, Pcs, SameTable, Slots
    <2>3. Ends(p, FALSE) = [proc EXCEPT ![p] = b]
      BY <1>1 DEF Ends
    <2>4. proc' = [Ends(p, FALSE) EXCEPT ![p].session = TRUE]
      BY <1>3 DEF create_session
    <2> HIDE DEF b
    <2>5. proc' = [proc EXCEPT ![p] = r]
      BY <1>1, <2>3, <2>4
    <2>6. /\ r \in Process /\ r.session = TRUE
          /\ r.pc = b.pc /\ r.create = b.create /\ r.ok = b.ok
          /\ r.entry = b.entry /\ r.known = b.known /\ r.fresh = b.fresh
          /\ r.child = b.child /\ r.handed = b.handed /\ r.url = b.url
          /\ r.holder = b.holder /\ r.stage = b.stage
      BY <2>2 DEF Process
    <2> HIDE DEF r
    <2>7. Announces(q, r)
      BY <2>2, <2>6 DEF Announces, SameTable
    <2> QED BY <2>5, <2>6, <2>7
  <1> QED BY <1>2, <1>3

LEMMA create_session_keeps ==
  ASSUME TokenLifeInv, NEW p \in Processes, create_session(p)
  PROVE  TokenLifeInv'
  <1> DEFINE q == proc[p]
             L == library[p]
             h == q.entry.session
             n == SlotOf(p, h)
  <1>1. /\ q \in Process /\ Control(q) /\ Table(q, L, slots, CallsMayFail)
        /\ Progress(q, L, slots, CallsMayFail) /\ L \in Library
        /\ q.pc \in {"load", "load_again"} /\ q.pc \in AgentPcs
    BY Here DEF create_session, Asking, At, AgentPcs, Good
  <1>2. /\ UNCHANGED <<slots, made, restarts, setting>>
        /\ Gains(slots, slots') /\ restarts' \in 0..setting.restarts
    BY Here, SameGains DEF create_session
  <1>3. n = SlotIn(L, h) /\ n \in L.user
    BY Views DEF create_session, LoggedIn
  <1>4. n \in Slots /\ h \in Handles /\ q.entry.there
    <2>1. n \in Named(slots)
      BY <1>1, <1>3 DEF Table
    <2>2. n \in Slots
      BY <2>1, Here, Blanks DEF Named, Slots
    <2>3. h \in Handles
      BY <1>3, <2>2 DEF SlotIn, Slots
    <2> QED BY <1>1, <2>2, <2>3 DEF Control
  <1>5. PICK ok \in Outcome(TRUE) :
          library' = [library EXCEPT ![p].swk = IF ok THEN @ \cup {n} ELSE @ \ {n}]
    BY DEF create_session
  <1>6. PICK r \in Process : proc' = [proc EXCEPT ![p] = r] /\ Announces(q, r)
    BY AnnouncesRecord DEF create_session
  <1> DEFINE keys == IF ok THEN L.swk \cup {n} ELSE L.swk \ {n}
             new == [L EXCEPT !.swk = keys]
  <1>7. library' = [library EXCEPT ![p] = new]
    BY <1>5
  <1>8. keys \subseteq Slots /\ (~CallsMayFail => n \in keys)
    <2>1. ~CallsMayFail => ok
      BY <1>5 DEF Outcome
    <2>2. L.swk \subseteq Slots
      BY <1>1 DEF Library
    <2> QED BY <1>4, <2>1, <2>2
  <1> HIDE DEF keys
  <1>9. /\ new \in Library /\ new.open = L.open /\ new.searching = L.searching
        /\ new.user = L.user /\ new.aes = L.aes /\ new.swk = keys
    BY <1>1, <1>8 DEF Library
  <1> HIDE DEF new
  <1>10. /\ \A x : SlotIn(new, x) = SlotIn(L, x)
         /\ \A m, u : ObjectIn(new, slots, m, u) <=> ObjectIn(L, slots, m, u)
    BY <1>9 DEF SlotIn, ObjectIn
  <1> HIDE DEF n, L
  <1>11. Control(r)
    BY <1>1, <1>4, <1>6 DEF Control, Announces, OpeningPcs, AgentPcs
  <1>12. Table(r, new, slots, CallsMayFail)
    <2>1. Table(q, L, slots, CallsMayFail)
      BY <1>1
    <2>2. ~CallsMayFail => SlotIn(new, q.entry.session) \in new.swk
      BY <1>3, <1>8, <1>9, <1>10
    <2>3. /\ r.entry = q.entry /\ r.known = q.known /\ r.fresh = q.fresh
          /\ r.child = q.child /\ r.handed = q.handed
      BY <1>6 DEF Announces
    <2> QED BY <1>9, <1>10, <2>1, <2>2, <2>3 DEF Table
  <1>13. Progress(r, new, slots, CallsMayFail)
    BY <1>1, <1>6, <1>9 DEF Progress, Announces
  <1>14. Good(r, new, slots', CallsMayFail)
    BY <1>2, <1>11, <1>12, <1>13 DEF Good
  <1>15. /\ "info" \notin setting.faults => (r.entry.there => r.entry.session # NoHandle)
         /\ r.pc \in {"load_again", "unlock"}
    BY <1>4, <1>6 DEF Announces
  <1> QED BY <1>2, <1>6, <1>7, <1>9, <1>14, <1>15, Step

\* What the API module has put into the token: the object is there, and the others stay.
LEMMA StoredRecord ==
  ASSUME TokenLifeInv, NEW p \in Processes, NEW u \in Urls, NEW h,
         SlotIn(library[p], h) \in library[p].user,
         Stored(p, SlotIn(library[p], h), u)
  PROVE  \E new \in Library :
           /\ library' = [library EXCEPT ![p] = new] /\ Gains(slots, slots')
           /\ new.open = library[p].open /\ new.searching = library[p].searching
           /\ new.user = library[p].user /\ new.swk = library[p].swk
           /\ library[p].aes \subseteq new.aes
           /\ ObjectIn(new, slots', SlotIn(new, h), u)
  <1> DEFINE L == library[p]
             n == SlotIn(L, h)
  <1>1. /\ L \in Library /\ n \in Named(slots) /\ n \in Slots /\ n \in L.user
        /\ library \in [Processes -> Library]
    BY Here, Blanks DEF Good, Table, Named, Slots, TokenLifeInv
  <1>2. CASE u \in AesUrls
    <2> DEFINE keys == L.aes \cup {<<n, u>>}
               new == [L EXCEPT !.aes = keys]
    <2>1. library' = [library EXCEPT ![p] = new] /\ slots' = slots
      BY <1>2 DEF Stored
    <2>2. keys \subseteq Slots \X AesUrls
      BY <1>1, <1>2 DEF Library
    <2>3. L.aes \subseteq keys /\ <<n, u>> \in keys
      OBVIOUS
    <2> HIDE DEF keys
    <2>4. /\ new \in Library /\ new.open = L.open /\ new.searching = L.searching
          /\ new.user = L.user /\ new.swk = L.swk /\ new.aes = keys
      BY <1>1, <2>2 DEF Library
    <2> HIDE DEF new
    <2>5. ObjectIn(new, slots', SlotIn(new, h), u)
      BY <1>1, <1>2, <2>3, <2>4 DEF ObjectIn, SlotIn
    <2>6. Gains(slots, slots')
      BY <2>1, Here, SameGains
    <2> QED BY <2>1, <2>3, <2>4, <2>5, <2>6
  <1>3. CASE u \notin AesUrls
    <2>1. slots' = [slots EXCEPT ![n].rsa = @ \cup {u}] /\ library' = library
      BY <1>3 DEF Stored
    <2>2. Gains(slots, slots') /\ u \in slots'[n].rsa
      BY <1>1, <1>3, <2>1, Here, StoredGains
    <2>3. library' = [library EXCEPT ![p] = L]
      BY <1>1, <2>1
    <2>4. ObjectIn(L, slots', SlotIn(L, h), u)
      BY <1>1, <1>3, <2>2 DEF ObjectIn
    <2> QED BY <1>1, <2>2, <2>3, <2>4
  <1> QED BY <1>2, <1>3

\* The agent knows key u; it was handed to the library if stored.
KnowsRecord(q, r, u, stored) ==
  /\ r.known = q.known \cup {u} /\ r.handed = (IF stored THEN q.handed \cup {u} ELSE q.handed)
  /\ r.pc = "unlock" /\ r.ok = stored
  /\ r.entry = q.entry /\ r.session = q.session /\ r.fresh = q.fresh /\ r.child = q.child
  /\ r.url = q.url /\ r.create = q.create /\ r.holder = q.holder /\ r.stage = q.stage

LEMMA load_key_keeps ==
  ASSUME TokenLifeInv, NEW p \in Processes, load_key(p)
  PROVE  TokenLifeInv'
  <1> DEFINE q == proc[p]
             L == library[p]
             h == q.entry.session
             u == q.url
  <1>1. /\ q \in Process /\ Control(q) /\ Table(q, L, slots, CallsMayFail)
        /\ Progress(q, L, slots, CallsMayFail) /\ L \in Library
        /\ q.pc \in {"load", "load_again"} /\ q.pc \in AgentPcs /\ q.session
    BY Here DEF load_key, Asking, At, AgentPcs, Good
  <1>2. /\ UNCHANGED <<made, restarts, setting>> /\ restarts' \in 0..setting.restarts
    BY Here DEF load_key
  <1>3. u \in Urls /\ q.entry.there
    BY <1>1 DEF Control
  <1>4. "info" \notin setting.faults => q.entry.session # NoHandle
    BY <1>3 DEF TokenLifeInv, MadeOnce
  <1>5. PICK stored \in Outcome(unwraps(p, h)) :
          /\ IF stored THEN Stored(p, SlotOf(p, h), u) ELSE UNCHANGED <<slots, library>>
          /\ proc' = [proc EXCEPT ![p].known = @ \cup {u},
                                  ![p].handed = IF stored THEN @ \cup {u} ELSE @,
                                  ![p].pc = "unlock", ![p].ok = stored]
    BY DEF load_key
  <1>6. /\ stored \in BOOLEAN
        /\ stored => SlotIn(L, h) \in L.user /\ SlotIn(L, h) \in L.swk
        /\ ~CallsMayFail /\ SlotIn(L, h) \in L.user /\ SlotIn(L, h) \in L.swk => stored
    <2>1. stored \in BOOLEAN
      BY <1>5 DEF Outcome, unwraps
    <2>2. stored => unwraps(p, h)
      BY <1>5 DEF Outcome
    <2>3. ~CallsMayFail /\ unwraps(p, h) => stored
      BY <1>5 DEF Outcome
    <2> QED BY <2>1, <2>2, <2>3, Views
  <1> DEFINE known == q.known \cup {u}
             handed == IF stored THEN q.handed \cup {u} ELSE q.handed
             r == [q EXCEPT !.known = known, !.handed = handed, !.pc = "unlock", !.ok = stored]
  <1>7. r \in Process /\ KnowsRecord(q, r, u, stored) /\ proc' = [proc EXCEPT ![p] = r]
    <2>1. known \subseteq Urls /\ handed \subseteq Urls
      BY <1>1, <1>3, Fields
    <2>2. proc' = [proc EXCEPT ![p] = r]
      BY <1>5, Here
    <2>3. known = q.known \cup {u} /\ handed = (IF stored THEN q.handed \cup {u} ELSE q.handed)
      OBVIOUS
    <2> HIDE DEF known, handed, u
    <2>4. /\ r \in Process /\ r.known = known /\ r.handed = handed
          /\ r.pc = "unlock" /\ r.ok = stored
          /\ r.entry = q.entry /\ r.session = q.session /\ r.fresh = q.fresh
          /\ r.child = q.child /\ r.url = q.url /\ r.create = q.create
          /\ r.holder = q.holder /\ r.stage = q.stage
      BY <1>1, <1>6, <2>1 DEF Process, Pcs
    <2> HIDE DEF r
    <2> QED BY <2>2, <2>3, <2>4 DEF KnowsRecord
  <1> HIDE DEF r, known, handed
  <1>8. Control(r)
    BY <1>1, <1>3, <1>7 DEF Control, KnowsRecord, OpeningPcs, AgentPcs
  <1>9. /\ "info" \notin setting.faults => r.entry.session # NoHandle
        /\ r.pc = "unlock" /\ r.entry = q.entry /\ r.entry.there
    BY <1>3, <1>4, <1>7 DEF KnowsRecord
  <1>10. CASE stored
    <2>1. SlotIn(L, h) \in L.user /\ Stored(p, SlotIn(L, h), u)
      BY <1>5, <1>6, <1>10, Views
    <2>2. PICK new \in Library :
           /\ library' = [library EXCEPT ![p] = new] /\ Gains(slots, slots')
           /\ new.open = L.open /\ new.searching = L.searching
           /\ new.user = L.user /\ new.swk = L.swk /\ L.aes \subseteq new.aes
           /\ ObjectIn(new, slots', SlotIn(new, h), u)
      BY <1>3, <2>1, StoredRecord
    <2>3. Good(q, L, slots', CallsMayFail)
      BY <2>2, Here, GoodGains
    <2> HIDE DEF L, u
    <2>4. /\ \A x : SlotIn(new, x) = SlotIn(L, x)
          /\ \A n, v : ObjectIn(L, slots', n, v) => ObjectIn(new, slots', n, v)
      BY <2>2 DEF SlotIn, ObjectIn
    <2>5. Table(q, L, slots', CallsMayFail)
      BY <2>3 DEF Good
    <2>6. /\ r.entry = q.entry /\ r.known = q.known \cup {u} /\ r.handed = q.handed \cup {u}
          /\ r.session = q.session /\ r.fresh = q.fresh /\ r.child = q.child
          /\ r.url = u
      BY <1>7, <1>10 DEF KnowsRecord, u
    <2>7. Table(r, new, slots', CallsMayFail)
      BY <1>3, <2>2, <2>4, <2>5, <2>6 DEF Table
    <2>8. Progress(r, new, slots', CallsMayFail)
      <3>1. SlotIn(new, h) # 0
        BY <1>1, <2>1, <2>4 DEF Table, Named
      <3>2. h \notin new.searching
        BY <1>1, <1>3, <2>2 DEF Progress
      <3> QED BY <1>9, <2>2, <2>6, <3>1, <3>2 DEF Progress
    <2>9. Good(r, new, slots', CallsMayFail)
      BY <1>8, <2>7, <2>8 DEF Good
    <2> QED BY <1>2, <1>7, <1>9, <2>2, <2>9, Step
  <1>11. CASE ~stored
    <2>1. UNCHANGED <<slots, library, made, setting>>
      BY <1>2, <1>5, <1>11
    <2>2. /\ r.entry = q.entry /\ r.handed = q.handed /\ ~r.ok
          /\ r.session = q.session /\ r.fresh = q.fresh /\ r.child = q.child
      BY <1>7, <1>11 DEF KnowsRecord
    \* If no call fails, the library that opened the token stores the key.
    <2>3. ~(~CallsMayFail /\ q.fresh)
      <3>1. ASSUME ~CallsMayFail, q.fresh
            PROVE  SlotIn(L, h) \in L.user /\ SlotIn(L, h) \in L.swk
        BY <1>1, <3>1 DEF Table, Control
      <3> QED BY <1>6, <1>11, <3>1
    <2>4. Table(r, L, slots, CallsMayFail)
      BY <1>1, <2>2, <2>3 DEF Table
    <2>5. Progress(r, L, slots, CallsMayFail)
      BY <1>7, <1>9, <2>2, NoProgress
    <2>6. Good(r, L, slots, CallsMayFail)
      BY <1>8, <2>4, <2>5 DEF Good
    <2> QED BY <1>2, <1>7, <1>9, <2>1, <2>6, StepAlone
  <1> QED BY <1>6, <1>10, <1>11

-----------------------------------------------------------------------------
(* The theorems. *)

\* Every step keeps the invariant.
LEMMA NextInv == TokenLifeInv /\ [TokenLifeNext]_tokenVars => TokenLifeInv'
  <1> SUFFICES ASSUME TokenLifeInv, [TokenLifeNext]_tokenVars  PROVE TokenLifeInv'
    OBVIOUS
  <1>1. CASE UNCHANGED tokenVars
    <2>1. /\ setting' = setting /\ slots' = slots /\ proc' = proc /\ library' = library
          /\ made' = made /\ restarts' = restarts
      BY <1>1 DEF tokenVars
    <2>2. CallsMayFail' = CallsMayFail
      BY <2>1 DEF CallsMayFail
    <2>3. MadeOnce'
      BY <2>1 DEF TokenLifeInv, MadeOnce, Named
    <2> QED BY <2>1, <2>2, <2>3 DEF TokenLifeInv
  <1>2. CASE TokenLifeNext
    <2>1. PICK p \in Processes :
            \/ start(p) \/ C_Initialize(p) \/ C_Finalize(p) \/ \E q \in Processes : fork(p, q)
            \/ PrepareChild(p) \/ application_opens(p) \/ stop(p)
            \/ \E u \in setting.urls : C_OnDemand_KeyLoad(p, u)
            \/ Worker(p)
      BY <1>2 DEF TokenLifeNext
    <2>2. CASE Worker(p)
      BY <2>2, find_keeps, create_keeps, create_fails_keeps, find_again_keeps,
         open_session_keeps, search_keeps, lock_keeps, get_challenge_keeps,
         create_session_keeps, load_fails_keeps, load_key_keeps, unlock_keeps DEF Worker
    <2>3. CASE PrepareChild(p)
      BY <2>3, prepare_child_keeps, prepare_child_session_keeps DEF PrepareChild
    <2> QED
      BY <2>1, <2>2, <2>3, start_keeps, C_Initialize_keeps, C_Finalize_keeps, fork_keeps,
         application_opens_keeps, stop_keeps, C_OnDemand_KeyLoad_keeps
  <1> QED BY <1>1, <1>2

\* What is known of a process, its library and the slots is kept by every step of
\* every process.
THEOREM TokenLifeInvariant == TokenLifeSpec => []TokenLifeInv
  <1> QED BY InitInv, NextInv, PTL DEF TokenLifeSpec

LEMMA InvTypeOK == TokenLifeInv => TokenLifeTypeOK
  <1> SUFFICES ASSUME TokenLifeInv  PROVE TokenLifeTypeOK
    OBVIOUS
  <1>1. \A p \in Processes :
          /\ proc[p].holder = "worker" <=>
               proc[p].pc \in {"load", "load_again", "unlock"} \/ proc[p].create
          /\ proc[p].session => proc[p].entry.there
    BY DEF TokenLifeInv, Good, Control, AgentPcs
  <1> QED BY <1>1 DEF TokenLifeInv, TokenLifeTypeOK, SlotsOK, SlotRecord

LEMMA InvSessions == TokenLifeInv => TableSessionReady
  <1> SUFFICES ASSUME TokenLifeInv, NEW p \in Processes, OwnSession(p)
               PROVE  LET n == SlotOf(p, proc[p].entry.session)
                      IN n # 0 /\ n \in library[p].user /\ matches(slots[n].label)
    BY DEF TableSessionReady
  <1> DEFINE n == SlotIn(library[p], proc[p].entry.session)
  <1>1. Table(proc[p], library[p], slots, CallsMayFail)
    BY Here DEF Good
  <1>2. n \in library[p].user /\ Matching(slots, n)
    BY <1>1 DEF Table, OwnSession
  <1>3. n # 0 /\ matches(slots[n].label)
    BY <1>2 DEF Matching, Named
  <1> QED BY <1>2, <1>3, Views

LEMMA InvSeen == TokenLifeInv => SuccessIsSeen
  <1> SUFFICES ASSUME TokenLifeInv, NEW p \in Processes,
                      proc[p].pc = "returned", proc[p].ok
               PROVE  LET n == SlotOf(p, proc[p].entry.session)
                      IN \/ proc[p].entry.there /\ n # 0 /\ Visible(p, n, proc[p].url)
                         \/ /\ proc[p].url \in proc[p].known \ proc[p].handed
                            /\ CallsMayFail \/ ~proc[p].fresh
    BY DEF SuccessIsSeen
  <1> DEFINE n == SlotIn(library[p], proc[p].entry.session)
  <1>1. /\ Progress(proc[p], library[p], slots, CallsMayFail)
        /\ Table(proc[p], library[p], slots, CallsMayFail)
    BY Here DEF Good
  <1>2. \/ proc[p].entry.there /\ ObjectIn(library[p], slots, n, proc[p].url)
        \/ proc[p].url \in proc[p].known \ proc[p].handed /\ (CallsMayFail \/ ~proc[p].fresh)
    BY <1>1 DEF Progress
  <1>3. ObjectIn(library[p], slots, n, proc[p].url) => n # 0
    BY <1>1 DEF ObjectIn, Table, Named
  <1> QED BY <1>2, <1>3, Views

LEMMA InvUsable == TokenLifeInv => SuccessMeansUsable
  <1> SUFFICES ASSUME TokenLifeInv, NEW p \in Processes,
                      proc[p].pc = "returned", proc[p].ok, proc[p].entry.there
               PROVE  Usable(p, proc[p].entry.session)
    BY DEF SuccessMeansUsable
  <1>1. Progress(proc[p], library[p], slots, CallsMayFail)
    BY Here DEF Good
  <1> QED BY <1>1, Views DEF Progress

LEMMA InvOnce == TokenLifeInv => OneTokenEach
  BY DEF TokenLifeInv, MadeOnce, OneTokenEach

\* Besides the types: whatever processes start, fork, end and load keys, a thread holds
\* the agent's lock exactly while it is in the agent or opens the token for it.
THEOREM TokenLifeTypes == TokenLifeSpec => []TokenLifeTypeOK
  <1> QED BY TokenLifeInvariant, InvTypeOK, PTL

\* However many processes share the tokens, a session of the table that is the
\* process's own is open, logged in, and on a token taken for KMS.
THEOREM SessionsReady == TokenLifeSpec => []TableSessionReady
  <1> QED BY TokenLifeInvariant, InvSessions, PTL

\* A C_OnDemand_KeyLoad that returns CKR_OK leaves an object that can be found, but for
\* a key the agent had and this library never got.
THEOREM SuccessSeen == TokenLifeSpec => []SuccessIsSeen
  <1> QED BY TokenLifeInvariant, InvSeen, PTL

\* And it leaves a session the next load can search with.
THEOREM SuccessUsable == TokenLifeSpec => []SuccessMeansUsable
  <1> QED BY TokenLifeInvariant, InvUsable, PTL

\* Without a C_GetTokenInfo that fails no process makes two tokens, whoever else makes
\* one between its two looks at the slots.
THEOREM TokensMadeOnce == TokenLifeSpec => []OneTokenEach
  <1> QED BY TokenLifeInvariant, InvOnce, PTL

=============================================================================
