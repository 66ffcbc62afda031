------------------------- MODULE ProfileFilesProofs -------------------------
(***************************************************************************)
(* Proofs about ProfileFiles, for any profiles, names and storage faults.   *)
(*                                                                          *)
(* An operation's calls still to come are part of the state, so what they   *)
(* will do is part of the invariant: each gives a file only what it may     *)
(* hold, and an old file is deleted only where its settings are in the new  *)
(* one or are to be written before (CallsSuit); it goes on along the order  *)
(* the operations lay the calls out in (InOrder), with one operation at a   *)
(* time (OneThing).  What a save may write rests on whose settings the live *)
(* ones are between operations (Rested), in a load half done (HalfLoaded)   *)
(* and in one that may yet be given up (LoadToCome).                        *)
(***************************************************************************)
EXTENDS ProfileFiles, SequenceTheorems, TLAPS

\* The calls `todo` is made of.
StorageCalls ==
  [do : {"write", "erase", "deselect", "activate", "remove", "sweep", "migrate", "read"},
   part : Parts, file : Profiles \cup {NoProfile},
   whose : SUBSET Profiles, must : BOOLEAN]

\* The operation under way ends by reading a profile, or by making one active.
EndsIn(what) == todo # <<>> /\ todo[Len(todo)].do = what
ToCome(what) == \E i \in DOMAIN todo : todo[i].do = what

\* The order of the calls: a load's are the last ones, and the last of all reads a
\* profile or makes it the active one.
InOrder(calls) ==
  \A i \in 1 .. Len(calls) :
    /\ calls[i].do \in {"read", "activate"} <=> i = Len(calls)
    /\ calls[i].do = "migrate" => i < Len(calls) /\ calls[i + 1].do = "read"
    /\ calls[i].do = "sweep" => i < Len(calls) /\ calls[i + 1].do = "migrate"
    /\ calls[i].do = "deselect" => i < Len(calls) /\ calls[i + 1].do = "sweep"
    /\ calls[i].do \in {"write", "erase", "deselect", "activate", "remove"} =>
          calls[i].file \in Profiles
    /\ calls[i].do = "write" => calls[i].whose \in SUBSET Profiles
    /\ calls[i].must => calls[Len(calls)].do = "activate"

\* While an operation is under way no save is due; a pick waits only for a save, and a
\* load half done for nothing.
OneThing ==
  /\ due => todo = <<>>
  /\ picked # NoProfile => load = NoLoad /\ (todo = <<>> \/ EndsIn("activate"))
  /\ load # NoLoad => todo = <<>> /\ ~due /\ load.file = selected

\* A text of nobody's settings is none.
Texts ==
  /\ \A p \in Parts, f \in Profiles :
       NoProfile \in disk[p][f].whose => disk[p][f] = NoText
  /\ NoProfile \in load.side.whose => load.side = NoText

\* The settings a profile is kept for are in its file; but for what the storage failed.
InFile(f) == f \notin kept \/ f \in failed \/ f \in disk["usd"][f].whose
AllInFiles == \A f \in Profiles : InFile(f) \/ (f \in legacy /\ ~OnDisk("usd", f))

\* What a profile's file may be given: nothing but its own settings and those it was
\* laid over, and its own where something of the player's is to be kept.
MayHold(part, f, whose) ==
  \/ f \in failed
  \/ whose \subseteq Mine(f) /\ (part = "usd" /\ f \in kept => f \in whose)
Own(f) == \A p \in Parts : MayHold(p, f, live[p])

\* The profile's own settings are among the live ones, if there is anything to keep.
StillLive(f) == f \in failed \/ f \notin kept \/ f \in live["usd"]

\* A write that takes the profile's own settings over.
WritesOwn(call, f) ==
  call.do = "write" /\ call.part = "usd" /\ call.file = f /\ f \in call.whose

\* Every call still to be made gives a file only what it may hold; an old file is
\* deleted where its settings are in the new one, or are written first.
CallSuits(call) ==
  /\ call.do = "write" => MayHold(call.part, call.file, call.whose)
  /\ call.do = "erase" => call.file \notin kept
  /\ call.do = "activate" => call.file = selected /\ Own(selected)
  /\ call.must /\ active # NoProfile => Own(active)
RemovalSuits(calls, i) ==
  calls[i].do = "remove" =>
    \/ InFile(calls[i].file)
    \/ \E j \in 1 .. i - 1 : WritesOwn(calls[j], calls[i].file)
CallsSuit == \A i \in 1 .. Len(todo) : CallSuits(todo[i]) /\ RemovalSuits(todo, i)

\* Between operations the live settings are those of the active profile, and a save of
\* the selected one is refused or is of its own settings.
Rested ==
  todo = <<>> /\ load = NoLoad =>
    /\ active # NoProfile => Own(active)
    /\ NeverLoaded \/ Unreadable(selected) \/ Own(selected)

\* A load half done has taken in, and still is to take in, only its own profile's.
HalfLoaded ==
  load # NoLoad =>
    /\ MayHold("usd", load.file, live["usd"])
    /\ load.side = NoText \/ MayHold("side", load.file, load.side.whose)

\* A load still to come: until it takes an old file in the live settings are the active
\* profile's, which stay among them then, and once it does not any more the selected
\* one's are in its file, or to be written there.
LoadToCome ==
  EndsIn("read") =>
    /\ active # NoProfile /\ (ToCome("migrate") \/ Unreadable(selected)) => Own(active)
    /\ active # NoProfile => StillLive(active)
    /\ ~ToCome("migrate") =>
         InFile(selected) \/ \E j \in 1 .. Len(todo) : WritesOwn(todo[j], selected)

ProfileInv ==
  /\ ProfileTypeOK /\ Texts /\ InOrder(todo) /\ OneThing /\ AllInFiles /\ ProfilesApart
  /\ CallsSuit /\ Rested /\ HalfLoaded /\ LoadToCome

-----------------------------------------------------------------------------
\* The calls to come, their first and the rest.
LEMMA TodoIs ==
  ASSUME ProfileTypeOK
  PROVE  /\ Len(todo) \in Nat /\ DOMAIN todo = 1 .. Len(todo)
         /\ todo = <<>> <=> Len(todo) = 0
         /\ todo \in Seq(StorageCalls)
         /\ \A i \in 1 .. Len(todo) : todo[i] \in StorageCalls
         /\ todo # <<>> =>
              /\ Next1 = todo[1] /\ Next1 \in StorageCalls /\ 1 <= Len(todo)
              /\ Tail(todo) \in Seq(StorageCalls)
              /\ Len(Tail(todo)) = Len(todo) - 1
              /\ \A i \in 1 .. Len(todo) - 1 : Tail(todo)[i] = todo[i + 1]
              /\ Tail(todo) = <<>> <=> Len(todo) = 1
<1>1. todo \in Seq(StorageCalls)
  BY DEF ProfileTypeOK, StorageCalls
<1>2. Len(todo) \in Nat /\ DOMAIN todo = 1 .. Len(todo) /\ (todo = <<>> <=> Len(todo) = 0)
  BY <1>1
<1>3. \A i \in 1 .. Len(todo) : todo[i] \in StorageCalls
  BY <1>1, <1>2
<1>4. ASSUME todo # <<>>
      PROVE  /\ Next1 = todo[1] /\ Next1 \in StorageCalls /\ 1 <= Len(todo)
             /\ Tail(todo) \in Seq(StorageCalls)
             /\ Len(Tail(todo)) = Len(todo) - 1
             /\ \A i \in 1 .. Len(todo) - 1 : Tail(todo)[i] = todo[i + 1]
             /\ Tail(todo) = <<>> <=> Len(todo) = 1
  <2>1. Next1 = todo[1] /\ 1 <= Len(todo)
    BY <1>1, <1>2, <1>4 DEF Next1
  <2>2. /\ Tail(todo) \in Seq(StorageCalls)
        /\ Len(Tail(todo)) = Len(todo) - 1
        /\ \A i \in 1 .. Len(todo) - 1 : Tail(todo)[i] = todo[i + 1]
    BY <1>1, <1>4, HeadTailProperties
  <2>3. Tail(todo) = <<>> <=> Len(Tail(todo)) = 0
    BY <2>2
  <2> QED
    BY <1>2, <1>3, <2>1, <2>2, <2>3
<1> QED
  BY <1>1, <1>2, <1>3, <1>4

\* Calls laid out before others.
LEMMA JoinIs ==
  ASSUME NEW s \in Seq(StorageCalls), NEW t \in Seq(StorageCalls)
  PROVE  /\ s \o t \in Seq(StorageCalls)
         /\ Len(s) \in Nat /\ Len(t) \in Nat
         /\ Len(s \o t) = Len(s) + Len(t)
         /\ \A i \in 1 .. Len(s) : (s \o t)[i] = s[i]
         /\ \A i \in 1 .. Len(t) : (s \o t)[Len(s) + i] = t[i]
         /\ \A i \in Len(s) + 1 .. Len(s) + Len(t) : (s \o t)[i] = t[i - Len(s)]
  OBVIOUS

\* What an operation lays out is a storage call.
LEMMA CallIs ==
  ASSUME NEW file \in Profiles, NEW other \in Profiles \cup {NoProfile}
  PROVE  /\ \A part \in Parts, whose \in SUBSET Profiles, must \in BOOLEAN :
              Write(part, file, whose, must) \in StorageCalls
         /\ \A part \in Parts : Erase(part, file) \in StorageCalls
         /\ \A what \in {"deselect", "activate", "remove", "sweep", "migrate", "read"} :
              Do(what, other) \in StorageCalls
  BY DEF Write, Erase, Do, StorageCalls, Parts, Shipped

\* A load's calls.
LEMMA LoadingIs ==
  /\ Loading \in Seq(StorageCalls) /\ Len(Loading) = 3
  /\ Loading[1] = Do("sweep", NoProfile)
  /\ Loading[2] = Do("migrate", NoProfile)
  /\ Loading[3] = Do("read", NoProfile)
<1>1. \A what \in {"sweep", "migrate", "read"} : Do(what, NoProfile) \in StorageCalls
  BY DEF Do, StorageCalls, Parts, Shipped
<1> QED
  BY <1>1 DEF Loading

\* A sequence of three.
LEMMA ThreeAre ==
  ASSUME NEW S, NEW a \in S, NEW b \in S, NEW c \in S
  PROVE  /\ <<a, b, c>> \in Seq(S) /\ Len(<<a, b, c>>) = 3
         /\ <<a, b, c>>[1] = a /\ <<a, b, c>>[2] = b /\ <<a, b, c>>[3] = c
  OBVIOUS

\* A migration's calls.
LEMMA MigrationIs ==
  ASSUME NEW file \in Profiles, NEW w \in [Parts -> SUBSET Profiles]
  PROVE  /\ Migration(file, w) \in Seq(StorageCalls) /\ Len(Migration(file, w)) = 3
         /\ Migration(file, w)[1] = Write("usd", file, w["usd"], FALSE)
         /\ Migration(file, w)[2] = Write("side", file, w["side"], FALSE)
         /\ Migration(file, w)[3] = Do("remove", file)
<1>1. /\ \A part \in Parts : Write(part, file, w[part], FALSE) \in StorageCalls
      /\ Do("remove", file) \in StorageCalls
  BY CallIs
<1>2. /\ Write("usd", file, w["usd"], FALSE) \in StorageCalls
      /\ Write("side", file, w["side"], FALSE) \in StorageCalls
  BY <1>1 DEF Parts
<1> DEFINE a == Write("usd", file, w["usd"], FALSE)
           b == Write("side", file, w["side"], FALSE)
           c == Do("remove", file)
<1>3. Migration(file, w) = <<a, b, c>>
  BY Zenon DEF Migration
<1>4. a \in StorageCalls /\ b \in StorageCalls /\ c \in StorageCalls
  BY <1>1, <1>2
<1>5. /\ <<a, b, c>> \in Seq(StorageCalls) /\ Len(<<a, b, c>>) = 3
      /\ <<a, b, c>>[1] = a /\ <<a, b, c>>[2] = b /\ <<a, b, c>>[3] = c
  <2> HIDE DEF a, b, c
  <2> QED
    BY <1>4, ThreeAre, Zenon
<1> QED
  BY <1>3, <1>5, Zenon

\* The type invariant but for the calls.
TypedButTodo ==
  /\ disk \in [Parts -> [Profiles ->
              [whose : SUBSET (Profiles \cup {NoProfile}), readable : BOOLEAN]]]
  /\ legacy \subseteq Profiles
  /\ selected \in Profiles
  /\ active \in Profiles \cup {NoProfile}
  /\ live \in [Parts -> SUBSET Profiles]
  /\ load \in [file : Profiles \cup {NoProfile},
               side : [whose : SUBSET (Profiles \cup {NoProfile}), readable : BOOLEAN]]
  /\ picked \in Profiles \cup {NoProfile}
  /\ due \in BOOLEAN
  /\ toSweep \subseteq NamedProfiles
  /\ kept \subseteq Profiles
  /\ laidOver \subseteq Profiles \X Profiles
  /\ failed \subseteq Profiles

\* The type invariant in two parts.
LEMMA ProfileTypeIs == ProfileTypeOK <=> TypedButTodo /\ todo \in Seq(StorageCalls)
  BY Zenon DEF ProfileTypeOK, TypedButTodo, StorageCalls

\* What the call about to be made may do.
LEMMA HeadIs ==
  ASSUME ProfileInv, todo # <<>>
  PROVE  /\ Next1.part \in Parts
         /\ Next1.do \in {"write", "erase", "deselect", "activate", "remove"} =>
              Next1.file \in Profiles
         /\ Next1.do = "write" => /\ Next1.whose \in SUBSET Profiles
                                  /\ MayHold(Next1.part, Next1.file, Next1.whose)
         /\ Next1.do = "erase" => Next1.file \notin kept
         /\ Next1.do = "remove" => InFile(Next1.file)
         /\ Next1.do = "activate" => Next1.file = selected /\ Own(selected)
         /\ Next1.do \in {"read", "activate"} => Tail(todo) = <<>>
         /\ Next1.do \notin {"read", "activate"} => Tail(todo) # <<>>
<1>1. ProfileTypeOK
  BY DEF ProfileInv
<1>2. 1 \in 1 .. Len(todo) /\ Next1 = todo[1] /\ Next1 \in StorageCalls
  BY <1>1, TodoIs
<1>3. Tail(todo) = <<>> <=> Len(todo) = 1
  BY <1>1, TodoIs
<1>4. Next1.part \in Parts
  BY <1>2 DEF StorageCalls
<1>5. ~\E j \in 1 .. 1 - 1 : TRUE
  OBVIOUS
<1> QED
  BY <1>2, <1>3, <1>4, <1>5 DEF ProfileInv, InOrder, CallsSuit, CallSuits, RemovalSuits

\* The calls after the first.
LEMMA RestIs ==
  ASSUME NEW q \in Seq(StorageCalls), q # <<>>
  PROVE  /\ Len(q) \in Nat /\ 1 <= Len(q) /\ q[1] \in StorageCalls
         /\ Tail(q) \in Seq(StorageCalls)
         /\ Len(Tail(q)) = Len(q) - 1
         /\ \A i \in 1 .. Len(q) - 1 : Tail(q)[i] = q[i + 1]
<1>1. Len(q) \in Nat /\ 1 <= Len(q) /\ q[1] \in StorageCalls
  OBVIOUS
<1>2. /\ Tail(q) \in Seq(StorageCalls)
      /\ Len(Tail(q)) = Len(q) - 1
      /\ \A i \in 1 .. Len(q) - 1 : Tail(q)[i] = q[i + 1]
  OBVIOUS
<1> QED
  BY <1>1, <1>2

\* The calls after the first keep the order.
LEMMA TailInOrder ==
  ASSUME NEW q \in Seq(StorageCalls), q # <<>>, InOrder(q)
  PROVE  InOrder(Tail(q))
<1> DEFINE t == Tail(q)
           n == Len(q)
<1>1. /\ n \in Nat /\ 1 <= n /\ Len(t) = n - 1
      /\ \A i \in 1 .. n - 1 : t[i] = q[i + 1]
  OBVIOUS
<1> HIDE DEF t, n
<1> SUFFICES ASSUME NEW i \in 1 .. n - 1
    PROVE  /\ t[i].do \in {"read", "activate"} <=> i = n - 1
           /\ t[i].do = "migrate" => i < n - 1 /\ t[i + 1].do = "read"
           /\ t[i].do = "sweep" => i < n - 1 /\ t[i + 1].do = "migrate"
           /\ t[i].do = "deselect" => i < n - 1 /\ t[i + 1].do = "sweep"
           /\ t[i].do \in {"write", "erase", "deselect", "activate", "remove"} =>
                t[i].file \in Profiles
           /\ t[i].do = "write" => t[i].whose \in SUBSET Profiles
           /\ t[i].must => t[n - 1].do = "activate"
  BY <1>1 DEF InOrder
<1>2. t[i] = q[i + 1] /\ t[n - 1] = q[n] /\ (i < n - 1 => t[i + 1] = q[i + 2])
  BY <1>1
<1>3. i + 1 \in 1 .. n
  BY <1>1
<1> QED
  BY <1>1, <1>2, <1>3 DEF InOrder, n

\* Writes, deletions and a change of selection before calls in order keep it.
LEMMA JoinInOrder ==
  ASSUME NEW s \in Seq(StorageCalls), NEW q \in Seq(StorageCalls), q # <<>>, InOrder(q),
         \A i \in 1 .. Len(s) :
           /\ s[i].do \in {"write", "erase", "remove", "deselect"}
           /\ s[i].do = "deselect" => i = Len(s) /\ q[1].do = "sweep"
           /\ s[i].file \in Profiles
           /\ s[i].do = "write" => s[i].whose \in SUBSET Profiles
           /\ ~s[i].must
  PROVE  InOrder(s \o q)
<1> DEFINE t == s \o q
           m == Len(s)
           n == Len(q)
<1>1. /\ m \in Nat /\ n \in Nat /\ 1 <= n /\ Len(t) = m + n
      /\ \A i \in 1 .. m : t[i] = s[i]
      /\ \A i \in m + 1 .. m + n : t[i] = q[i - m]
  OBVIOUS
<1>5. \A i \in 1 .. m :
        /\ s[i].do \in {"write", "erase", "remove", "deselect"}
        /\ s[i].do = "deselect" => i = m /\ q[1].do = "sweep"
        /\ s[i].file \in Profiles
        /\ s[i].do = "write" => s[i].whose \in SUBSET Profiles
        /\ ~s[i].must
  OBVIOUS
<1>2. \A i \in 1 .. n :
        /\ q[i].do \in {"read", "activate"} <=> i = n
        /\ q[i].do = "migrate" => i < n /\ q[i + 1].do = "read"
        /\ q[i].do = "sweep" => i < n /\ q[i + 1].do = "migrate"
        /\ q[i].do = "deselect" => i < n /\ q[i + 1].do = "sweep"
        /\ q[i].do \in {"write", "erase", "deselect", "activate", "remove"} =>
             q[i].file \in Profiles
        /\ q[i].do = "write" => q[i].whose \in SUBSET Profiles
        /\ q[i].must => q[n].do = "activate"
  BY DEF InOrder
<1> SUFFICES InOrder(t)
  OBVIOUS
<1> HIDE DEF t, m, n
<1> SUFFICES ASSUME NEW i \in 1 .. m + n
    PROVE  /\ t[i].do \in {"read", "activate"} <=> i = m + n
           /\ t[i].do = "migrate" => i < m + n /\ t[i + 1].do = "read"
           /\ t[i].do = "sweep" => i < m + n /\ t[i + 1].do = "migrate"
           /\ t[i].do = "deselect" => i < m + n /\ t[i + 1].do = "sweep"
           /\ t[i].do \in {"write", "erase", "deselect", "activate", "remove"} =>
                t[i].file \in Profiles
           /\ t[i].do = "write" => t[i].whose \in SUBSET Profiles
           /\ t[i].must => t[m + n].do = "activate"
  BY <1>1 DEF InOrder
<1>3. CASE i <= m
  <2>1. i \in 1 .. m /\ t[i] = s[i]
    BY <1>1, <1>3
  <2>2. i = m => i + 1 \in m + 1 .. m + n /\ i + 1 - m = 1
    BY <1>1
  <2>3. i = m => t[i + 1] = q[1]
    BY <1>1, <2>2
  <2>4. i < m + n /\ i # m + n
    BY <1>1, <1>3
  <2>5. /\ s[i].do \in {"write", "erase", "remove", "deselect"}
        /\ s[i].do = "deselect" => i = m /\ q[1].do = "sweep"
        /\ s[i].file \in Profiles
        /\ s[i].do = "write" => s[i].whose \in SUBSET Profiles
        /\ ~s[i].must
    BY <1>5, <2>1
  <2> QED
    BY <2>1, <2>3, <2>4, <2>5
<1>4. CASE m < i
  <2>1. i - m \in 1 .. n /\ i \in m + 1 .. m + n
    BY <1>1, <1>4
  <2>2. m + n \in m + 1 .. m + n /\ m + n - m = n
    BY <1>1
  <2>3. t[i] = q[i - m] /\ t[m + n] = q[n]
    BY <1>1, <2>1, <2>2
  <2>4. i < m + n => i + 1 \in m + 1 .. m + n /\ i + 1 - m = i - m + 1
    BY <1>1, <1>4
  <2>5. i < m + n => t[i + 1] = q[i - m + 1]
    BY <1>1, <2>4
  <2>6. (i = m + n <=> i - m = n) /\ (i < m + n <=> i - m < n)
    BY <1>1
  <2> QED
    BY <1>2, <2>1, <2>3, <2>5, <2>6
<1> QED
  BY <1>1, <1>3, <1>4

\* A load's calls are in order.
LEMMA LoadingInOrder == InOrder(Loading)
  BY LoadingIs DEF InOrder, Do

\* Whatever is not a load ends by making its profile the active one.
LEMMA ThreeInOrder ==
  ASSUME NEW file \in Profiles, NEW usd \in SUBSET Profiles,
         NEW side \in SUBSET Profiles, NEW must \in BOOLEAN,
         NEW q, q = <<Write("usd", file, usd, must), Write("side", file, side, must),
                      Do("activate", file)>>
  PROVE  /\ q \in Seq(StorageCalls) /\ Len(q) = 3
         /\ q[1] = Write("usd", file, usd, must)
         /\ q[2] = Write("side", file, side, must)
         /\ q[3] = Do("activate", file)
         /\ InOrder(q)
<1>1. /\ Write("usd", file, usd, must) \in StorageCalls
      /\ Write("side", file, side, must) \in StorageCalls
      /\ Do("activate", file) \in StorageCalls
  BY CallIs DEF Parts
<1>2. /\ q \in Seq(StorageCalls) /\ Len(q) = 3
      /\ q[1] = Write("usd", file, usd, must)
      /\ q[2] = Write("side", file, side, must)
      /\ q[3] = Do("activate", file)
  BY <1>1
<1>3. InOrder(q)
  BY <1>2 DEF InOrder, Write, Do
<1> QED
  BY <1>2, <1>3

\* Every operation ends in a load's read or a profile made active, and the call about to
\* be made tells which.
LEMMA LastIs ==
  ASSUME ProfileInv, todo # <<>>
  PROVE  /\ EndsIn("read") <=> ~EndsIn("activate")
         /\ Next1.do \in {"deselect", "sweep", "migrate", "read"} => EndsIn("read")
         /\ Next1.do = "activate" \/ Next1.must => EndsIn("activate")
         /\ Tail(todo) # <<>> => Tail(todo)[Len(Tail(todo))] = todo[Len(todo)]
<1>1. ProfileTypeOK /\ InOrder(todo)
  BY DEF ProfileInv
<1>2. /\ Len(todo) \in Nat /\ 1 <= Len(todo) /\ Next1 = todo[1]
      /\ Len(Tail(todo)) = Len(todo) - 1
      /\ \A i \in 1 .. Len(todo) - 1 : Tail(todo)[i] = todo[i + 1]
      /\ Tail(todo) = <<>> <=> Len(todo) = 1
  BY <1>1, TodoIs
<1>3. 1 \in 1 .. Len(todo) /\ Len(todo) \in 1 .. Len(todo)
  BY <1>2
<1>4. todo[Len(todo)].do \in {"read", "activate"}
  BY <1>1, <1>3 DEF InOrder
<1>5. EndsIn("read") <=> ~EndsIn("activate")
  BY <1>4 DEF EndsIn
<1>6. todo[1].do = "read" => 1 = Len(todo)
  BY <1>1, <1>3 DEF InOrder
<1>7. 1 < Len(todo) => 2 \in 1 .. Len(todo)
  BY <1>2
<1>8. todo[1].do = "migrate" => 1 < Len(todo) /\ todo[2].do = "read"
  BY <1>1, <1>3 DEF InOrder
<1>9. 1 < Len(todo) /\ todo[2].do = "read" => 2 = Len(todo)
  BY <1>1, <1>7 DEF InOrder
<1>10. 2 < Len(todo) => 3 \in 1 .. Len(todo)
  BY <1>2
<1>11. 2 < Len(todo) /\ todo[3].do = "read" => 3 = Len(todo)
  BY <1>1, <1>10 DEF InOrder
<1>12. todo[1].do = "sweep" => 1 < Len(todo) /\ todo[2].do = "migrate"
  BY <1>1, <1>3 DEF InOrder
<1>13. 1 < Len(todo) /\ todo[2].do = "migrate" => 2 < Len(todo) /\ todo[3].do = "read"
  BY <1>1, <1>7 DEF InOrder
<1>14. todo[1].do = "deselect" => 1 < Len(todo) /\ todo[2].do = "sweep"
  BY <1>1, <1>3 DEF InOrder
<1>15. 1 < Len(todo) /\ todo[2].do = "sweep" => 2 < Len(todo) /\ todo[3].do = "migrate"
  BY <1>1, <1>7 DEF InOrder
<1>16. 2 < Len(todo) /\ todo[3].do = "migrate" => 3 < Len(todo) /\ todo[4].do = "read"
  BY <1>1, <1>10 DEF InOrder
<1>17. 3 < Len(todo) => 4 \in 1 .. Len(todo)
  BY <1>2
<1>18. 3 < Len(todo) /\ todo[4].do = "read" => 4 = Len(todo)
  BY <1>1, <1>17 DEF InOrder
<1>19. Next1.do \in {"deselect", "sweep", "migrate", "read"} => todo[Len(todo)].do = "read"
  BY <1>2, <1>6, <1>8, <1>9, <1>11, <1>12, <1>13, <1>14, <1>15, <1>16, <1>18
<1>20. Next1.do = "activate" \/ Next1.must => todo[Len(todo)].do = "activate"
  BY <1>1, <1>2, <1>3 DEF InOrder
<1>21. Tail(todo) # <<>> => Tail(todo)[Len(Tail(todo))] = todo[Len(todo)]
  BY <1>2
<1> QED
  BY <1>5, <1>19, <1>20, <1>21 DEF EndsIn

\* Every step keeps the types.
\* One file gets a text.
LEMMA TextGiven ==
  ASSUME ProfileInv, NEW p \in Parts, NEW f \in Profiles,
         NEW text \in [whose : SUBSET (Profiles \cup {NoProfile}), readable : BOOLEAN],
         NoProfile \in text.whose => text = NoText,
         disk' = [disk EXCEPT ![p][f] = text],
         UNCHANGED <<legacy, kept, laidOver, failed, selected, active, live, load, picked, due,
                     toSweep>>
  PROVE  (TypedButTodo /\ Texts)'
<1>1. TypedButTodo /\ Texts
  BY ProfileTypeIs DEF ProfileInv
<1>2. disk' \in [Parts -> [Profiles ->
                   [whose : SUBSET (Profiles \cup {NoProfile}), readable : BOOLEAN]]]
  BY <1>1 DEF TypedButTodo
<1>3. ASSUME NEW q \in Parts, NEW g \in Profiles
      PROVE  NoProfile \in disk'[q][g].whose => disk'[q][g] = NoText
  BY <1>1 DEF TypedButTodo, Texts
<1>4. NoProfile \in load'.side.whose => load'.side = NoText
  BY <1>1 DEF Texts
<1>5. Texts'
  BY <1>3, <1>4 DEF Texts, NoText, Text
<1> QED
  BY <1>1, <1>2, <1>5 DEF TypedButTodo

LEMMA ProfileTypeStep ==
  ASSUME ProfileInv, ProfileNext
  PROVE  (TypedButTodo /\ Texts)'
<1>1. ASSUME OptionChanged PROVE (TypedButTodo /\ Texts)'
  BY <1>1, ProfileTypeIs DEF ProfileInv, TypedButTodo, Texts, OptionChanged, diskVars
<1>2. ASSUME ClearProfile PROVE (TypedButTodo /\ Texts)'
  BY <1>2, ProfileTypeIs
    DEF ProfileInv, TypedButTodo, Texts, ClearProfile, LaysOver, Parts, Shipped
<1>3. ASSUME NEW file \in Profiles, Restart(file) PROVE (TypedButTodo /\ Texts)'
  BY <1>3, ProfileTypeIs
    DEF ProfileInv, TypedButTodo, Texts, NoLoad, NoText, Text, Restart, diskVars, Shipped
<1>4. ASSUME NEW file \in Profiles, BindCharacter(file) PROVE (TypedButTodo /\ Texts)'
  BY <1>4, ProfileTypeIs DEF ProfileInv, TypedButTodo, Texts, BindCharacter, diskVars
<1>5. ASSUME NEW file \in Profiles, PickProfile(file) PROVE (TypedButTodo /\ Texts)'
  BY <1>5, ProfileTypeIs DEF ProfileInv, TypedButTodo, Texts, PickProfile, diskVars
<1>6. ASSUME NEW file \in Profiles, CopyProfile(file) PROVE (TypedButTodo /\ Texts)'
  BY <1>6, ProfileTypeIs DEF ProfileInv, TypedButTodo, Texts, CopyProfile, OnlyOf
<1>7. ASSUME NEW file \in Profiles, DeleteProfile(file) PROVE (TypedButTodo /\ Texts)'
  BY <1>7, ProfileTypeIs DEF ProfileInv, TypedButTodo, Texts, DeleteProfile
<1>8. ASSUME SaveRefused PROVE (TypedButTodo /\ Texts)'
  BY <1>8, ProfileTypeIs DEF ProfileInv, TypedButTodo, Texts, SaveRefused, Preserve
<1>9. ASSUME Save PROVE (TypedButTodo /\ Texts)'
  BY <1>9, ProfileTypeIs DEF ProfileInv, TypedButTodo, Texts, Save, diskVars
<1>10. ASSUME PickSelects PROVE (TypedButTodo /\ Texts)'
  BY <1>10, ProfileTypeIs DEF ProfileInv, TypedButTodo, Texts, PickSelects, diskVars
<1>11. ASSUME Writes PROVE (TypedButTodo /\ Texts)'
  <2>1. /\ Next1.part \in Parts /\ Next1.file \in Profiles
        /\ Next1.whose \in SUBSET Profiles
    BY <1>11, HeadIs DEF Writes, Doing
  <2>2. /\ disk' = [disk EXCEPT ![Next1.part][Next1.file] = Text(Next1.whose, TRUE)]
        /\ UNCHANGED <<legacy, kept, laidOver, failed, selected, active, live, load,
                       picked, due, toSweep>>
    BY <1>11 DEF Writes
  <2>3. NoProfile \notin Next1.whose
    BY <2>1, ProfileAssumption
  <2>4. /\ Text(Next1.whose, TRUE) \in
             [whose : SUBSET (Profiles \cup {NoProfile}), readable : BOOLEAN]
        /\ NoProfile \notin Text(Next1.whose, TRUE).whose
    BY <2>1, <2>3 DEF Text
  <2> QED
    BY <2>1, <2>2, <2>4, TextGiven
<1>12. ASSUME WriteFails PROVE (TypedButTodo /\ Texts)'
  BY <1>12, ProfileTypeIs DEF ProfileInv, TypedButTodo, Texts, WriteFails, StorageFails
<1>13. ASSUME Erases PROVE (TypedButTodo /\ Texts)'
  <2>1. Next1.part \in Parts /\ Next1.file \in Profiles
    BY <1>13, HeadIs DEF Erases, Doing
  <2>2. /\ disk' = [disk EXCEPT ![Next1.part][Next1.file] = NoText]
        /\ UNCHANGED <<legacy, kept, laidOver, failed, selected, active, live, load,
                       picked, due, toSweep>>
    BY <1>13 DEF Erases
  <2>3. NoText \in [whose : SUBSET (Profiles \cup {NoProfile}), readable : BOOLEAN]
    BY DEF NoText, Text
  <2> QED
    BY <2>1, <2>2, <2>3, TextGiven
<1>14. ASSUME Deselects PROVE (TypedButTodo /\ Texts)'
  BY <1>14, ProfileTypeIs, HeadIs
    DEF ProfileInv, TypedButTodo, Texts, Deselects, Doing, diskVars
<1>15. ASSUME Activates PROVE (TypedButTodo /\ Texts)'
  BY <1>15, ProfileTypeIs, HeadIs
    DEF ProfileInv, TypedButTodo, Texts, Activates, Doing, diskVars
<1>16. ASSUME RemovesOld PROVE (TypedButTodo /\ Texts)'
  BY <1>16, ProfileTypeIs DEF ProfileInv, TypedButTodo, Texts, RemovesOld
<1>17. ASSUME NEW file \in Profiles, Sweeps(file) PROVE (TypedButTodo /\ Texts)'
  BY <1>17, ProfileTypeIs DEF ProfileInv, TypedButTodo, Texts, Sweeps, diskVars
<1>18. ASSUME NEW file \in Profiles, SweepUnread(file) PROVE (TypedButTodo /\ Texts)'
  BY <1>18, ProfileTypeIs DEF ProfileInv, TypedButTodo, Texts, SweepUnread, diskVars
<1>19. ASSUME NEW file \in Profiles, SweepFails(file) PROVE (TypedButTodo /\ Texts)'
  BY <1>19, ProfileTypeIs DEF ProfileInv, TypedButTodo, Texts, SweepFails, StorageFails
<1>20. ASSUME Swept PROVE (TypedButTodo /\ Texts)'
  BY <1>20, ProfileTypeIs DEF ProfileInv, TypedButTodo, Texts, Swept, diskVars
<1>21. ASSUME Migrates PROVE (TypedButTodo /\ Texts)'
  <2>1. \/ UNCHANGED <<live, laidOver>>
        \/ /\ live' = [p \in Parts |-> live[p] \cup {selected}]
           /\ LaysOver(live["usd"] \cup live["side"])
    BY <1>21 DEF Migrates
  <2>2. UNCHANGED <<disk, legacy, kept, failed, selected, active, load, picked, due,
          toSweep>>
    BY <1>21 DEF Migrates, diskVars
  <2>3. TypedButTodo /\ Texts
    BY ProfileTypeIs DEF ProfileInv
  <2>4. live' \in [Parts -> SUBSET Profiles]
    BY <2>1, <2>3 DEF TypedButTodo
  <2>5. laidOver' \subseteq Profiles \X Profiles
    BY <2>1, <2>3 DEF TypedButTodo, LaysOver, Parts
  <2> QED
    BY <2>2, <2>3, <2>4, <2>5 DEF TypedButTodo, Texts
<1>22. ASSUME MigratesUnread PROVE (TypedButTodo /\ Texts)'
  BY <1>22, ProfileTypeIs DEF ProfileInv, TypedButTodo, Texts, MigratesUnread, StorageFails
<1>23. ASSUME ReadsNone PROVE (TypedButTodo /\ Texts)'
  BY <1>23, ProfileTypeIs
    DEF ProfileInv, TypedButTodo, Texts, NoText, Text, ReadsNone, diskVars, LaysOver,
        Parts
<1>24. ASSUME ReadsBad PROVE (TypedButTodo /\ Texts)'
  BY <1>24, ProfileTypeIs DEF ProfileInv, TypedButTodo, Texts, ReadsBad, Preserve
<1>25. ASSUME Reads PROVE (TypedButTodo /\ Texts)'
  <2>1. /\ disk["usd"][selected].whose \in SUBSET Profiles
        /\ disk["side"][selected] \in
             [whose : SUBSET (Profiles \cup {NoProfile}), readable : BOOLEAN]
        /\ NoText \in [whose : SUBSET (Profiles \cup {NoProfile}), readable : BOOLEAN]
        /\ NoProfile \in disk["side"][selected].whose => disk["side"][selected] = NoText
    <3>1. TypedButTodo /\ Texts /\ OnDisk("usd", selected)
      BY <1>25, ProfileTypeIs DEF Reads, ProfileInv
    <3>2. "usd" \in Parts /\ "side" \in Parts
      BY DEF Parts
    <3>3. /\ \A q \in Parts : disk[q][selected] \in
               [whose : SUBSET (Profiles \cup {NoProfile}), readable : BOOLEAN]
          /\ \A q \in Parts : NoProfile \in disk[q][selected].whose =>
                              disk[q][selected] = NoText
      BY <3>1 DEF TypedButTodo, Texts
    <3>4. NoProfile \notin disk["usd"][selected].whose
      BY <3>1, <3>2, <3>3 DEF OnDisk
    <3>5. disk["usd"][selected].whose \in SUBSET Profiles
      BY <3>2, <3>3, <3>4
    <3>6. NoText \in [whose : SUBSET (Profiles \cup {NoProfile}), readable : BOOLEAN]
      BY DEF NoText, Text
    <3> QED
      BY <3>2, <3>3, <3>5, <3>6
  <2>2. PICK side \in {disk["side"][selected], NoText} :
          load' = [file |-> selected, side |-> side]
    BY <1>25 DEF Reads
  <2>3. PICK stay \in {{}, live["usd"]} :
          /\ live' = [live EXCEPT !["usd"] = disk["usd"][selected].whose \cup stay]
          /\ LaysOver(stay)
    BY <1>25 DEF Reads
  <2>4. TypedButTodo /\ Texts /\ stay \in SUBSET Profiles
    BY ProfileTypeIs DEF ProfileInv, TypedButTodo, Parts
  <2>5. live' \in [Parts -> SUBSET Profiles] /\ laidOver' \subseteq Profiles \X Profiles
    BY <2>1, <2>3, <2>4 DEF TypedButTodo, LaysOver
  <2>6. /\ load' \in [file : Profiles \cup {NoProfile},
               side : [whose : SUBSET (Profiles \cup {NoProfile}), readable : BOOLEAN]]
        /\ NoProfile \in load'.side.whose => load'.side = NoText
    BY <2>1, <2>2, <2>4 DEF TypedButTodo
  <2>7. UNCHANGED <<disk, legacy, kept, failed, selected, active, picked, due, toSweep>>
    BY <1>25 DEF Reads, diskVars
  <2> QED
    BY <2>4, <2>5, <2>6, <2>7 DEF TypedButTodo, Texts
<1>26. ASSUME ReadFails PROVE (TypedButTodo /\ Texts)'
  BY <1>26, ProfileTypeIs
    DEF ProfileInv, TypedButTodo, Texts, ReadFails, StorageFails, LeftActive
<1>27. ASSUME TakesSideCar PROVE (TypedButTodo /\ Texts)'
  BY <1>27, ProfileTypeIs
    DEF ProfileInv, TypedButTodo, Texts, NoLoad, NoText, Text, TakesSideCar, diskVars,
        Shipped
<1> QED
  BY <1>1, <1>2, <1>3, <1>4, <1>5, <1>6, <1>7, <1>8, <1>9, <1>10, <1>11, <1>12,
     <1>13, <1>14, <1>15, <1>16, <1>17, <1>18, <1>19, <1>20, <1>21, <1>22, <1>23,
     <1>24, <1>25, <1>26, <1>27
     DEF ProfileNext, FrameStep, StorageStep

\* The calls are calls, in order.
Listed == todo \in Seq(StorageCalls) /\ InOrder(todo)

\* No calls are in order.
LEMMA EmptyListed == <<>> \in Seq(StorageCalls) /\ InOrder(<<>>)
  BY DEF InOrder

\* A migration before other calls.
LEMMA MigrationJoins ==
  ASSUME NEW file \in Profiles, NEW w \in [Parts -> SUBSET Profiles],
         NEW q \in Seq(StorageCalls), q # <<>>, InOrder(q)
  PROVE  Migration(file, w) \o q \in Seq(StorageCalls) /\ InOrder(Migration(file, w) \o q)
<1> DEFINE s == Migration(file, w)
<1>1. /\ s \in Seq(StorageCalls) /\ Len(s) = 3
      /\ s[1] = Write("usd", file, w["usd"], FALSE)
      /\ s[2] = Write("side", file, w["side"], FALSE)
      /\ s[3] = Do("remove", file)
  BY MigrationIs
<1> HIDE DEF s
<1>2. w["usd"] \in SUBSET Profiles /\ w["side"] \in SUBSET Profiles
  BY DEF Parts
<1>3. \A i \in 1 .. Len(s) :
        /\ s[i].do \in {"write", "erase", "remove", "deselect"}
        /\ s[i].do = "deselect" => i = Len(s) /\ q[1].do = "sweep"
        /\ s[i].file \in Profiles
        /\ s[i].do = "write" => s[i].whose \in SUBSET Profiles
        /\ ~s[i].must
  BY <1>1, <1>2 DEF Write, Do
<1> QED
  BY <1>1, <1>3, JoinInOrder, JoinIs DEF s

\* Every step keeps the order of the calls.
LEMMA OrderStep ==
  ASSUME ProfileInv, ProfileNext
  PROVE  Listed'
<1>0. ProfileTypeOK /\ Listed
  BY ProfileTypeIs DEF ProfileInv, Listed
<1> USE <1>0
<1>1. ASSUME OptionChanged PROVE Listed'
  BY <1>1 DEF OptionChanged, Listed
<1>2. ASSUME ClearProfile PROVE Listed'
  <2>1. todo' = <<Write("usd", selected, Shipped, FALSE),
          Write("side", selected, Shipped, FALSE),
                  Do("activate", selected)>>
    BY <1>2 DEF ClearProfile
  <2>2. Shipped \in SUBSET Profiles /\ selected \in Profiles
    BY ProfileTypeIs DEF TypedButTodo, Shipped
  <2> QED
    BY <2>1, <2>2, ThreeInOrder DEF Listed
<1>3. ASSUME NEW file \in Profiles, Restart(file) PROVE Listed'
  BY <1>3, LoadingIs, LoadingInOrder DEF Restart, Listed
<1>4. ASSUME NEW file \in Profiles, BindCharacter(file) PROVE Listed'
  BY <1>4, LoadingIs, LoadingInOrder DEF BindCharacter, Listed
<1>5. ASSUME NEW file \in Profiles, PickProfile(file) PROVE Listed'
  BY <1>5 DEF PickProfile, Listed
<1>6. ASSUME NEW file \in Profiles, CopyProfile(file) PROVE Listed'
  <2>1. todo' = <<Write("usd", file, {file}, FALSE), Write("side", file, {file}, FALSE),
                  Do("activate", file)>>
    BY <1>6 DEF CopyProfile
  <2>2. {file} \in SUBSET Profiles
    OBVIOUS
  <2> QED
    BY <2>1, <2>2, ThreeInOrder DEF Listed
<1>7. ASSUME NEW file \in Profiles, DeleteProfile(file) PROVE Listed'
  <2> DEFINE s == <<Erase("usd", selected), Erase("side", selected), Do("deselect", file)>>
  <2>1. todo' = s \o Loading
    BY <1>7 DEF DeleteProfile
  <2>2. selected \in Profiles
    BY ProfileTypeIs DEF TypedButTodo
  <2>3. /\ s \in Seq(StorageCalls) /\ Len(s) = 3
        /\ s[1] = Erase("usd", selected) /\ s[2] = Erase("side", selected)
        /\ s[3] = Do("deselect", file)
    BY <2>2, CallIs DEF Parts
  <2> HIDE DEF s
  <2>4. \A i \in 1 .. Len(s) :
          /\ s[i].do \in {"write", "erase", "remove", "deselect"}
          /\ s[i].do = "deselect" => i = Len(s) /\ Loading[1].do = "sweep"
          /\ s[i].file \in Profiles
          /\ s[i].do = "write" => s[i].whose \in SUBSET Profiles
          /\ ~s[i].must
    BY <2>2, <2>3, LoadingIs DEF Erase, Do
  <2>5. Loading \in Seq(StorageCalls) /\ Loading # <<>>
    BY LoadingIs
  <2> QED
    BY <2>1, <2>3, <2>4, <2>5, LoadingInOrder, JoinInOrder, JoinIs DEF Listed
<1>8. ASSUME SaveRefused PROVE Listed'
  BY <1>8 DEF SaveRefused, Listed
<1>9. ASSUME Save PROVE Listed'
  <2>1. todo' = <<Write("usd", selected, live["usd"], TRUE),
          Write("side", selected, live["side"], TRUE),
                  Do("activate", selected)>>
    BY <1>9 DEF Save
  <2>2. live["usd"] \in SUBSET Profiles
          /\ live["side"] \in SUBSET Profiles /\ selected \in Profiles
    BY ProfileTypeIs DEF TypedButTodo, Parts
  <2> QED
    BY <2>1, <2>2, ThreeInOrder DEF Listed
<1>10. ASSUME PickSelects PROVE Listed'
  BY <1>10, LoadingIs, LoadingInOrder DEF PickSelects, Listed
<1>11. ASSUME Writes PROVE Listed'
  BY <1>11, TailInOrder DEF Writes, Doing, Listed
<1>12. ASSUME WriteFails PROVE Listed'
  BY <1>12, TailInOrder, EmptyListed DEF WriteFails, Doing, Listed
<1>13. ASSUME Erases PROVE Listed'
  BY <1>13, TailInOrder DEF Erases, Doing, Listed
<1>14. ASSUME Deselects PROVE Listed'
  BY <1>14, TailInOrder DEF Deselects, Doing, Listed
<1>15. ASSUME Activates PROVE Listed'
  BY <1>15, TailInOrder DEF Activates, Doing, Listed
<1>16. ASSUME RemovesOld PROVE Listed'
  BY <1>16, TailInOrder DEF RemovesOld, Doing, Listed
<1>17. ASSUME NEW file \in Profiles, Sweeps(file) PROVE Listed'
  <2>1. todo # <<>>
    BY <1>17 DEF Sweeps, Doing
  <2>2. CASE todo' = todo
    BY <2>2 DEF Listed
  <2>3. CASE todo' = <<Do("remove", file)>> \o todo
    <3> DEFINE s == <<Do("remove", file)>>
    <3>1. s \in Seq(StorageCalls) /\ Len(s) = 1 /\ s[1] = Do("remove", file)
      BY CallIs
    <3> HIDE DEF s
    <3>2. InOrder(s \o todo)
      BY <2>1, <3>1, JoinInOrder DEF Do, Listed
    <3> QED
      BY <2>3, <3>1, <3>2 DEF s, Listed
  <2>4. OnlyOf(file) \in [Parts -> SUBSET Profiles]
    BY DEF OnlyOf
  <2>5. CASE todo' = Migration(file, OnlyOf(file)) \o todo
    BY <2>1, <2>4, <2>5, MigrationJoins DEF Listed
  <2> QED
    BY <1>17, <2>2, <2>3, <2>5 DEF Sweeps
<1>18. ASSUME NEW file \in Profiles, SweepUnread(file) PROVE Listed'
  BY <1>18 DEF SweepUnread, Listed
<1>19. ASSUME NEW file \in Profiles, SweepFails(file) PROVE Listed'
  BY <1>19, EmptyListed DEF SweepFails, Listed
<1>20. ASSUME Swept PROVE Listed'
  BY <1>20, TailInOrder DEF Swept, Doing, Listed
<1>21. ASSUME Migrates PROVE Listed'
  <2>1. todo # <<>> /\ Next1.do = "migrate"
    BY <1>21 DEF Migrates, Doing
  <2>2. Tail(todo) \in Seq(StorageCalls) /\ Tail(todo) # <<>> /\ InOrder(Tail(todo))
    BY <2>1, TailInOrder, HeadIs DEF Listed
  <2>3. CASE todo' = Tail(todo)
    BY <2>2, <2>3 DEF Listed
  <2>4. live' \in [Parts -> SUBSET Profiles] /\ selected \in Profiles
    BY ProfileTypeStep, ProfileTypeIs DEF TypedButTodo
  <2>5. CASE todo' = Migration(selected, live') \o Tail(todo)
    <3>1. ASSUME NEW w \in [Parts -> SUBSET Profiles], w = live'
          PROVE  /\ Migration(selected, w) \o Tail(todo) \in Seq(StorageCalls)
                 /\ InOrder(Migration(selected, w) \o Tail(todo))
      BY <2>2, <2>4, MigrationJoins
    <3> QED
      BY <2>4, <2>5, <3>1 DEF Listed
  <2> QED
    BY <1>21, <2>3, <2>5 DEF Migrates
<1>22. ASSUME MigratesUnread PROVE Listed'
  BY <1>22, TailInOrder DEF MigratesUnread, Doing, Listed
<1>23. ASSUME ReadsNone PROVE Listed'
  BY <1>23, TailInOrder DEF ReadsNone, Doing, Listed
<1>24. ASSUME ReadsBad PROVE Listed'
  BY <1>24, TailInOrder DEF ReadsBad, Doing, Listed
<1>25. ASSUME Reads PROVE Listed'
  BY <1>25, TailInOrder DEF Reads, Doing, Listed
<1>26. ASSUME ReadFails PROVE Listed'
  BY <1>26, EmptyListed DEF ReadFails, Listed
<1>27. ASSUME TakesSideCar PROVE Listed'
  BY <1>27 DEF TakesSideCar, Listed
<1> QED
  BY <1>1, <1>2, <1>3, <1>4, <1>5, <1>6, <1>7, <1>8, <1>9, <1>10, <1>11, <1>12,
     <1>13, <1>14, <1>15, <1>16, <1>17, <1>18, <1>19, <1>20, <1>21, <1>22, <1>23,
     <1>24, <1>25, <1>26, <1>27
     DEF ProfileNext, FrameStep, StorageStep

\* Every step keeps one operation at a time.
LEMMA OneThingStep ==
  ASSUME ProfileInv, ProfileNext
  PROVE  OneThing'
<1> USE DEF ProfileInv
<1>1. ASSUME OptionChanged PROVE OneThing'
  BY <1>1 DEF OneThing, Whole, OptionChanged
<1>2. ASSUME ClearProfile PROVE OneThing'
  BY <1>2 DEF OneThing, Whole, ClearProfile
<1>3. ASSUME NEW file \in Profiles, Restart(file) PROVE OneThing'
  BY <1>3 DEF OneThing, Restart
<1>4. ASSUME NEW file \in Profiles, BindCharacter(file) PROVE OneThing'
  BY <1>4 DEF OneThing, Whole, BindCharacter
<1>5. ASSUME NEW file \in Profiles, PickProfile(file) PROVE OneThing'
  BY <1>5 DEF OneThing, Whole, PickProfile
<1>6. ASSUME NEW file \in Profiles, CopyProfile(file) PROVE OneThing'
  BY <1>6 DEF OneThing, Whole, CopyProfile
<1>7. ASSUME NEW file \in Profiles, DeleteProfile(file) PROVE OneThing'
  BY <1>7 DEF OneThing, Whole, DeleteProfile
<1>8. ASSUME SaveRefused PROVE OneThing'
  BY <1>8 DEF OneThing, SaveRefused
<1>9. ASSUME Save PROVE OneThing'
  BY <1>9 DEF OneThing, EndsIn, Save, Do
<1>10. ASSUME PickSelects PROVE OneThing'
  BY <1>10 DEF OneThing, PickSelects
<1>11. ASSUME Writes PROVE OneThing'
  BY <1>11 DEF OneThing, EndsIn, Writes
<1>12. ASSUME WriteFails PROVE OneThing'
  BY <1>12 DEF OneThing, EndsIn, WriteFails
<1>13. ASSUME Erases PROVE OneThing'
  BY <1>13 DEF OneThing, EndsIn, Erases
<1>14. ASSUME Deselects PROVE OneThing'
  BY <1>14, LastIs DEF OneThing, Deselects, Doing
<1>15. ASSUME Activates PROVE OneThing'
  BY <1>15 DEF OneThing, EndsIn, Activates
<1>16. ASSUME RemovesOld PROVE OneThing'
  BY <1>16 DEF OneThing, EndsIn, RemovesOld
<1>17. ASSUME NEW file \in Profiles, Sweeps(file) PROVE OneThing'
  BY <1>17, LastIs DEF OneThing, Sweeps, Doing
<1>18. ASSUME NEW file \in Profiles, SweepUnread(file) PROVE OneThing'
  BY <1>18 DEF OneThing, EndsIn, SweepUnread
<1>19. ASSUME NEW file \in Profiles, SweepFails(file) PROVE OneThing'
  BY <1>19 DEF OneThing, SweepFails
<1>20. ASSUME Swept PROVE OneThing'
  BY <1>20 DEF OneThing, EndsIn, Swept
<1>21. ASSUME Migrates PROVE OneThing'
  BY <1>21, LastIs DEF OneThing, Migrates, Doing
<1>22. ASSUME MigratesUnread PROVE OneThing'
  BY <1>22 DEF OneThing, EndsIn, MigratesUnread
<1>23. ASSUME ReadsNone PROVE OneThing'
  BY <1>23, LastIs, HeadIs DEF OneThing, ReadsNone, Doing
<1>24. ASSUME ReadsBad PROVE OneThing'
  BY <1>24, HeadIs DEF OneThing, ReadsBad, Doing
<1>25. ASSUME Reads PROVE OneThing'
  BY <1>25, LastIs, HeadIs DEF OneThing, Reads, Doing
<1>26. ASSUME ReadFails PROVE OneThing'
  BY <1>26 DEF OneThing, ReadFails
<1>27. ASSUME TakesSideCar PROVE OneThing'
  BY <1>27 DEF OneThing, TakesSideCar
<1> QED
  BY <1>1, <1>2, <1>3, <1>4, <1>5, <1>6, <1>7, <1>8, <1>9, <1>10, <1>11, <1>12,
     <1>13, <1>14, <1>15, <1>16, <1>17, <1>18, <1>19, <1>20, <1>21, <1>22, <1>23,
     <1>24, <1>25, <1>26, <1>27
     DEF ProfileNext, FrameStep, StorageStep

\* What is held stays held, and never is a profile that failed one that did not.
FilesKeep ==
  /\ \A f \in Profiles : InFile(f) => InFile(f)'
  /\ kept' \subseteq kept /\ failed \subseteq failed'
  /\ laidOver \ (failed' \X Profiles) \subseteq laidOver'

\* What is held in a file stays there, and nothing is forgotten of it.
LEMMA KeepStep ==
  ASSUME ProfileInv, ProfileNext
  PROVE  FilesKeep
<1> USE DEF ProfileInv
<1>1. ASSUME OptionChanged PROVE FilesKeep
  BY <1>1 DEF FilesKeep, InFile, OptionChanged, diskVars
<1>2. ASSUME ClearProfile PROVE FilesKeep
  BY <1>2 DEF FilesKeep, InFile, ClearProfile, LaysOver
<1>3. ASSUME NEW file \in Profiles, Restart(file) PROVE FilesKeep
  BY <1>3 DEF FilesKeep, InFile, Restart, diskVars
<1>4. ASSUME NEW file \in Profiles, BindCharacter(file) PROVE FilesKeep
  BY <1>4 DEF FilesKeep, InFile, BindCharacter, diskVars
<1>5. ASSUME NEW file \in Profiles, PickProfile(file) PROVE FilesKeep
  BY <1>5 DEF FilesKeep, InFile, PickProfile, diskVars
<1>6. ASSUME NEW file \in Profiles, CopyProfile(file) PROVE FilesKeep
  BY <1>6 DEF FilesKeep, InFile, CopyProfile
<1>7. ASSUME NEW file \in Profiles, DeleteProfile(file) PROVE FilesKeep
  BY <1>7 DEF FilesKeep, InFile, DeleteProfile
<1>8. ASSUME SaveRefused PROVE FilesKeep
  BY <1>8 DEF FilesKeep, InFile, SaveRefused, Preserve
<1>9. ASSUME Save PROVE FilesKeep
  BY <1>9 DEF FilesKeep, InFile, Save, diskVars
<1>10. ASSUME PickSelects PROVE FilesKeep
  BY <1>10 DEF FilesKeep, InFile, PickSelects, diskVars
<1>11. ASSUME Writes PROVE FilesKeep
  <2>1. /\ disk' = [disk EXCEPT ![Next1.part][Next1.file] = Text(Next1.whose, TRUE)]
        /\ UNCHANGED <<kept, laidOver, failed>> /\ todo # <<>> /\ Next1.do = "write"
    BY <1>11 DEF Writes, Doing
  <2>2. /\ Next1.part \in Parts /\ Next1.file \in Profiles
        /\ MayHold(Next1.part, Next1.file, Next1.whose)
    BY <2>1, HeadIs
  <2>3. \A f \in Profiles :
          disk'["usd"][f] = IF Next1.part = "usd" /\ f = Next1.file
                            THEN Text(Next1.whose, TRUE) ELSE disk["usd"][f]
    BY <2>1, <2>2, ProfileTypeIs DEF TypedButTodo, Parts
  <2> QED
    BY <2>1, <2>2, <2>3 DEF FilesKeep, InFile, MayHold, Text
<1>12. ASSUME WriteFails PROVE FilesKeep
  BY <1>12 DEF FilesKeep, InFile, WriteFails, StorageFails
<1>13. ASSUME Erases PROVE FilesKeep
  <2>1. /\ disk' = [disk EXCEPT ![Next1.part][Next1.file] = NoText]
        /\ UNCHANGED <<kept, laidOver, failed>> /\ todo # <<>> /\ Next1.do = "erase"
    BY <1>13 DEF Erases, Doing
  <2>2. Next1.part \in Parts /\ Next1.file \in Profiles /\ Next1.file \notin kept
    BY <2>1, HeadIs
  <2>3. \A f \in Profiles : f # Next1.file => disk'["usd"][f] = disk["usd"][f]
    BY <2>1, <2>2
  <2> QED
    BY <2>1, <2>2, <2>3 DEF FilesKeep, InFile
<1>14. ASSUME Deselects PROVE FilesKeep
  BY <1>14 DEF FilesKeep, InFile, Deselects, diskVars
<1>15. ASSUME Activates PROVE FilesKeep
  BY <1>15 DEF FilesKeep, InFile, Activates, diskVars
<1>16. ASSUME RemovesOld PROVE FilesKeep
  BY <1>16 DEF FilesKeep, InFile, RemovesOld
<1>17. ASSUME NEW file \in Profiles, Sweeps(file) PROVE FilesKeep
  BY <1>17 DEF FilesKeep, InFile, Sweeps, diskVars
<1>18. ASSUME NEW file \in Profiles, SweepUnread(file) PROVE FilesKeep
  BY <1>18 DEF FilesKeep, InFile, SweepUnread, diskVars
<1>19. ASSUME NEW file \in Profiles, SweepFails(file) PROVE FilesKeep
  BY <1>19 DEF FilesKeep, InFile, SweepFails, StorageFails
<1>20. ASSUME Swept PROVE FilesKeep
  BY <1>20 DEF FilesKeep, InFile, Swept, diskVars
<1>21. ASSUME Migrates PROVE FilesKeep
  BY <1>21 DEF FilesKeep, InFile, Migrates, LaysOver, diskVars
<1>22. ASSUME MigratesUnread PROVE FilesKeep
  BY <1>22 DEF FilesKeep, InFile, MigratesUnread, StorageFails
<1>23. ASSUME ReadsNone PROVE FilesKeep
  BY <1>23 DEF FilesKeep, InFile, ReadsNone, LaysOver, diskVars
<1>24. ASSUME ReadsBad PROVE FilesKeep
  BY <1>24 DEF FilesKeep, InFile, ReadsBad, Preserve
<1>25. ASSUME Reads PROVE FilesKeep
  BY <1>25 DEF FilesKeep, InFile, Reads, LaysOver, diskVars
<1>26. ASSUME ReadFails PROVE FilesKeep
  BY <1>26 DEF FilesKeep, InFile, ReadFails, StorageFails
<1>27. ASSUME TakesSideCar PROVE FilesKeep
  BY <1>27 DEF FilesKeep, InFile, TakesSideCar, diskVars
<1> QED
  BY <1>1, <1>2, <1>3, <1>4, <1>5, <1>6, <1>7, <1>8, <1>9, <1>10, <1>11, <1>12,
     <1>13, <1>14, <1>15, <1>16, <1>17, <1>18, <1>19, <1>20, <1>21, <1>22, <1>23,
     <1>24, <1>25, <1>26, <1>27
     DEF ProfileNext, FrameStep, StorageStep

\* What a file may hold it may go on to hold.
LEMMA HoldStays ==
  ASSUME FilesKeep, NEW part, NEW f, NEW whose, MayHold(part, f, whose)
  PROVE  MayHold(part, f, whose)'
<1>1. f \in failed' \/ Mine(f) \subseteq Mine(f)'
  BY DEF Mine, FilesKeep
<1> QED
  BY <1>1 DEF MayHold, FilesKeep

\* So with the live settings, and with what is left of a profile's own among them.
LEMMA OwnStays ==
  ASSUME FilesKeep, UNCHANGED live, NEW f
  PROVE  (Own(f) => Own(f)') /\ (StillLive(f) => StillLive(f)')
<1>1. ASSUME Own(f) PROVE Own(f)'
  <2> SUFFICES ASSUME NEW p \in Parts PROVE MayHold(p, f, live[p])'
    BY DEF Own
  <2>1. MayHold(p, f, live[p])
    BY <1>1 DEF Own
  <2>2. ASSUME NEW w, w = live[p] PROVE MayHold(p, f, w)'
    BY <2>1, <2>2, HoldStays
  <2> QED
    BY <2>2 DEF MayHold
<1> QED
  BY <1>1 DEF StillLive, FilesKeep

\* Live settings that are a profile's own have its own among them.
LEMMA OwnIsLive ==
  ASSUME NEW f, Own(f)
  PROVE  StillLive(f)
  BY DEF Own, MayHold, StillLive, Parts

\* A step that writes no file keeps what the files hold.
LEMMA DiskStays ==
  ASSUME ProfileInv, FilesKeep, UNCHANGED <<disk, legacy>>
  PROVE  (AllInFiles /\ ProfilesApart)'
<1>1. AllInFiles'
  BY DEF ProfileInv, AllInFiles, FilesKeep, OnDisk
<1>2. \A f \in Profiles \ failed' : Mine(f) \subseteq Mine(f)'
  BY DEF Mine, FilesKeep
<1>3. ProfilesApart'
  <2> SUFFICES ASSUME NEW p \in Parts, NEW f \in Profiles \ failed'
               PROVE  disk[p][f].whose \ {NoProfile} \subseteq Mine(f)'
    BY DEF ProfilesApart
  <2>1. f \in Profiles \ failed
    BY DEF FilesKeep
  <2>2. disk[p][f].whose \ {NoProfile} \subseteq Mine(f)
    BY <2>1 DEF ProfileInv, ProfilesApart
  <2> QED
    BY <1>2, <2>2
<1> QED
  BY <1>1, <1>3

\* Every step keeps what the files hold.
LEMMA DiskStep ==
  ASSUME ProfileInv, ProfileNext
  PROVE  (AllInFiles /\ ProfilesApart)'
<1> USE DEF ProfileInv
<1>0. FilesKeep
  BY KeepStep
<1>1. ASSUME OptionChanged PROVE (AllInFiles /\ ProfilesApart)'
  BY <1>0, <1>1, DiskStays DEF OptionChanged, diskVars
<1>2. ASSUME ClearProfile PROVE (AllInFiles /\ ProfilesApart)'
  BY <1>0, <1>2, DiskStays DEF ClearProfile
<1>3. ASSUME NEW file \in Profiles, Restart(file) PROVE (AllInFiles /\ ProfilesApart)'
  BY <1>0, <1>3, DiskStays DEF Restart, diskVars
<1>4. ASSUME NEW file \in Profiles, BindCharacter(file)
      PROVE  (AllInFiles /\ ProfilesApart)'
  BY <1>0, <1>4, DiskStays DEF BindCharacter, diskVars
<1>5. ASSUME NEW file \in Profiles, PickProfile(file) PROVE (AllInFiles /\ ProfilesApart)'
  BY <1>0, <1>5, DiskStays DEF PickProfile, diskVars
<1>6. ASSUME NEW file \in Profiles, CopyProfile(file) PROVE (AllInFiles /\ ProfilesApart)'
  BY <1>0, <1>6, DiskStays DEF CopyProfile
<1>7. ASSUME NEW file \in Profiles, DeleteProfile(file)
      PROVE  (AllInFiles /\ ProfilesApart)'
  BY <1>0, <1>7, DiskStays DEF DeleteProfile
<1>8. ASSUME SaveRefused PROVE (AllInFiles /\ ProfilesApart)'
  BY <1>0, <1>8, DiskStays DEF SaveRefused
<1>9. ASSUME Save PROVE (AllInFiles /\ ProfilesApart)'
  BY <1>0, <1>9, DiskStays DEF Save, diskVars
<1>10. ASSUME PickSelects PROVE (AllInFiles /\ ProfilesApart)'
  BY <1>0, <1>10, DiskStays DEF PickSelects, diskVars
<1>11. ASSUME Writes PROVE (AllInFiles /\ ProfilesApart)'
  <2>1. /\ disk' = [disk EXCEPT ![Next1.part][Next1.file] = Text(Next1.whose, TRUE)]
        /\ UNCHANGED <<legacy, kept, laidOver, failed>> /\ todo # <<>> /\ Next1.do = "write"
    BY <1>11 DEF Writes, Doing
  <2>2. /\ Next1.part \in Parts /\ Next1.file \in Profiles
        /\ Next1.whose \in SUBSET Profiles
        /\ MayHold(Next1.part, Next1.file, Next1.whose)
    BY <2>1, HeadIs
  <2>3. ASSUME NEW p \in Parts, NEW f \in Profiles
        PROVE  disk'[p][f].whose =
                 IF p = Next1.part /\ f = Next1.file THEN Next1.whose ELSE disk[p][f].whose
    BY <2>1, <2>2, ProfileTypeIs DEF TypedButTodo, Text
  <2>4. ASSUME NEW f \in Profiles PROVE (InFile(f) \/ (f \in legacy /\ ~OnDisk("usd", f)))'
    <3>1. InFile(f) \/ (f \in legacy /\ ~OnDisk("usd", f))
      BY DEF AllInFiles
    <3>2. disk'["usd"][f] = IF Next1.part = "usd" /\ f = Next1.file
                            THEN Text(Next1.whose, TRUE) ELSE disk["usd"][f]
      BY <2>1, <2>2, ProfileTypeIs DEF TypedButTodo, Parts
    <3> QED
      BY <2>1, <2>2, <3>1, <3>2 DEF InFile, OnDisk, MayHold, Text
  <2>5. AllInFiles'
    BY <2>4 DEF AllInFiles
  <2>6. ProfilesApart'
    <3> SUFFICES ASSUME NEW p \in Parts, NEW f \in Profiles \ failed
        PROVE  disk'[p][f].whose \ {NoProfile} \subseteq Mine(f)
      BY <2>1 DEF ProfilesApart, Mine
    <3>1. CASE p = Next1.part /\ f = Next1.file
      BY <2>2, <2>3, <3>1 DEF MayHold
    <3>2. CASE ~(p = Next1.part /\ f = Next1.file)
      BY <2>3, <3>2 DEF ProfilesApart
    <3> QED
      BY <3>1, <3>2
  <2> QED
    BY <2>5, <2>6
<1>12. ASSUME WriteFails PROVE (AllInFiles /\ ProfilesApart)'
  BY <1>0, <1>12, DiskStays DEF WriteFails
<1>13. ASSUME Erases PROVE (AllInFiles /\ ProfilesApart)'
  <2>1. /\ disk' = [disk EXCEPT ![Next1.part][Next1.file] = NoText]
        /\ UNCHANGED <<legacy, kept, laidOver, failed>> /\ todo # <<>> /\ Next1.do = "erase"
    BY <1>13 DEF Erases, Doing
  <2>2. Next1.part \in Parts /\ Next1.file \in Profiles /\ Next1.file \notin kept
    BY <2>1, HeadIs
  <2>3. ASSUME NEW p \in Parts, NEW f \in Profiles
        PROVE  disk'[p][f] =
                 IF p = Next1.part /\ f = Next1.file THEN NoText ELSE disk[p][f]
    BY <2>1, <2>2, ProfileTypeIs DEF TypedButTodo
  <2>4. \A f \in Profiles : f # Next1.file => disk'["usd"][f] = disk["usd"][f]
    BY <2>3 DEF Parts
  <2>5. AllInFiles'
    BY <2>1, <2>2, <2>4 DEF AllInFiles, InFile, OnDisk
  <2>6. ProfilesApart'
    <3> SUFFICES ASSUME NEW p \in Parts, NEW f \in Profiles \ failed
        PROVE  disk'[p][f].whose \ {NoProfile} \subseteq Mine(f)
      BY <2>1 DEF ProfilesApart, Mine
    <3>1. NoText.whose = {NoProfile}
      BY DEF NoText, Text
    <3> QED
      BY <2>3, <3>1 DEF ProfilesApart
  <2> QED
    BY <2>5, <2>6
<1>14. ASSUME Deselects PROVE (AllInFiles /\ ProfilesApart)'
  BY <1>0, <1>14, DiskStays DEF Deselects, diskVars
<1>15. ASSUME Activates PROVE (AllInFiles /\ ProfilesApart)'
  BY <1>0, <1>15, DiskStays DEF Activates, diskVars
<1>16. ASSUME RemovesOld PROVE (AllInFiles /\ ProfilesApart)'
  <2>1. /\ legacy' = legacy \ {Next1.file} /\ InFile(Next1.file)
        /\ UNCHANGED <<disk, kept, laidOver, failed>>
    BY <1>16, HeadIs DEF RemovesOld, Doing
  <2> QED
    BY <2>1 DEF AllInFiles, InFile, OnDisk, ProfilesApart, Mine
<1>17. ASSUME NEW file \in Profiles, Sweeps(file) PROVE (AllInFiles /\ ProfilesApart)'
  BY <1>0, <1>17, DiskStays DEF Sweeps, diskVars
<1>18. ASSUME NEW file \in Profiles, SweepUnread(file)
      PROVE  (AllInFiles /\ ProfilesApart)'
  BY <1>0, <1>18, DiskStays DEF SweepUnread, diskVars
<1>19. ASSUME NEW file \in Profiles, SweepFails(file) PROVE (AllInFiles /\ ProfilesApart)'
  BY <1>0, <1>19, DiskStays DEF SweepFails
<1>20. ASSUME Swept PROVE (AllInFiles /\ ProfilesApart)'
  BY <1>0, <1>20, DiskStays DEF Swept, diskVars
<1>21. ASSUME Migrates PROVE (AllInFiles /\ ProfilesApart)'
  BY <1>0, <1>21, DiskStays DEF Migrates, diskVars
<1>22. ASSUME MigratesUnread PROVE (AllInFiles /\ ProfilesApart)'
  BY <1>0, <1>22, DiskStays DEF MigratesUnread
<1>23. ASSUME ReadsNone PROVE (AllInFiles /\ ProfilesApart)'
  BY <1>0, <1>23, DiskStays DEF ReadsNone, diskVars
<1>24. ASSUME ReadsBad PROVE (AllInFiles /\ ProfilesApart)'
  BY <1>0, <1>24, DiskStays DEF ReadsBad
<1>25. ASSUME Reads PROVE (AllInFiles /\ ProfilesApart)'
  BY <1>0, <1>25, DiskStays DEF Reads, diskVars
<1>26. ASSUME ReadFails PROVE (AllInFiles /\ ProfilesApart)'
  BY <1>0, <1>26, DiskStays DEF ReadFails
<1>27. ASSUME TakesSideCar PROVE (AllInFiles /\ ProfilesApart)'
  BY <1>0, <1>27, DiskStays DEF TakesSideCar, diskVars
<1> QED
  BY <1>1, <1>2, <1>3, <1>4, <1>5, <1>6, <1>7, <1>8, <1>9, <1>10, <1>11, <1>12,
     <1>13, <1>14, <1>15, <1>16, <1>17, <1>18, <1>19, <1>20, <1>21, <1>22, <1>23,
     <1>24, <1>25, <1>26, <1>27
     DEF ProfileNext, FrameStep, StorageStep

\* About to read a profile: its settings are in its file, and they are the live ones'
\* or the live ones are the active profile's.
LEMMA ReadIs ==
  ASSUME ProfileInv, Doing("read")
  PROVE  /\ Tail(todo) = <<>> /\ EndsIn("read") /\ InFile(selected)
         /\ active # NoProfile /\ Unreadable(selected) => Own(active)
         /\ active # NoProfile => StillLive(active)
<1>1. todo # <<>> /\ Next1.do = "read" /\ Next1 = todo[1]
  BY TodoIs DEF Doing, ProfileInv
<1>2. Tail(todo) = <<>> /\ EndsIn("read")
  BY <1>1, HeadIs, LastIs
<1>3. DOMAIN todo = 1 .. 1
  BY <1>1, <1>2, TodoIs DEF ProfileInv
<1>4. ~ToCome("migrate") /\ ~\E i \in 1 .. 1 : WritesOwn(todo[i], selected)
  <2>1. \A i \in 1 .. 1 : todo[i].do = "read"
    BY <1>1
  <2> QED
    BY <1>3, <2>1 DEF ToCome, WritesOwn
<1>5. InFile(selected)
  BY <1>2, <1>3, <1>4, TodoIs DEF ProfileInv, LoadToCome
<1> QED
  BY <1>2, <1>5 DEF ProfileInv, LoadToCome


\* About to sweep, to migrate or to change the selection: the load still takes the old
\* file in, once.
LEMMA LoadIs ==
  ASSUME ProfileInv, Doing("deselect") \/ Doing("sweep") \/ Doing("migrate")
  PROVE  /\ EndsIn("read") /\ ToCome("migrate")
         /\ active # NoProfile => Own(active)
         /\ ~Doing("migrate")
              => \E i \in 1 .. Len(Tail(todo)) : Tail(todo)[i].do = "migrate"
         /\ Doing("migrate")
              => ~\E i \in 1 .. Len(Tail(todo)) : Tail(todo)[i].do = "migrate"
<1>1. /\ todo # <<>> /\ Next1 = todo[1] /\ InOrder(todo) /\ ProfileTypeOK
      /\ Next1.do \in {"deselect", "sweep", "migrate"}
  BY TodoIs DEF ProfileInv, Doing
<1>2. /\ Len(todo) \in Nat /\ DOMAIN todo = 1 .. Len(todo)
           /\ Len(Tail(todo)) = Len(todo) - 1
      /\ \A i \in 1 .. Len(todo) - 1 : Tail(todo)[i] = todo[i + 1]
  BY <1>1
<1>3. 1 \in 1 .. Len(todo)
  BY <1>1
<1>4. todo[1].do = "sweep" => 1 < Len(todo) /\ todo[2].do = "migrate"
  BY <1>1, <1>3 DEF InOrder
<1>5. todo[1].do = "deselect" => 1 < Len(todo) /\ todo[2].do = "sweep"
  BY <1>1, <1>3 DEF InOrder
<1>6. 1 < Len(todo) => 2 \in 1 .. Len(todo) /\ 1 \in 1 .. Len(todo) - 1
  BY <1>2
<1>7. 1 < Len(todo) /\ todo[2].do = "sweep" => 2 < Len(todo) /\ todo[3].do = "migrate"
  BY <1>1, <1>6 DEF InOrder
<1>8. 2 < Len(todo) => 3 \in 1 .. Len(todo) /\ 2 \in 1 .. Len(todo) - 1
  BY <1>2
<1>9. ToCome("migrate")
  BY <1>1, <1>2, <1>3, <1>4, <1>5, <1>6, <1>7, <1>8 DEF ToCome
<1>10. EndsIn("read")
  BY <1>1, LastIs
<1>11. ASSUME ~Doing("migrate")
       PROVE  \E i \in 1 .. Len(Tail(todo)) : Tail(todo)[i].do = "migrate"
  <2>1. todo[1].do \in {"deselect", "sweep"}
    BY <1>1, <1>11 DEF Doing
  <2>2. 1 < Len(todo) => Tail(todo)[1] = todo[2]
    BY <1>2, <1>6
  <2>3. 2 < Len(todo) => Tail(todo)[2] = todo[3]
    BY <1>2, <1>8
  <2> QED
    BY <1>2, <1>4, <1>5, <1>6, <1>7, <1>8, <2>1, <2>2, <2>3
<1>12. ASSUME Doing("migrate"), NEW i \in 1 .. Len(Tail(todo))
       PROVE  Tail(todo)[i].do # "migrate"
  <2>1. i \in 1 .. Len(todo) - 1 /\ i + 1 \in 1 .. Len(todo) /\ i + 1 # 1
    BY <1>2
  <2>2. 1 < Len(todo) /\ todo[1 + 1].do = "read"
    BY <1>1, <1>3, <1>12 DEF InOrder, Doing
  <2>3. 1 + 1 = Len(todo)
    <3>1. 1 + 1 \in 1 .. Len(todo)
      BY <1>6, <2>2
    <3> QED
      BY <1>1, <2>2, <3>1 DEF InOrder
  <2>4. i = 1
    <3>1. Len(todo) - 1 = 1
      BY <2>3
    <3>2. i \in 1 .. 1
      BY <2>1, <3>1
    <3> QED
      BY <3>2
  <2>5. Tail(todo)[1] = todo[1 + 1]
    BY <1>2, <1>6, <2>2
  <2> QED
    BY <2>2, <2>4, <2>5
<1> QED
  BY <1>9, <1>10, <1>11, <1>12 DEF ProfileInv, LoadToCome

\* Without a change of them what a load half done took in, and has to, stays its own.
LEMMA HalfStays ==
  ASSUME HalfLoaded, FilesKeep, UNCHANGED <<live, load>>
  PROVE  HalfLoaded'
<1> SUFFICES ASSUME load # NoLoad
             PROVE  /\ MayHold("usd", load.file, live["usd"])'
                    /\ load.side = NoText \/ MayHold("side", load.file, load.side.whose)'
  BY DEF HalfLoaded
<1>1. /\ MayHold("usd", load.file, live["usd"])
      /\ load.side = NoText \/ MayHold("side", load.file, load.side.whose)
  BY DEF HalfLoaded
<1>2. ASSUME NEW f, f = load.file, NEW w, w = live["usd"] PROVE MayHold("usd", f, w)'
  BY <1>1, <1>2, HoldStays
<1>3. ASSUME NEW f, f = load.file, NEW w, w = load.side.whose, load.side # NoText
      PROVE  MayHold("side", f, w)'
  BY <1>1, <1>3, HoldStays
<1> QED
  BY <1>2, <1>3 DEF MayHold

\* Every step keeps what a load half done has to take in.
LEMMA HalfStep ==
  ASSUME ProfileInv, ProfileNext
  PROVE  HalfLoaded'
<1> USE DEF ProfileInv
<1>1. ASSUME OptionChanged PROVE HalfLoaded'
  BY <1>1, KeepStep, HalfStays DEF OptionChanged
<1>2. ASSUME ClearProfile PROVE HalfLoaded'
  BY <1>2 DEF HalfLoaded, Whole, ClearProfile
<1>3. ASSUME NEW file \in Profiles, Restart(file) PROVE HalfLoaded'
  BY <1>3 DEF HalfLoaded, Restart
<1>4. ASSUME NEW file \in Profiles, BindCharacter(file) PROVE HalfLoaded'
  BY <1>4, KeepStep, HalfStays DEF BindCharacter
<1>5. ASSUME NEW file \in Profiles, PickProfile(file) PROVE HalfLoaded'
  BY <1>5, KeepStep, HalfStays DEF PickProfile
<1>6. ASSUME NEW file \in Profiles, CopyProfile(file) PROVE HalfLoaded'
  BY <1>6 DEF HalfLoaded, Whole, CopyProfile
<1>7. ASSUME NEW file \in Profiles, DeleteProfile(file) PROVE HalfLoaded'
  BY <1>7, KeepStep, HalfStays DEF DeleteProfile
<1>8. ASSUME SaveRefused PROVE HalfLoaded'
  BY <1>8 DEF HalfLoaded, OneThing, SaveRefused
<1>9. ASSUME Save PROVE HalfLoaded'
  BY <1>9 DEF HalfLoaded, OneThing, Save
<1>10. ASSUME PickSelects PROVE HalfLoaded'
  BY <1>10 DEF HalfLoaded, OneThing, PickSelects
<1>11. ASSUME Writes PROVE HalfLoaded'
  BY <1>11, KeepStep, HalfStays DEF Writes
<1>12. ASSUME WriteFails PROVE HalfLoaded'
  BY <1>12, KeepStep, HalfStays DEF WriteFails
<1>13. ASSUME Erases PROVE HalfLoaded'
  BY <1>13, KeepStep, HalfStays DEF Erases
<1>14. ASSUME Deselects PROVE HalfLoaded'
  BY <1>14, KeepStep, HalfStays DEF Deselects
<1>15. ASSUME Activates PROVE HalfLoaded'
  BY <1>15, KeepStep, HalfStays DEF Activates
<1>16. ASSUME RemovesOld PROVE HalfLoaded'
  BY <1>16, KeepStep, HalfStays DEF RemovesOld
<1>17. ASSUME NEW file \in Profiles, Sweeps(file) PROVE HalfLoaded'
  BY <1>17, KeepStep, HalfStays DEF Sweeps
<1>18. ASSUME NEW file \in Profiles, SweepUnread(file) PROVE HalfLoaded'
  BY <1>18, KeepStep, HalfStays DEF SweepUnread
<1>19. ASSUME NEW file \in Profiles, SweepFails(file) PROVE HalfLoaded'
  BY <1>19, KeepStep, HalfStays DEF SweepFails
<1>20. ASSUME Swept PROVE HalfLoaded'
  BY <1>20, KeepStep, HalfStays DEF Swept
<1>21. ASSUME Migrates PROVE HalfLoaded'
  BY <1>21 DEF HalfLoaded, OneThing, Migrates, Doing
<1>22. ASSUME MigratesUnread PROVE HalfLoaded'
  BY <1>22, KeepStep, HalfStays DEF MigratesUnread
<1>23. ASSUME ReadsNone PROVE HalfLoaded'
  <2>1. /\ disk["usd"][selected] = NoText /\ UNCHANGED <<kept, failed, live, selected>>
        /\ load' = [file |-> selected, side |-> NoText]
        /\ selected \in failed
             \/ laidOver' = laidOver \cup ({selected} \X (live["usd"] \ {selected}))
    BY <1>23 DEF ReadsNone, OnDisk, diskVars, LaysOver
  <2>2. /\ selected \in Profiles /\ selected # NoProfile
        /\ live["usd"] \subseteq Profiles
    BY ProfileTypeIs, ProfileAssumption DEF TypedButTodo, Parts
  <2>3. selected \notin kept \/ selected \in failed
    BY <1>23, <2>1, <2>2, ReadIs DEF ReadsNone, InFile, NoText, Text
  <2>4. selected \in failed \/ live["usd"] \subseteq Mine(selected)'
    BY <2>1, <2>2 DEF Mine
  <2> QED
    BY <2>1, <2>3, <2>4 DEF HalfLoaded, MayHold
<1>24. ASSUME ReadsBad PROVE HalfLoaded'
  BY <1>24, KeepStep, HalfStays DEF ReadsBad
<1>25. ASSUME Reads PROVE HalfLoaded'
  <2> DEFINE own == disk["usd"][selected].whose
  <2>1. disk["usd"][selected] # NoText /\ UNCHANGED <<disk, kept, failed, selected>>
    BY <1>25 DEF Reads, OnDisk, diskVars
  <2>2. PICK side \in {disk["side"][selected], NoText} :
          load' = [file |-> selected, side |-> side]
    BY <1>25 DEF Reads
  <2>3. PICK stay \in {{}, live["usd"]} :
          /\ live' = [live EXCEPT !["usd"] = own \cup stay]
          /\ selected \in failed
               \/ laidOver' = laidOver \cup ({selected} \X (stay \ {selected}))
    BY <1>25 DEF Reads, LaysOver
  <2>4. /\ selected \in Profiles /\ live'["usd"] = own \cup stay
        /\ stay \subseteq Profiles
    BY <2>3, ProfileTypeIs DEF TypedButTodo, Parts
  <2>5. NoProfile \notin own
    BY <2>1, <2>4 DEF Parts, Texts
  <2>6. selected \in failed \/ own \subseteq Mine(selected)
    BY <2>4, <2>5 DEF ProfilesApart, Parts
  <2>7. side = NoText \/ (side = disk["side"][selected] /\ NoProfile \notin side.whose)
    BY <2>2, <2>4 DEF Parts, Texts
  <2>8. side = NoText \/ selected \in failed \/ side.whose \subseteq Mine(selected)
    BY <2>4, <2>7 DEF ProfilesApart, Parts
  <2>9. selected \notin kept \/ selected \in failed \/ selected \in own
    BY <1>25, ReadIs DEF Reads, InFile
  <2>10. selected \in failed \/ Mine(selected) \cup stay \subseteq Mine(selected)'
    BY <2>1, <2>3, <2>4 DEF Mine
  <2>11. MayHold("usd", selected, live["usd"])'
    BY <2>1, <2>4, <2>6, <2>9, <2>10 DEF MayHold
  <2>12. side = NoText \/ MayHold("side", selected, side.whose)'
    BY <2>1, <2>8, <2>10 DEF MayHold
  <2> QED
    BY <2>1, <2>2, <2>11, <2>12 DEF HalfLoaded, MayHold
<1>26. ASSUME ReadFails PROVE HalfLoaded'
  BY <1>26, KeepStep, HalfStays DEF ReadFails
<1>27. ASSUME TakesSideCar PROVE HalfLoaded'
  BY <1>27 DEF HalfLoaded, TakesSideCar
<1> QED
  BY <1>1, <1>2, <1>3, <1>4, <1>5, <1>6, <1>7, <1>8, <1>9, <1>10, <1>11, <1>12,
     <1>13, <1>14, <1>15, <1>16, <1>17, <1>18, <1>19, <1>20, <1>21, <1>22, <1>23,
     <1>24, <1>25, <1>26, <1>27
     DEF ProfileNext, FrameStep, StorageStep

\* Calls before others are some.
LEMMA JoinNotEmpty ==
  ASSUME NEW s \in Seq(StorageCalls), NEW q \in Seq(StorageCalls), q # <<>>
  PROVE  s \o q # <<>>
<1>1. Len(s \o q) = Len(s) + Len(q) /\ Len(s) \in Nat
  OBVIOUS
<1>2. Len(q) \in Nat /\ 1 <= Len(q)
  OBVIOUS
<1>3. Len(s \o q) # 0
  BY <1>1, <1>2
<1> QED
  BY <1>3

\* About to write for a save: the live settings are the active and the selected profile's.
LEMMA MustIs ==
  ASSUME ProfileInv, todo # <<>>, Next1.must
  PROVE  (active # NoProfile => Own(active)) /\ Own(selected)
<1>1. /\ InOrder(todo) /\ CallsSuit /\ Next1 = todo[1] /\ 1 \in 1 .. Len(todo)
      /\ Len(todo) \in 1 .. Len(todo)
  BY TodoIs DEF ProfileInv
<1>2. todo[Len(todo)].do = "activate"
  BY <1>1 DEF InOrder
<1> QED
  BY <1>1, <1>2 DEF CallsSuit, CallSuits

\* The calls of a deletion.
Deletion(file, other) ==
  <<Erase("usd", file), Erase("side", file), Do("deselect", other)>> \o Loading

\* A deletion's calls.
LEMMA DeletionIs ==
  ASSUME NEW file \in Profiles, NEW other \in Profiles, NEW q, q = Deletion(file, other)
  PROVE  /\ q \in Seq(StorageCalls) /\ q # <<>> /\ Len(q) = 6
         /\ q[1] = Erase("usd", file) /\ q[2] = Erase("side", file)
         /\ q[3] = Do("deselect", other) /\ q[4] = Do("sweep", NoProfile)
         /\ q[5] = Do("migrate", NoProfile) /\ q[6] = Do("read", NoProfile)
<1> DEFINE s == <<Erase("usd", file), Erase("side", file), Do("deselect", other)>>
<1>1. /\ s \in Seq(StorageCalls) /\ Len(s) = 3
      /\ s[1] = Erase("usd", file) /\ s[2] = Erase("side", file)
      /\ s[3] = Do("deselect", other)
  BY CallIs DEF Parts
<1> HIDE DEF s
<1>2. /\ q \in Seq(StorageCalls) /\ Len(q) = 6
      /\ \A i \in 1 .. 3 : q[i] = s[i]
      /\ \A i \in 4 .. 6 : q[i] = Loading[i - 3]
  <2>1. q = s \o Loading /\ Loading \in Seq(StorageCalls) /\ Len(Loading) = 3
    BY LoadingIs DEF s, Deletion
  <2>2. ASSUME NEW t \in Seq(StorageCalls), t = Loading
        PROVE  /\ s \o t \in Seq(StorageCalls) /\ Len(s \o t) = Len(s) + Len(t)
               /\ \A i \in 1 .. Len(s) : (s \o t)[i] = s[i]
               /\ \A i \in Len(s) + 1 .. Len(s) + Len(t) : (s \o t)[i] = t[i - Len(s)]
    BY <1>1, <2>2, JoinIs
  <2> QED
    BY <1>1, <2>1, <2>2
<1> QED
  BY <1>1, <1>2, LoadingIs

\* Live settings that are the active and the selected profile's stay so.
LEMMA OwnIsRest ==
  ASSUME FilesKeep, UNCHANGED <<selected, active, live>>,
         active # NoProfile => Own(active), Own(selected)
  PROVE  Rested'
<1>1. Own(selected)' /\ (active # NoProfile => Own(active)')
  BY OwnStays
<1> QED
  BY <1>1 DEF Rested

\* Nor does it change between operations.
LEMMA RestStays ==
  ASSUME Rested, FilesKeep, UNCHANGED <<disk, selected, active, live, load, todo>>
  PROVE  Rested'
<1>1. /\ Own(selected) => Own(selected)'
      /\ Own(active) => Own(active)'
  BY OwnStays
<1>2. (NeverLoaded => NeverLoaded') /\ (Unreadable(selected) => Unreadable(selected)')
  BY DEF NeverLoaded, Unreadable, OnDisk
<1> QED
  BY <1>1, <1>2 DEF Rested

\* Every operation ends with its own settings live.
LEMMA RestStep ==
  ASSUME ProfileInv, ProfileNext
  PROVE  Rested'
<1> USE DEF ProfileInv
<1>1. ASSUME OptionChanged PROVE Rested'
  BY <1>1, KeepStep, RestStays DEF OptionChanged, diskVars
<1>2. ASSUME ClearProfile PROVE Rested'
  BY <1>2 DEF Rested, ClearProfile
<1>3. ASSUME NEW file \in Profiles, Restart(file) PROVE Rested'
  BY <1>3, LoadingIs DEF Rested, Restart
<1>4. ASSUME NEW file \in Profiles, BindCharacter(file) PROVE Rested'
  BY <1>4, LoadingIs DEF Rested, BindCharacter
<1>5. ASSUME NEW file \in Profiles, PickProfile(file) PROVE Rested'
  BY <1>5, KeepStep, RestStays DEF PickProfile, diskVars
<1>6. ASSUME NEW file \in Profiles, CopyProfile(file) PROVE Rested'
  BY <1>6 DEF Rested, CopyProfile
<1>7. ASSUME NEW file \in Profiles, DeleteProfile(file) PROVE Rested'
  BY <1>7 DEF Rested, DeleteProfile
<1>8. ASSUME SaveRefused PROVE Rested'
  BY <1>8, KeepStep, RestStays DEF SaveRefused
<1>9. ASSUME Save PROVE Rested'
  BY <1>9 DEF Rested, Save
<1>10. ASSUME PickSelects PROVE Rested'
  BY <1>10, LoadingIs DEF Rested, PickSelects
<1>11. ASSUME Writes PROVE Rested'
  BY <1>11, HeadIs DEF Rested, Writes, Doing
<1>12. ASSUME WriteFails PROVE Rested'
  <2>1. todo # <<>> /\ Next1.do = "write"
    BY <1>12 DEF WriteFails, Doing
  <2>2. CASE ~Next1.must
    BY <1>12, <2>1, <2>2, HeadIs DEF WriteFails, Rested
  <2>3. CASE Next1.must
    <3>1. (active # NoProfile => Own(active)) /\ Own(selected)
      BY <2>1, <2>3, MustIs
    <3>2. UNCHANGED <<selected, active, live>>
      BY <1>12 DEF WriteFails
    <3> QED
      BY <3>1, <3>2, KeepStep, OwnIsRest
  <2> QED
    BY <2>2, <2>3
<1>13. ASSUME Erases PROVE Rested'
  BY <1>13, HeadIs DEF Rested, Erases, Doing
<1>14. ASSUME Deselects PROVE Rested'
  BY <1>14, HeadIs DEF Rested, Deselects, Doing
<1>15. ASSUME Activates PROVE Rested'
  <2>1. active' = selected /\ UNCHANGED <<selected, live>> /\ Own(selected)
    BY <1>15, HeadIs DEF Activates, Doing
  <2>2. Own(selected)'
    BY <2>1, KeepStep, OwnStays
  <2> QED
    BY <2>1, <2>2 DEF Rested
<1>16. ASSUME RemovesOld PROVE Rested'
  BY <1>16, HeadIs DEF Rested, RemovesOld, Doing
<1>17. ASSUME NEW file \in Profiles, Sweeps(file) PROVE Rested'
  <2>1. todo # <<>> /\ todo \in Seq(StorageCalls)
    BY <1>17, TodoIs DEF Sweeps, Doing
  <2>2. /\ <<Do("remove", file)>> \in Seq(StorageCalls)
        /\ Migration(file, OnlyOf(file)) \in Seq(StorageCalls)
    <3>1. OnlyOf(file) \in [Parts -> SUBSET Profiles]
      BY DEF OnlyOf
    <3>2. Migration(file, OnlyOf(file)) \in Seq(StorageCalls)
      BY <3>1, MigrationIs
    <3>3. Do("remove", file) \in StorageCalls
      BY CallIs
    <3> QED
      BY <3>2, <3>3
  <2>3. /\ <<Do("remove", file)>> \o todo # <<>>
        /\ Migration(file, OnlyOf(file)) \o todo # <<>>
    BY <2>1, <2>2, JoinNotEmpty
  <2> QED
    BY <1>17, <2>1, <2>3 DEF Sweeps, Rested
<1>18. ASSUME NEW file \in Profiles, SweepUnread(file) PROVE Rested'
  BY <1>18 DEF Rested, SweepUnread, Doing
<1>19. ASSUME NEW file \in Profiles, SweepFails(file) PROVE Rested'
  <2>1. /\ UNCHANGED <<selected, active, live>> /\ failed' = failed \cup {selected}
        /\ active # NoProfile => Own(active)
    BY <1>19, LoadIs DEF SweepFails, StorageFails
  <2>2. Own(selected)'
    BY <2>1 DEF Own, MayHold
  <2>3. active # NoProfile => Own(active)'
    BY <2>1, KeepStep, OwnStays
  <2> QED
    BY <2>1, <2>2, <2>3 DEF Rested
<1>20. ASSUME Swept PROVE Rested'
  BY <1>20, HeadIs DEF Rested, Swept, Doing
<1>21. ASSUME Migrates PROVE Rested'
  <2>1. /\ todo # <<>> /\ Tail(todo) # <<>> /\ Tail(todo) \in Seq(StorageCalls)
        /\ selected \in Profiles
    BY <1>21, HeadIs, ProfileTypeIs DEF Migrates, Doing, TypedButTodo
  <2>2. Migration(selected, live') \o Tail(todo) # <<>>
    <3>1. live' \in [Parts -> SUBSET Profiles]
      BY ProfileTypeStep DEF TypedButTodo
    <3>2. ASSUME NEW w \in [Parts -> SUBSET Profiles]
          PROVE  Migration(selected, w) \o Tail(todo) # <<>>
      BY <2>1, MigrationIs, JoinNotEmpty
    <3> QED
      BY <3>1, <3>2
  <2> QED
    BY <1>21, <2>1, <2>2 DEF Migrates, Rested
<1>22. ASSUME MigratesUnread PROVE Rested'
  BY <1>22, HeadIs DEF Rested, MigratesUnread, Doing
<1>23. ASSUME ReadsNone PROVE Rested'
  BY <1>23, ProfileTypeIs, ProfileAssumption DEF Rested, NoLoad, TypedButTodo, ReadsNone
<1>24. ASSUME ReadsBad PROVE Rested'
  <2>1. /\ UNCHANGED <<disk, active, live>> /\ Unreadable(selected)
        /\ selected' = IF active = NoProfile THEN selected ELSE active
        /\ active # NoProfile => Own(active)
    BY <1>24, ReadIs DEF ReadsBad
  <2>2. active # NoProfile => Own(active)'
    BY <2>1, KeepStep, OwnStays
  <2>3. active = NoProfile => Unreadable(selected)'
    BY <2>1 DEF Unreadable
  <2> QED
    BY <2>1, <2>2, <2>3 DEF Rested
<1>25. ASSUME Reads PROVE Rested'
  BY <1>25, ProfileTypeIs, ProfileAssumption DEF Rested, NoLoad, TypedButTodo, Reads
<1>26. ASSUME ReadFails PROVE Rested'
  <2>1. /\ UNCHANGED <<selected, active, live>> /\ kept' \subseteq kept
        /\ failed' = failed \cup {selected} \cup LeftActive
        /\ laidOver \ (failed' \X Profiles) \subseteq laidOver'
    BY <1>26 DEF ReadFails, StorageFails
  <2>2. active # NoProfile => StillLive(active)
    BY <1>26, ReadIs, LoadIs, OwnIsLive DEF ReadFails
  <2>3. ASSUME active # NoProfile PROVE Own(active)'
    <3> SUFFICES ASSUME active \notin failed', NEW p \in Parts
                 PROVE  MayHold(p, active, live[p])'
      BY <2>1 DEF Own, MayHold
    <3>1. live[p] \subseteq Mine(active)
      BY <2>1, <2>3 DEF LeftActive
    <3>2. active \notin kept \/ active \in live["usd"]
      BY <2>1, <2>2, <2>3 DEF StillLive
    <3> QED
      BY <2>1, <3>1, <3>2 DEF MayHold, Mine
  <2>4. Own(selected)'
    BY <2>1 DEF Own, MayHold
  <2> QED
    BY <2>1, <2>3, <2>4 DEF Rested
<1>27. ASSUME TakesSideCar PROVE Rested'
  <2>1. /\ load # NoLoad /\ active' = load.file /\ load.file = selected
        /\ UNCHANGED selected
        /\ live' = [live EXCEPT !["side"] =
                      IF load.side # NoText /\ load.side.readable
                      THEN load.side.whose ELSE Shipped]
    BY <1>27 DEF TakesSideCar, OneThing, diskVars
  <2>2. /\ live'["usd"] = live["usd"]
        /\ live'["side"] = Shipped
             \/ (load.side # NoText /\ live'["side"] = load.side.whose)
    BY <2>1, ProfileTypeIs DEF TypedButTodo, Parts
  <2>3. MayHold("side", selected, Shipped)
    BY DEF MayHold, Shipped
  <2>4. MayHold("usd", selected, live'["usd"]) /\ MayHold("side", selected, live'["side"])
    BY <2>1, <2>2, <2>3 DEF HalfLoaded
  <2>5. ASSUME NEW f, f = selected, NEW w, w = live'
        PROVE  MayHold("usd", f, w["usd"])' /\ MayHold("side", f, w["side"])'
    BY <2>4, <2>5, KeepStep, HoldStays
  <2>6. Own(selected)'
    BY <2>1, <2>5 DEF Own, Parts
  <2> QED
    BY <2>1, <2>6 DEF Rested
<1> QED
  BY <1>1, <1>2, <1>3, <1>4, <1>5, <1>6, <1>7, <1>8, <1>9, <1>10, <1>11, <1>12,
     <1>13, <1>14, <1>15, <1>16, <1>17, <1>18, <1>19, <1>20, <1>21, <1>22, <1>23,
     <1>24, <1>25, <1>26, <1>27
     DEF ProfileNext, FrameStep, StorageStep

\* CallsSuit of any calls.
AllSuit(calls) == \A i \in 1 .. Len(calls) : CallSuits(calls[i]) /\ RemovalSuits(calls, i)

\* What the storage made of the call at the head.
HeadDone == \A f \in Profiles : WritesOwn(Next1, f) => InFile(f)'

\* A call that fits goes on to: the live settings and the active profile change only
\* where no save is under way.
LEMMA CallStays ==
  ASSUME FilesKeep, NEW call, CallSuits(call),
         UNCHANGED <<live, selected, active>> \/ (call.do # "activate" /\ ~call.must)
  PROVE  CallSuits(call)'
<1>1. call.do = "write" => MayHold(call.part, call.file, call.whose)'
  BY HoldStays DEF CallSuits
<1>2. call.do = "erase" => call.file \notin kept'
  BY DEF CallSuits, FilesKeep
<1>3. call.do = "activate" => call.file = selected' /\ Own(selected)'
  BY OwnStays DEF CallSuits
<1>4. call.must /\ active' # NoProfile => Own(active)'
  BY OwnStays DEF CallSuits
<1> QED
  BY <1>1, <1>2, <1>3, <1>4 DEF CallSuits

\* A call of the operation under way goes on to suit.
LEMMA CallOfTodoStays ==
  ASSUME ProfileInv, FilesKeep, UNCHANGED <<live, selected, active>> \/ EndsIn("read"),
         NEW i \in 1 .. Len(todo), NEW call, call = todo[i]
  PROVE  CallSuits(call)'
<1>1. InOrder(todo) /\ CallSuits(call) /\ todo # <<>> /\ Len(todo) \in 1 .. Len(todo)
  BY DEF ProfileInv, CallsSuit
<1>2. EndsIn("read") => call.do # "activate" /\ ~call.must
  BY <1>1 DEF InOrder, EndsIn
<1> QED
  BY <1>1, <1>2, CallStays

\* The calls left as they are go on to suit.
LEMMA SameSuits ==
  ASSUME ProfileInv, FilesKeep, UNCHANGED <<live, selected, active>> \/ EndsIn("read"),
         NEW q, q = todo
  PROVE  AllSuit(q)'
<1> SUFFICES ASSUME NEW i \in 1 .. Len(q) PROVE CallSuits(q[i])' /\ RemovalSuits(q, i)'
  BY DEF AllSuit
<1>1. CallSuits(q[i])'
  BY CallOfTodoStays
<1>2. q[i].do = "remove" => q[i].file \in Profiles
  BY DEF ProfileInv, InOrder
<1>3. RemovalSuits(q, i)
  BY DEF ProfileInv, CallsSuit
<1>4. RemovalSuits(q, i)'
  BY <1>2, <1>3 DEF RemovalSuits, FilesKeep
<1> QED
  BY <1>1, <1>4

\* So do those after the first, once the first is made.
LEMMA TailSuits ==
  ASSUME ProfileInv, FilesKeep, HeadDone, todo # <<>>,
         UNCHANGED <<live, selected, active>> \/ EndsIn("read"),
         NEW q, q = Tail(todo)
  PROVE  AllSuit(q)'
<1>1. /\ Len(todo) \in Nat /\ Len(q) = Len(todo) - 1 /\ Next1 = todo[1]
      /\ \A i \in 1 .. Len(todo) - 1 : q[i] = todo[i + 1]
  BY TodoIs DEF ProfileInv
<1> SUFFICES ASSUME NEW i \in 1 .. Len(q) PROVE CallSuits(q[i])' /\ RemovalSuits(q, i)'
  BY DEF AllSuit
<1>2. i + 1 \in 1 .. Len(todo) /\ q[i] = todo[i + 1] /\ i + 1 - 1 = i
  BY <1>1
<1>3. CallSuits(q[i])'
  BY <1>2, CallOfTodoStays
<1>4. ASSUME q[i].do = "remove" PROVE RemovalSuits(q, i)'
  <2> DEFINE f == q[i].file
  <2>1. f \in Profiles
    BY <1>2, <1>4 DEF ProfileInv, InOrder
  <2>2. InFile(f) \/ \E j \in 1 .. i : WritesOwn(todo[j], f)
    BY <1>2, <1>4 DEF ProfileInv, CallsSuit, RemovalSuits
  <2>3. CASE InFile(f)
    BY <2>1, <2>3 DEF FilesKeep, RemovalSuits
  <2>4. CASE WritesOwn(todo[1], f)
    BY <1>1, <2>1, <2>4 DEF HeadDone, RemovalSuits
  <2>5. ASSUME NEW j \in 2 .. i, WritesOwn(todo[j], f) PROVE RemovalSuits(q, i)'
    <3>1. j - 1 \in 1 .. i - 1 /\ j - 1 \in 1 .. Len(todo) - 1 /\ j - 1 + 1 = j
      BY <1>1, <1>2
    <3>2. WritesOwn(q[j - 1], f)
      BY <1>1, <2>5, <3>1
    <3> QED
      BY <3>1, <3>2 DEF RemovalSuits
  <2>6. \A j \in 1 .. i : j = 1 \/ j \in 2 .. i
    BY <1>1
  <2> QED
    BY <2>2, <2>3, <2>4, <2>5, <2>6
<1> QED
  BY <1>3, <1>4 DEF RemovalSuits

\* Calls that suit before calls that suit.
LEMMA JoinSuits ==
  ASSUME NEW s \in Seq(StorageCalls), NEW q \in Seq(StorageCalls),
         AllSuit(s)', AllSuit(q)', NEW t, t = s \o q
  PROVE  AllSuit(t)'
<1>1. /\ Len(s) \in Nat /\ Len(q) \in Nat /\ Len(t) = Len(s) + Len(q)
      /\ \A i \in 1 .. Len(s) : t[i] = s[i]
      /\ \A i \in Len(s) + 1 .. Len(s) + Len(q) : t[i] = q[i - Len(s)]
  OBVIOUS
<1> SUFFICES ASSUME NEW i \in 1 .. Len(s) + Len(q)
             PROVE  CallSuits(t[i])' /\ RemovalSuits(t, i)'
  BY <1>1 DEF AllSuit
<1>2. CASE i <= Len(s)
  <2>1. i \in 1 .. Len(s) /\ t[i] = s[i]
    BY <1>1, <1>2
  <2>2. CallSuits(s[i])' /\ RemovalSuits(s, i)'
    BY <2>1 DEF AllSuit
  <2>3. \A j \in 1 .. i - 1 : t[j] = s[j]
    BY <1>1, <2>1
  <2> QED
    BY <2>1, <2>2, <2>3 DEF RemovalSuits
<1>3. CASE Len(s) < i
  <2>1. /\ i \in Len(s) + 1 .. Len(s) + Len(q) /\ i - Len(s) \in 1 .. Len(q)
        /\ t[i] = q[i - Len(s)]
    BY <1>1, <1>3
  <2>2. CallSuits(q[i - Len(s)])' /\ RemovalSuits(q, i - Len(s))'
    BY <2>1 DEF AllSuit
  <2>3. ASSUME NEW j \in 1 .. i - Len(s) - 1
        PROVE  j + Len(s) \in 1 .. i - 1 /\ t[j + Len(s)] = q[j]
    <3>1. j + Len(s) \in Len(s) + 1 .. Len(s) + Len(q) /\ j + Len(s) - Len(s) = j
      BY <1>1, <2>1
    <3> QED
      BY <1>1, <2>1, <3>1
  <2> QED
    BY <2>1, <2>2, <2>3 DEF RemovalSuits
<1> QED
  BY <1>1, <1>2, <1>3

\* A migration writes what the file may hold, its own settings, before it deletes.
LEMMA MigrationSuits ==
  ASSUME NEW f \in Profiles, NEW w \in [Parts -> SUBSET Profiles], f \in w["usd"],
         MayHold("usd", f, w["usd"])', MayHold("side", f, w["side"])',
         NEW s, s = Migration(f, w)
  PROVE  AllSuit(s)'
<1>1. /\ Len(s) = 3 /\ s[1] = Write("usd", f, w["usd"], FALSE)
      /\ s[2] = Write("side", f, w["side"], FALSE) /\ s[3] = Do("remove", f)
  BY MigrationIs
<1>2. /\ CallSuits(s[1])' /\ RemovalSuits(s, 1)'
  BY <1>1 DEF CallSuits, RemovalSuits, Write
<1>3. /\ CallSuits(s[2])' /\ RemovalSuits(s, 2)'
  BY <1>1 DEF CallSuits, RemovalSuits, Write
<1>4. CallSuits(s[3])'
  BY <1>1 DEF CallSuits, Do
<1>5. RemovalSuits(s, 3)'
  <2>1. 1 \in 1 .. 3 - 1 /\ WritesOwn(s[1], s[3].file)
    BY <1>1 DEF Do, Write, WritesOwn
  <2> QED
    BY <2>1 DEF RemovalSuits
<1>6. ASSUME NEW i \in 1 .. Len(s) PROVE CallSuits(s[i])' /\ RemovalSuits(s, i)'
  <2>1. i = 1 \/ i = 2 \/ i = 3
    BY <1>1
  <2> QED
    BY <1>2, <1>3, <1>4, <1>5, <2>1
<1> QED
  BY <1>6 DEF AllSuit

\* An old file whose settings are in the new one may be deleted.
LEMMA RemovalOfHeldSuits ==
  ASSUME NEW f \in Profiles, InFile(f)', NEW s, s = <<Do("remove", f)>>
  PROVE  AllSuit(s)'
<1>1. Len(s) = 1 /\ s[1] = Do("remove", f)
  OBVIOUS
<1> QED
  BY <1>1 DEF AllSuit, CallSuits, RemovalSuits, Do

\* A load's calls write nothing.
LEMMA LoadingSuits ==
  ASSUME NEW q, q = Loading
  PROVE  AllSuit(q)'
  BY LoadingIs DEF AllSuit, CallSuits, RemovalSuits, Do

\* The writes of a save, a clear or a copy.
LEMMA ThreeSuit ==
  ASSUME NEW file \in Profiles, NEW usd \in SUBSET Profiles,
         NEW side \in SUBSET Profiles, NEW must \in BOOLEAN,
         NEW q, q = <<Write("usd", file, usd, must), Write("side", file, side, must),
                      Do("activate", file)>>,
         MayHold("usd", file, usd)', MayHold("side", file, side)', file = selected',
         Own(selected)', (must /\ active # NoProfile => Own(active))'
  PROVE  AllSuit(q)'
<1>1. /\ Len(q) = 3 /\ q[1] = Write("usd", file, usd, must)
      /\ q[2] = Write("side", file, side, must) /\ q[3] = Do("activate", file)
  OBVIOUS
<1>2. CallSuits(q[1])' /\ RemovalSuits(q, 1)'
  BY <1>1 DEF CallSuits, RemovalSuits, Write
<1>3. CallSuits(q[2])' /\ RemovalSuits(q, 2)'
  BY <1>1 DEF CallSuits, RemovalSuits, Write
<1>4. CallSuits(q[3])' /\ RemovalSuits(q, 3)'
  BY <1>1 DEF CallSuits, RemovalSuits, Do
<1> QED
  BY <1>1, <1>2, <1>3, <1>4 DEF AllSuit


\* No calls.
LEMMA EmptySuits == \A i \in 1 .. Len(<<>>) : FALSE
  OBVIOUS

\* A write the storage did not take is no longer asked for.
LEMMA FailedIsDone ==
  ASSUME ProfileInv, WriteFails
  PROVE  HeadDone
  BY DEF ProfileInv, WriteFails, StorageFails, HeadDone, WritesOwn, InFile, AllInFiles

\* Every step keeps that the calls suit.
LEMMA SuitStep ==
  ASSUME ProfileInv, ProfileNext
  PROVE  CallsSuit'
<1> USE DEF ProfileInv
<1>1. ASSUME OptionChanged PROVE CallsSuit'
  BY <1>1 DEF Whole, CallsSuit, OptionChanged
<1>2. ASSUME ClearProfile PROVE CallsSuit'
  <2>1. todo' = <<Write("usd", selected, Shipped, FALSE),
          Write("side", selected, Shipped, FALSE),
                  Do("activate", selected)>>
    BY <1>2 DEF ClearProfile
  <2>2. /\ UNCHANGED selected /\ selected \notin kept'
        /\ live' = [live EXCEPT !["side"] = Shipped]
        /\ UNCHANGED failed
        /\ selected \in failed
             \/ laidOver' = laidOver \cup ({selected} \X (live["usd"] \ {selected}))
    BY <1>2 DEF ClearProfile, LaysOver
  <2>3. MayHold("usd", selected, Shipped)' /\ MayHold("side", selected, Shipped)'
    BY <2>2 DEF MayHold, Shipped
  <2>4. /\ Shipped \in SUBSET Profiles /\ selected \in Profiles
        /\ live \in [Parts -> SUBSET Profiles]
    BY ProfileTypeIs DEF TypedButTodo, Shipped
  <2>5. /\ live'["usd"] = live["usd"] /\ live'["side"] = Shipped
        /\ live["usd"] \subseteq Profiles
    BY <2>2, <2>4 DEF Parts
  <2>6. selected \in failed' \/ live["usd"] \subseteq Mine(selected)'
    BY <2>2, <2>5 DEF Mine
  <2>7. Own(selected)'
    BY <2>2, <2>3, <2>5, <2>6 DEF Own, MayHold, Parts
  <2> QED
    BY <2>1, <2>2, <2>3, <2>4, <2>7, ThreeSuit DEF CallsSuit, AllSuit
<1>3. ASSUME NEW file \in Profiles, Restart(file) PROVE CallsSuit'
  BY <1>3, LoadingSuits DEF CallsSuit, AllSuit, Restart
<1>4. ASSUME NEW file \in Profiles, BindCharacter(file) PROVE CallsSuit'
  BY <1>4, LoadingSuits DEF CallsSuit, AllSuit, BindCharacter
<1>5. ASSUME NEW file \in Profiles, PickProfile(file) PROVE CallsSuit'
  BY <1>5 DEF Whole, CallsSuit, PickProfile
<1>6. ASSUME NEW file \in Profiles, CopyProfile(file) PROVE CallsSuit'
  <2>1. todo' = <<Write("usd", file, {file}, FALSE), Write("side", file, {file}, FALSE),
                  Do("activate", file)>>
    BY <1>6 DEF CopyProfile
  <2>2. selected' = file /\ file \notin kept' /\ live' = OnlyOf(file)
    BY <1>6 DEF CopyProfile
  <2>3. \A p \in Parts : MayHold(p, file, {file})'
    BY <2>2 DEF MayHold, Mine
  <2>4. Own(selected)'
    BY <2>2, <2>3 DEF Own, OnlyOf
  <2>5. {file} \in SUBSET Profiles /\ "usd" \in Parts /\ "side" \in Parts
    BY DEF Parts
  <2> QED
    BY <2>1, <2>2, <2>3, <2>4, <2>5, ThreeSuit DEF CallsSuit, AllSuit
<1>7. ASSUME NEW file \in Profiles, DeleteProfile(file) PROVE CallsSuit'
  <2>1. todo' = <<Erase("usd", selected), Erase("side", selected),
          Do("deselect", file)>> \o Loading
    BY <1>7 DEF DeleteProfile
  <2>2. selected \in Profiles /\ selected \notin kept'
    BY <1>7, ProfileTypeIs DEF DeleteProfile, TypedButTodo
  <2>3. ASSUME NEW q, q = todo' PROVE AllSuit(q)'
    <3>1. /\ Len(q) = 6 /\ q[1] = Erase("usd", selected) /\ q[2] = Erase("side", selected)
          /\ q[3] = Do("deselect", file) /\ q[4] = Do("sweep", NoProfile)
          /\ q[5] = Do("migrate", NoProfile) /\ q[6] = Do("read", NoProfile)
      <4>1. ASSUME NEW f \in Profiles, f = selected
            PROVE  /\ Len(q) = 6 /\ q[1] = Erase("usd", f) /\ q[2] = Erase("side", f)
                   /\ q[3] = Do("deselect", file) /\ q[4] = Do("sweep", NoProfile)
                   /\ q[5] = Do("migrate", NoProfile) /\ q[6] = Do("read", NoProfile)
        <5>1. q = Deletion(f, file)
          BY <2>1, <2>3, <4>1 DEF Deletion
        <5> QED
          BY <5>1, DeletionIs
      <4> QED
        BY <2>2, <4>1
    <3>2. \A i \in 1 .. 2 : CallSuits(q[i])'
      BY <2>2, <3>1 DEF CallSuits, Erase, Do
    <3>3. \A i \in 3 .. 6 : CallSuits(q[i])'
      BY <3>1 DEF CallSuits, Do
    <3>4. \A i \in 1 .. 6 : q[i].do # "remove"
      BY <3>1 DEF Erase, Do
    <3> QED
      BY <3>1, <3>2, <3>3, <3>4 DEF AllSuit, RemovalSuits
  <2> QED
    BY <2>3 DEF CallsSuit, AllSuit
<1>8. ASSUME SaveRefused PROVE CallsSuit'
  BY <1>8 DEF CallsSuit, SaveRefused
<1>9. ASSUME Save PROVE CallsSuit'
  <2>1. todo' = <<Write("usd", selected, live["usd"], TRUE),
                  Write("side", selected, live["side"], TRUE), Do("activate", selected)>>
    BY <1>9 DEF Save
  <2>2. (active # NoProfile => Own(active)) /\ Own(selected)
    BY <1>9 DEF Save, Rested, OneThing
  <2>3. /\ Own(selected)' /\ (active # NoProfile => Own(active))'
        /\ UNCHANGED <<selected, live>>
    <3>1. UNCHANGED <<selected, active, live>>
      BY <1>9 DEF Save
    <3> QED
      BY <2>2, <3>1, KeepStep, OwnStays
  <2>4. /\ live["usd"] \in SUBSET Profiles
             /\ live["side"] \in SUBSET Profiles
        /\ selected \in Profiles
    BY ProfileTypeIs DEF TypedButTodo, Parts
  <2>5. ASSUME NEW f \in Profiles, f = selected, NEW u \in SUBSET Profiles,
               u = live["usd"],
               NEW v \in SUBSET Profiles, v = live["side"], NEW q, q = todo'
        PROVE  AllSuit(q)'
    <3>1. q = <<Write("usd", f, u, TRUE), Write("side", f, v, TRUE), Do("activate", f)>>
      BY <2>1, <2>5
    <3>2. MayHold("usd", f, u)' /\ MayHold("side", f, v)'
      <4>1. MayHold("usd", f, u) /\ MayHold("side", f, v)
        BY <2>2, <2>5 DEF Own, Parts
      <4> QED
        BY <4>1, KeepStep, HoldStays
    <3>3. f = selected' /\ TRUE \in BOOLEAN
      BY <2>3, <2>5
    <3> QED
      BY <2>3, <3>1, <3>2, <3>3, ThreeSuit
  <2> QED
    BY <2>4, <2>5 DEF CallsSuit, AllSuit
<1>10. ASSUME PickSelects PROVE CallsSuit'
  BY <1>10, LoadingSuits DEF CallsSuit, AllSuit, PickSelects
<1>11. ASSUME Writes PROVE CallsSuit'
  <2>1. todo # <<>> /\ Next1.do = "write"
    BY <1>11 DEF Writes, Doing
  <2>2. HeadDone
    <3>1. disk' = [disk EXCEPT ![Next1.part][Next1.file] = Text(Next1.whose, TRUE)]
      BY <1>11 DEF Writes
    <3> QED
      BY <3>1, ProfileTypeIs DEF HeadDone, InFile, WritesOwn, TypedButTodo, Parts, Text
  <2>3. todo' = Tail(todo) /\ UNCHANGED <<live, selected, active>>
    BY <1>11 DEF Writes
  <2> QED
    BY <2>1, <2>2, <2>3, KeepStep, TailSuits DEF CallsSuit, AllSuit
<1>12. ASSUME WriteFails PROVE CallsSuit'
  <2>1. todo # <<>> /\ Next1.do = "write"
    BY <1>12 DEF WriteFails, Doing
  <2>2. HeadDone
    BY <1>12, FailedIsDone
  <2>3. (todo' = <<>> \/ todo' = Tail(todo)) /\ UNCHANGED <<live, selected, active>>
    BY <1>12 DEF WriteFails
  <2> QED
    BY <2>1, <2>2, <2>3, KeepStep, TailSuits DEF CallsSuit, AllSuit
<1>13. ASSUME Erases PROVE CallsSuit'
  <2>1. todo # <<>> /\ Next1.do = "erase"
    BY <1>13 DEF Erases, Doing
  <2>2. HeadDone
    BY <2>1 DEF HeadDone, WritesOwn
  <2>3. todo' = Tail(todo) /\ (UNCHANGED <<live, selected, active>> \/ EndsIn("read"))
    BY <1>13, <2>1 DEF Erases
  <2> QED
    BY <2>1, <2>2, <2>3, KeepStep, TailSuits DEF CallsSuit, AllSuit
<1>14. ASSUME Deselects PROVE CallsSuit'
  <2>1. todo # <<>> /\ Next1.do = "deselect"
    BY <1>14 DEF Deselects, Doing
  <2>2. HeadDone
    BY <2>1 DEF HeadDone, WritesOwn
  <2>3. todo' = Tail(todo) /\ (UNCHANGED <<live, selected, active>> \/ EndsIn("read"))
    BY <1>14, <2>1, LastIs DEF Deselects
  <2> QED
    BY <2>1, <2>2, <2>3, KeepStep, TailSuits DEF CallsSuit, AllSuit
<1>15. ASSUME Activates PROVE CallsSuit'
  <2>1. todo # <<>> /\ Next1.do = "activate"
    BY <1>15 DEF Activates, Doing
  <2> QED
    BY <1>15, <2>1, HeadIs, EmptySuits DEF Activates, CallsSuit
<1>16. ASSUME RemovesOld PROVE CallsSuit'
  <2>1. todo # <<>> /\ Next1.do = "remove"
    BY <1>16 DEF RemovesOld, Doing
  <2>2. HeadDone
    BY <2>1 DEF HeadDone, WritesOwn
  <2>3. todo' = Tail(todo) /\ (UNCHANGED <<live, selected, active>> \/ EndsIn("read"))
    BY <1>16, <2>1 DEF RemovesOld
  <2> QED
    BY <2>1, <2>2, <2>3, KeepStep, TailSuits DEF CallsSuit, AllSuit
<1>17. ASSUME NEW file \in Profiles, Sweeps(file) PROVE CallsSuit'
  <2>1. todo # <<>> /\ todo \in Seq(StorageCalls) /\ UNCHANGED <<live, selected, active>>
    BY <1>17, TodoIs DEF Sweeps, Doing
  <2>2. ASSUME NEW q, q = todo, NEW s, s = <<Do("remove", file)>>, todo' = s \o q,
               file \in legacy, OnDisk("usd", file)
        PROVE  CallsSuit'
    <3>1. InFile(file)'
      BY <2>2, KeepStep DEF AllInFiles, FilesKeep
    <3>2. s \in Seq(StorageCalls) /\ AllSuit(s)' /\ AllSuit(q)'
      BY <2>1, <2>2, <3>1, KeepStep, CallIs, RemovalOfHeldSuits, SameSuits
    <3> QED
      BY <2>1, <2>2, <3>2, JoinSuits DEF CallsSuit, AllSuit
  <2>3. ASSUME NEW q, q = todo, NEW w, w = OnlyOf(file), NEW s, s = Migration(file, w),
               todo' = s \o q
        PROVE  CallsSuit'
    <3>1. w \in [Parts -> SUBSET Profiles] /\ w["usd"] = {file} /\ w["side"] = {file}
      BY <2>3 DEF OnlyOf, Parts
    <3>2. \A p \in Parts : MayHold(p, file, {file})'
      BY DEF MayHold, Mine
    <3>3. s \in Seq(StorageCalls)
      BY <2>3, <3>1, MigrationIs
    <3>4. AllSuit(s)'
      BY <2>3, <3>1, <3>2, MigrationSuits DEF Parts
    <3>5. AllSuit(q)'
      BY <2>1, <2>3, KeepStep, SameSuits
    <3> QED
      BY <2>1, <2>3, <3>3, <3>4, <3>5, JoinSuits DEF CallsSuit, AllSuit
  <2>4. ASSUME NEW q, q = todo, todo' = q PROVE CallsSuit'
    BY <2>1, <2>4, KeepStep, SameSuits DEF CallsSuit, AllSuit
  <2> QED
    BY <1>17, <2>2, <2>3, <2>4 DEF Sweeps
<1>18. ASSUME NEW file \in Profiles, SweepUnread(file) PROVE CallsSuit'
  BY <1>18, KeepStep, SameSuits DEF CallsSuit, AllSuit, SweepUnread
<1>19. ASSUME NEW file \in Profiles, SweepFails(file) PROVE CallsSuit'
  BY <1>19 DEF CallsSuit, SweepFails
<1>20. ASSUME Swept PROVE CallsSuit'
  <2>1. todo # <<>> /\ Next1.do = "sweep"
    BY <1>20 DEF Swept, Doing
  <2>2. HeadDone
    BY <2>1 DEF HeadDone, WritesOwn
  <2>3. todo' = Tail(todo) /\ (UNCHANGED <<live, selected, active>> \/ EndsIn("read"))
    BY <1>20, <2>1 DEF Swept
  <2> QED
    BY <2>1, <2>2, <2>3, KeepStep, TailSuits DEF CallsSuit, AllSuit
<1>21. ASSUME Migrates PROVE CallsSuit'
  <2>1. todo # <<>> /\ Next1.do = "migrate"
    BY <1>21 DEF Migrates, Doing
  <2>2. HeadDone
    BY <2>1 DEF HeadDone, WritesOwn
  <2>3. EndsIn("read") /\ Tail(todo) \in Seq(StorageCalls) /\ selected \in Profiles
    BY <2>1, LastIs, ProfileTypeIs DEF TypedButTodo
  <2>4. ASSUME live' = [p \in Parts |-> live[p] \cup {selected}],
               LaysOver(live["usd"] \cup live["side"]),
               todo' = Migration(selected, live') \o Tail(todo)
        PROVE  CallsSuit'
    <3>1. live' \in [Parts -> SUBSET Profiles] /\ UNCHANGED selected
      BY <1>21, ProfileTypeStep DEF TypedButTodo, Migrates
    <3>2. /\ live["usd"] \subseteq Profiles /\ live["side"] \subseteq Profiles
          /\ live'["usd"] = live["usd"] \cup {selected}
          /\ live'["side"] = live["side"] \cup {selected}
      BY <2>4, ProfileTypeIs DEF TypedButTodo, Parts
    <3>3. \/ selected \in failed'
          \/ /\ live'["usd"] \subseteq Mine(selected)'
             /\ live'["side"] \subseteq Mine(selected)'
      BY <1>21, <2>4, <3>1, <3>2 DEF Migrates, LaysOver, Mine, diskVars
    <3>4. /\ MayHold("usd", selected, live["usd"])'
          /\ MayHold("side", selected, live["side"])'
      BY <3>1, <3>2, <3>3 DEF MayHold
    <3>5. ASSUME NEW f \in Profiles, f = selected, NEW q, q = Tail(todo),
                 NEW w \in [Parts -> SUBSET Profiles], w = live',
                 NEW s, s = Migration(f, w)
          PROVE  CallsSuit'
      <4>1. s \in Seq(StorageCalls)
        BY <3>5, MigrationIs
      <4>2. /\ MayHold("usd", f, w["usd"])' /\ MayHold("side", f, w["side"])'
            /\ f \in w["usd"]
        BY <3>1, <3>2, <3>4, <3>5 DEF MayHold
      <4>3. AllSuit(s)'
        BY <3>5, <4>2, MigrationSuits
      <4>4. AllSuit(q)'
        BY <2>1, <2>2, <2>3, <3>5, KeepStep, TailSuits
      <4>5. todo' = s \o q
        BY <2>4, <3>5
      <4> QED
        BY <2>3, <3>5, <4>1, <4>3, <4>4, <4>5, JoinSuits DEF CallsSuit, AllSuit
    <3> QED
      BY <2>3, <3>1, <3>5
  <2>5. ASSUME NEW q, q = Tail(todo), todo' = q PROVE CallsSuit'
    BY <2>1, <2>2, <2>3, <2>5, KeepStep, TailSuits DEF CallsSuit, AllSuit
  <2> QED
    BY <1>21, <2>4, <2>5 DEF Migrates
<1>22. ASSUME MigratesUnread PROVE CallsSuit'
  <2>1. todo # <<>> /\ Next1.do = "migrate"
    BY <1>22 DEF MigratesUnread, Doing
  <2>2. HeadDone
    BY <2>1 DEF HeadDone, WritesOwn
  <2>3. todo' = Tail(todo) /\ (UNCHANGED <<live, selected, active>> \/ EndsIn("read"))
    BY <1>22, <2>1 DEF MigratesUnread
  <2> QED
    BY <2>1, <2>2, <2>3, KeepStep, TailSuits DEF CallsSuit, AllSuit
<1>23. ASSUME ReadsNone PROVE CallsSuit'
  <2>1. todo # <<>> /\ Next1.do = "read"
    BY <1>23 DEF ReadsNone, Doing
  <2> QED
    BY <1>23, <2>1, HeadIs, EmptySuits DEF ReadsNone, CallsSuit
<1>24. ASSUME ReadsBad PROVE CallsSuit'
  <2>1. todo # <<>> /\ Next1.do = "read"
    BY <1>24 DEF ReadsBad, Doing
  <2> QED
    BY <1>24, <2>1, HeadIs, EmptySuits DEF ReadsBad, CallsSuit
<1>25. ASSUME Reads PROVE CallsSuit'
  <2>1. todo # <<>> /\ Next1.do = "read"
    BY <1>25 DEF Reads, Doing
  <2> QED
    BY <1>25, <2>1, HeadIs, EmptySuits DEF Reads, CallsSuit
<1>26. ASSUME ReadFails PROVE CallsSuit'
  BY <1>26 DEF CallsSuit, ReadFails
<1>27. ASSUME TakesSideCar PROVE CallsSuit'
  BY <1>27 DEF CallsSuit, TakesSideCar
<1> QED
  BY <1>1, <1>2, <1>3, <1>4, <1>5, <1>6, <1>7, <1>8, <1>9, <1>10, <1>11, <1>12,
     <1>13, <1>14, <1>15, <1>16, <1>17, <1>18, <1>19, <1>20, <1>21, <1>22, <1>23,
     <1>24, <1>25, <1>26, <1>27
     DEF ProfileNext, FrameStep, StorageStep

\* A load still to take the old file in: the active profile's settings are the live ones.
LEMMA ComesFirst ==
  ASSUME FilesKeep, UNCHANGED live, active # NoProfile => Own(active),
         active' \in {active, NoProfile}, ToCome("migrate")'
  PROVE  LoadToCome'
<1>1. active' # NoProfile => Own(active)'
  BY OwnStays
<1>2. active' # NoProfile => StillLive(active)'
  BY OwnIsLive, OwnStays
<1> QED
  BY <1>1, <1>2 DEF LoadToCome

\* Without a change of the calls it goes on to rely on the same.
LEMMA ComeStays ==
  ASSUME ProfileInv, FilesKeep, UNCHANGED <<disk, selected, active, live, todo>>
  PROVE  LoadToCome'
<1>1. (Own(active) => Own(active)') /\ (StillLive(active) => StillLive(active)')
  BY OwnStays
<1>2. InFile(selected) => InFile(selected)'
  BY ProfileTypeIs DEF ProfileInv, TypedButTodo, FilesKeep
<1>3. /\ EndsIn("read")' => EndsIn("read")
      /\ ToCome("migrate")' <=> ToCome("migrate")
      /\ Unreadable(selected)' => Unreadable(selected)
  BY DEF EndsIn, ToCome, Unreadable
<1>4. \A j \in 1 .. Len(todo) : WritesOwn(todo[j], selected) => WritesOwn(todo'[j], selected')
  OBVIOUS
<1> QED
  BY <1>1, <1>2, <1>3, <1>4 DEF ProfileInv, LoadToCome

\* A load takes the old file in.
LEMMA LoadingComes ==
  ASSUME todo' = Loading
  PROVE  ToCome("migrate")'
<1>1. ASSUME NEW q, q = todo' PROVE \E i \in DOMAIN q : q[i].do = "migrate"
  <2>1. q \in Seq(StorageCalls) /\ Len(q) = 3 /\ q[2].do = "migrate"
    BY <1>1, LoadingIs DEF Do
  <2>2. 2 \in DOMAIN q
    BY <2>1
  <2> QED
    BY <2>1, <2>2
<1> QED
  BY <1>1 DEF ToCome

\* A load that takes the old file in still does with calls before it.
LEMMA JoinComes ==
  ASSUME NEW s \in Seq(StorageCalls), NEW q \in Seq(StorageCalls), todo' = s \o q,
         \E i \in DOMAIN q : q[i].do = "migrate"
  PROVE  ToCome("migrate")'
<1>1. /\ Len(s) \in Nat /\ Len(q) \in Nat /\ Len(s \o q) = Len(s) + Len(q)
      /\ s \o q \in Seq(StorageCalls)
      /\ \A i \in Len(s) + 1 .. Len(s) + Len(q) : (s \o q)[i] = q[i - Len(s)]
  OBVIOUS
<1>2. PICK i \in 1 .. Len(q) : q[i].do = "migrate"
  OBVIOUS
<1>3. Len(s) + i \in Len(s) + 1 .. Len(s) + Len(q) /\ Len(s) + i - Len(s) = i
  BY <1>1
<1>4. Len(s) + i \in DOMAIN (s \o q) /\ (s \o q)[Len(s) + i].do = "migrate"
  BY <1>1, <1>2, <1>3
<1> QED
  BY <1>4 DEF ToCome

\* A call made, whatever came of it, leaves what the load to come relies on.
LEMMA TailComes ==
  ASSUME ProfileInv, FilesKeep, HeadDone, todo # <<>>, Next1.do # "migrate",
         todo' = Tail(todo), UNCHANGED <<selected, active, live>>,
         Unreadable(selected)' => Unreadable(selected)
  PROVE  LoadToCome'
<1> SUFFICES ASSUME NEW q, q = Tail(todo), EndsIn("read")'
             PROVE  LoadToCome'
  BY DEF LoadToCome
<1>1. /\ Len(todo) \in Nat /\ DOMAIN todo = 1 .. Len(todo) /\ Len(q) = Len(todo) - 1
      /\ q \in Seq(StorageCalls) /\ Next1 = todo[1]
      /\ \A i \in 1 .. Len(todo) - 1 : q[i] = todo[i + 1]
  BY TodoIs DEF ProfileInv
<1>2. DOMAIN q = 1 .. Len(todo) - 1 /\ todo' = q
  BY <1>1
<1>3. EndsIn("read") /\ selected \in Profiles
  BY ProfileTypeIs DEF EndsIn, ProfileInv, TypedButTodo
<1>4. ToCome("migrate")' => ToCome("migrate")
  <2> SUFFICES ASSUME NEW i \in 1 .. Len(todo) - 1, q[i].do = "migrate"
               PROVE  ToCome("migrate")
    BY <1>2 DEF ToCome
  <2>1. i + 1 \in 1 .. Len(todo) /\ todo[i + 1].do = "migrate"
    BY <1>1
  <2> QED
    BY <1>1, <2>1 DEF ToCome
<1>5. ToCome("migrate") => ToCome("migrate")'
  <2> SUFFICES ASSUME NEW i \in 1 .. Len(todo), todo[i].do = "migrate"
               PROVE  ToCome("migrate")'
    BY <1>1 DEF ToCome
  <2>1. i # 1
    BY <1>1
  <2>2. i - 1 \in 1 .. Len(todo) - 1 /\ i - 1 + 1 = i
    BY <1>1, <2>1
  <2>3. q[i - 1].do = "migrate"
    BY <1>1, <2>2
  <2> QED
    BY <1>2, <2>2, <2>3 DEF ToCome
<1>6. (Own(active) => Own(active)') /\ (StillLive(active) => StillLive(active)')
  BY OwnStays
<1>7. InFile(selected) => InFile(selected)'
  BY <1>3 DEF FilesKeep
<1>8. ASSUME NEW j \in 1 .. Len(todo), WritesOwn(todo[j], selected)
      PROVE  InFile(selected)' \/ \E i \in 1 .. Len(q) : WritesOwn(q[i], selected)
  <2>1. CASE j = 1
    BY <1>1, <1>3, <1>8, <2>1 DEF HeadDone
  <2>2. CASE j # 1
    <3>1. j - 1 \in 1 .. Len(todo) - 1 /\ j - 1 + 1 = j
      BY <1>1, <2>2
    <3>2. WritesOwn(q[j - 1], selected)
      BY <1>1, <1>8, <3>1
    <3> QED
      BY <1>1, <3>1, <3>2
  <2> QED
    BY <2>1, <2>2
<1>9. /\ active # NoProfile /\ (ToCome("migrate") \/ Unreadable(selected)) => Own(active)
      /\ active # NoProfile => StillLive(active)
      /\ ~ToCome("migrate") =>
           InFile(selected) \/ \E j \in 1 .. Len(todo) : WritesOwn(todo[j], selected)
  BY <1>3 DEF ProfileInv, LoadToCome
<1>10. active' # NoProfile /\ (ToCome("migrate")' \/ Unreadable(selected)') => Own(active)'
  BY <1>4, <1>6, <1>9
<1>11. active' # NoProfile => StillLive(active)'
  BY <1>6, <1>9
<1>12. ~ToCome("migrate")' =>
         InFile(selected)' \/ \E j \in 1 .. Len(q) : WritesOwn(q[j], selected)
  BY <1>5, <1>7, <1>8, <1>9
<1>13. \A j \in 1 .. Len(q) : WritesOwn(q[j], selected) => WritesOwn(todo'[j], selected')
  BY <1>2
<1> QED
  BY <1>2, <1>10, <1>11, <1>12, <1>13 DEF LoadToCome

\* A write made: the settings are in the file, which can be read.
LEMMA WrittenIsDone ==
  ASSUME ProfileInv, Writes
  PROVE  HeadDone /\ (Unreadable(selected)' => Unreadable(selected))
<1>1. disk' = [disk EXCEPT ![Next1.part][Next1.file] = Text(Next1.whose, TRUE)]
      /\ todo # <<>> /\ Next1.do = "write" /\ UNCHANGED <<failed, selected>>
  BY DEF Writes, Doing
<1>2. Next1.part \in Parts /\ Next1.file \in Profiles /\ TypedButTodo
  BY <1>1, HeadIs, ProfileTypeIs DEF ProfileInv
<1> QED
  BY <1>1, <1>2 DEF HeadDone, InFile, WritesOwn, TypedButTodo, Text, Unreadable

\* A migration before calls that take no old file in.
LEMMA MigrationKinds ==
  ASSUME NEW f \in Profiles, NEW w \in [Parts -> SUBSET Profiles], f \in w["usd"],
         NEW q \in Seq(StorageCalls),
         \A i \in 1 .. Len(q) : q[i].do # "migrate"
  PROVE  LET s == Migration(f, w) IN
           /\ 1 \in 1 .. Len(s \o q) /\ WritesOwn((s \o q)[1], f)
           /\ DOMAIN (s \o q) = 1 .. Len(s \o q)
           /\ \A i \in 1 .. Len(s \o q) : (s \o q)[i].do # "migrate"
<1> DEFINE s == Migration(f, w)
<1>0. /\ s \in Seq(StorageCalls) /\ Len(s) = 3
      /\ s[1] = Write("usd", f, w["usd"], FALSE)
      /\ s[2] = Write("side", f, w["side"], FALSE) /\ s[3] = Do("remove", f)
  BY MigrationIs
<1> HIDE DEF s
<1>1. s \in Seq(StorageCalls) /\ Len(s) = 3 /\ WritesOwn(s[1], f)
  BY <1>0 DEF WritesOwn, Write
<1>2. \A i \in 1 .. 3 : s[i].do # "migrate"
  BY <1>0 DEF Write, Do
<1>3. /\ Len(q) \in Nat /\ Len(s \o q) = Len(s) + Len(q)
      /\ \A i \in 1 .. Len(s) : (s \o q)[i] = s[i]
      /\ \A i \in Len(s) + 1 .. Len(s) + Len(q) : (s \o q)[i] = q[i - Len(s)]
      /\ s \o q \in Seq(StorageCalls)
  BY <1>1, JoinIs
<1>4. /\ Len(s \o q) = 3 + Len(q)
      /\ \A i \in 1 .. 3 : (s \o q)[i] = s[i]
      /\ \A i \in 4 .. 3 + Len(q) : (s \o q)[i] = q[i - 3]
  BY <1>1, <1>3
<1>5. ASSUME NEW i \in 1 .. 3 + Len(q) PROVE (s \o q)[i].do # "migrate"
  <2>1. i \in 1 .. 3 \/ (i \in 4 .. 3 + Len(q) /\ i - 3 \in 1 .. Len(q))
    BY <1>3
  <2> QED
    BY <1>2, <1>4, <2>1
<1>6. DOMAIN (s \o q) = 1 .. Len(s \o q) /\ 1 \in 1 .. Len(s \o q) /\ 1 \in 1 .. 3
  BY <1>3, <1>4
<1>7. WritesOwn((s \o q)[1], f)
  BY <1>1, <1>4, <1>6
<1>8. \A i \in 1 .. Len(s \o q) : (s \o q)[i].do # "migrate"
  BY <1>4, <1>5
<1> QED
  BY <1>6, <1>7, <1>8 DEF s

\* The old file taken in: it is to be written, and nothing is to be taken in after it.
LEMMA MigrationComes ==
  ASSUME ProfileInv, Doing("migrate"), NEW q \in Seq(StorageCalls), q = Tail(todo),
         NEW w \in [Parts -> SUBSET Profiles], selected \in w["usd"],
         todo' = Migration(selected, w) \o q
  PROVE  ~ToCome("migrate")' /\ 1 \in 1 .. Len(todo') /\ WritesOwn(todo'[1], selected)
<1>1. selected \in Profiles
  BY ProfileTypeIs DEF ProfileInv, TypedButTodo
<1>2. \A i \in 1 .. Len(q) : q[i].do # "migrate"
  BY LoadIs
<1>3. /\ 1 \in 1 .. Len(todo') /\ WritesOwn(todo'[1], selected)
      /\ DOMAIN todo' = 1 .. Len(todo')
      /\ \A i \in 1 .. Len(todo') : todo'[i].do # "migrate"
  BY <1>1, <1>2, MigrationKinds
<1> QED
  BY <1>3 DEF ToCome

\* Every step keeps what a load to come relies on.
LEMMA ComeStep ==
  ASSUME ProfileInv, ProfileNext
  PROVE  LoadToCome'
<1> USE DEF ProfileInv
<1>1. ASSUME OptionChanged PROVE LoadToCome'
  BY <1>1 DEF LoadToCome, EndsIn, Whole, OptionChanged
<1>2. ASSUME ClearProfile PROVE LoadToCome'
  <2>1. Shipped \in SUBSET Profiles /\ selected \in Profiles
    BY ProfileTypeIs DEF TypedButTodo, Shipped
  <2>2. ASSUME NEW q, q = todo' PROVE q[Len(q)].do = "activate"
    <3>1. q = <<Write("usd", selected, Shipped, FALSE),
            Write("side", selected, Shipped, FALSE),
               Do("activate", selected)>>
      BY <1>2, <2>2 DEF ClearProfile
    <3>2. Len(q) = 3 /\ q[3] = Do("activate", selected)
      BY <2>1, <3>1
    <3> QED
      BY <3>2 DEF Do
  <2> QED
    BY <2>2 DEF LoadToCome, EndsIn
<1>3. ASSUME NEW file \in Profiles, Restart(file) PROVE LoadToCome'
  BY <1>3, LoadingComes DEF LoadToCome, Restart
<1>4. ASSUME NEW file \in Profiles, BindCharacter(file) PROVE LoadToCome'
  BY <1>4, LoadingComes DEF LoadToCome, BindCharacter
<1>5. ASSUME NEW file \in Profiles, PickProfile(file) PROVE LoadToCome'
  BY <1>5 DEF LoadToCome, EndsIn, Whole, PickProfile
<1>6. ASSUME NEW file \in Profiles, CopyProfile(file) PROVE LoadToCome'
  <2>1. {file} \in SUBSET Profiles
    OBVIOUS
  <2>2. ASSUME NEW q, q = todo' PROVE q[Len(q)].do = "activate"
    <3>1. q = <<Write("usd", file, {file}, FALSE), Write("side", file, {file}, FALSE),
               Do("activate", file)>>
      BY <1>6, <2>2 DEF CopyProfile
    <3>2. Len(q) = 3 /\ q[3] = Do("activate", file)
      BY <2>1, <3>1
    <3> QED
      BY <3>2 DEF Do
  <2> QED
    BY <2>2 DEF LoadToCome, EndsIn
<1>7. ASSUME NEW file \in Profiles, DeleteProfile(file) PROVE LoadToCome'
  <2>1. /\ UNCHANGED <<active, live>> /\ selected \in Profiles
        /\ active # NoProfile => Own(active)
    BY <1>7, ProfileTypeIs DEF DeleteProfile, Whole, Rested, TypedButTodo
  <2>2. ASSUME NEW q, q = todo' PROVE \E i \in DOMAIN q : q[i].do = "migrate"
    <3>1. q = Deletion(selected, file)
      BY <1>7, <2>2 DEF DeleteProfile, Deletion
    <3>2. q \in Seq(StorageCalls) /\ Len(q) = 6 /\ q[5] = Do("migrate", NoProfile)
      BY <2>1, <3>1, DeletionIs
    <3>3. 5 \in DOMAIN q
      BY <3>2
    <3> QED
      BY <3>2, <3>3 DEF Do
  <2>3. ToCome("migrate")'
    BY <2>2 DEF ToCome
  <2> QED
    BY <2>1, <2>3, KeepStep, ComesFirst
<1>8. ASSUME SaveRefused PROVE LoadToCome'
  BY <1>8 DEF LoadToCome, EndsIn, SaveRefused
<1>9. ASSUME Save PROVE LoadToCome'
  <2>1. live["usd"] \in SUBSET Profiles
          /\ live["side"] \in SUBSET Profiles /\ selected \in Profiles
    BY ProfileTypeIs DEF TypedButTodo, Parts
  <2>2. ASSUME NEW q, q = todo' PROVE q[Len(q)].do = "activate"
    <3>1. q = <<Write("usd", selected, live["usd"], TRUE),
            Write("side", selected, live["side"], TRUE),
               Do("activate", selected)>>
      BY <1>9, <2>2 DEF Save
    <3>2. Len(q) = 3 /\ q[3] = Do("activate", selected)
      BY <2>1, <3>1
    <3> QED
      BY <3>2 DEF Do
  <2> QED
    BY <2>2 DEF LoadToCome, EndsIn
<1>10. ASSUME PickSelects PROVE LoadToCome'
  <2>1. /\ todo = <<>> /\ load = NoLoad /\ todo' = Loading
        /\ UNCHANGED <<active, live>>
    BY <1>10 DEF PickSelects, OneThing
  <2> QED
    BY <2>1, KeepStep, LoadingComes, ComesFirst DEF Rested
<1>11. ASSUME Writes PROVE LoadToCome'
  <2>1. todo # <<>> /\ Next1.do = "write"
    BY <1>11 DEF Writes, Doing
  <2>2. todo' = Tail(todo) /\ UNCHANGED <<selected, active, live>>
    BY <1>11 DEF Writes
  <2> QED
    BY <1>11, <2>1, <2>2, KeepStep, WrittenIsDone, TailComes
<1>12. ASSUME WriteFails PROVE LoadToCome'
  <2>1. todo # <<>> /\ Next1.do = "write"
    BY <1>12 DEF WriteFails, Doing
  <2>2. (todo' = <<>> \/ todo' = Tail(todo)) /\ UNCHANGED <<disk, selected, active, live>>
    BY <1>12 DEF WriteFails
  <2>3. CASE todo' = <<>>
    BY <2>3 DEF LoadToCome, EndsIn
  <2>4. CASE todo' = Tail(todo)
    <3>1. Unreadable(selected)' => Unreadable(selected)
      BY <2>2 DEF Unreadable
    <3> QED
      BY <1>12, <2>1, <2>2, <2>4, <3>1, KeepStep, FailedIsDone, TailComes
  <2> QED
    BY <2>2, <2>3, <2>4
<1>13. ASSUME Erases PROVE LoadToCome'
  <2>1. todo # <<>> /\ Next1.do = "erase"
    BY <1>13 DEF Erases, Doing
  <2>2. todo' = Tail(todo) /\ UNCHANGED <<selected, active, live>>
    BY <1>13 DEF Erases
  <2>3. HeadDone
    BY <2>1 DEF HeadDone, WritesOwn
  <2>4. Unreadable(selected)' => Unreadable(selected)
    <3>1. disk' = [disk EXCEPT ![Next1.part][Next1.file] = NoText] /\ UNCHANGED selected
      BY <1>13 DEF Erases
    <3>2. Next1.part \in Parts /\ Next1.file \in Profiles /\ TypedButTodo
      BY <2>1, HeadIs, ProfileTypeIs
    <3> QED
      BY <3>1, <3>2 DEF Unreadable, NoText, Text
  <2> QED
    BY <2>1, <2>2, <2>3, <2>4, KeepStep, TailComes
<1>14. ASSUME Deselects PROVE LoadToCome'
  <2>1. todo # <<>> /\ Next1.do = "deselect"
    BY <1>14 DEF Deselects, Doing
  <2>2. Tail(todo) \in Seq(StorageCalls) /\ DOMAIN Tail(todo) = 1 .. Len(Tail(todo))
    BY <2>1, TodoIs
  <2>3. todo' = Tail(todo) /\ active' = NoProfile /\ UNCHANGED live
    BY <1>14 DEF Deselects
  <2>4. ToCome("migrate")'
    <3>1. Doing("deselect") /\ ~Doing("migrate")
      BY <2>1 DEF Doing
    <3> QED
      BY <2>2, <2>3, <3>1, LoadIs DEF ToCome
  <2> QED
    BY <2>3, <2>4 DEF LoadToCome
<1>15. ASSUME Activates PROVE LoadToCome'
  <2>1. todo # <<>> /\ Next1.do = "activate"
    BY <1>15 DEF Activates, Doing
  <2> QED
    BY <1>15, <2>1, HeadIs DEF Activates, LoadToCome, EndsIn
<1>16. ASSUME RemovesOld PROVE LoadToCome'
  <2>1. todo # <<>> /\ Next1.do = "remove"
    BY <1>16 DEF RemovesOld, Doing
  <2>2. todo' = Tail(todo) /\ UNCHANGED <<selected, active, live>>
    BY <1>16 DEF RemovesOld
  <2>3. HeadDone
    BY <2>1 DEF HeadDone, WritesOwn
  <2>4. Unreadable(selected)' => Unreadable(selected)
    BY <1>16 DEF RemovesOld, Unreadable
  <2> QED
    BY <2>1, <2>2, <2>3, <2>4, KeepStep, TailComes
<1>17. ASSUME NEW file \in Profiles, Sweeps(file) PROVE LoadToCome'
  <2>1. /\ todo # <<>> /\ todo \in Seq(StorageCalls) /\ Doing("sweep")
        /\ UNCHANGED <<live, selected, active>>
    BY <1>17, TodoIs DEF Sweeps, Doing
  <2>2. (active # NoProfile => Own(active)) /\ ToCome("migrate")
    BY <2>1, LoadIs
  <2>3. ASSUME NEW q \in Seq(StorageCalls), q = todo, NEW s \in Seq(StorageCalls),
               todo' = s \o q
        PROVE  ToCome("migrate")'
    BY <2>2, <2>3, JoinComes DEF ToCome
  <2>4. /\ <<Do("remove", file)>> \in Seq(StorageCalls)
        /\ Migration(file, OnlyOf(file)) \in Seq(StorageCalls)
    <3>1. Do("remove", file) \in StorageCalls
      BY CallIs
    <3>2. <<Do("remove", file)>> \in Seq(StorageCalls)
      BY <3>1
    <3>3. Migration(file, OnlyOf(file)) \in Seq(StorageCalls)
      <4>1. OnlyOf(file) \in [Parts -> SUBSET Profiles]
        BY DEF OnlyOf
      <4> QED
        BY <4>1, MigrationIs
    <3> QED
      BY <3>2, <3>3
  <2>5. ToCome("migrate")'
    <3>1. CASE todo' = todo
      BY <2>2, <3>1 DEF ToCome
    <3>2. ASSUME NEW s \in Seq(StorageCalls), todo' = s \o todo PROVE ToCome("migrate")'
      <4>1. ASSUME NEW q \in Seq(StorageCalls), q = todo PROVE ToCome("migrate")'
        <5>1. todo' = s \o q
          BY <3>2, <4>1
        <5> QED
          BY <2>3, <4>1, <5>1
      <4> QED
        BY <2>1, <4>1
    <3>3. \/ todo' = todo \/ todo' = <<Do("remove", file)>> \o todo
          \/ todo' = Migration(file, OnlyOf(file)) \o todo
      BY <1>17 DEF Sweeps
    <3> QED
      BY <2>4, <3>1, <3>2, <3>3
  <2> QED
    BY <2>1, <2>2, <2>5, KeepStep, ComesFirst
<1>18. ASSUME NEW file \in Profiles, SweepUnread(file) PROVE LoadToCome'
  BY <1>18, KeepStep, ComeStays DEF SweepUnread, diskVars
<1>19. ASSUME NEW file \in Profiles, SweepFails(file) PROVE LoadToCome'
  BY <1>19 DEF LoadToCome, EndsIn, SweepFails
<1>20. ASSUME Swept PROVE LoadToCome'
  <2>1. todo # <<>> /\ Next1.do = "sweep"
    BY <1>20 DEF Swept, Doing
  <2>2. todo' = Tail(todo) /\ UNCHANGED <<selected, active, live>>
    BY <1>20 DEF Swept
  <2>3. HeadDone
    BY <2>1 DEF HeadDone, WritesOwn
  <2>4. Unreadable(selected)' => Unreadable(selected)
    BY <1>20 DEF Swept, diskVars, Unreadable
  <2> QED
    BY <2>1, <2>2, <2>3, <2>4, KeepStep, TailComes
<1>21. ASSUME Migrates PROVE LoadToCome'
  <2>1. todo # <<>> /\ Next1.do = "migrate"
    BY <1>21 DEF Migrates, Doing
  <2>2. Tail(todo) \in Seq(StorageCalls) /\ DOMAIN Tail(todo) = 1 .. Len(Tail(todo))
    BY <2>1, TodoIs
  <2>3. Doing("migrate") /\ (active # NoProfile => Own(active)) /\ selected \in Profiles
    BY <2>1, LoadIs, ProfileTypeIs DEF Doing, TypedButTodo
  <2>4. UNCHANGED <<disk, legacy, kept, failed, selected, active>>
    BY <1>21 DEF Migrates, diskVars
  <2>5. active # NoProfile => StillLive(active)
    BY <2>3, OwnIsLive
  <2>6. CASE OnDisk("usd", selected) \/ selected \notin legacy
    <3>1. InFile(selected)' /\ UNCHANGED live
      BY <1>21, <2>3, <2>4, <2>6 DEF Migrates, AllInFiles, InFile
    <3>2. /\ active # NoProfile => Own(active)'
          /\ active # NoProfile => StillLive(active)'
      BY <2>3, <2>4, <2>5, <3>1, KeepStep, OwnStays
    <3> QED
      BY <2>4, <3>1, <3>2 DEF LoadToCome
  <2>7. CASE ~(OnDisk("usd", selected) \/ selected \notin legacy)
    <3>1. /\ todo' = Migration(selected, live') \o Tail(todo)
          /\ live' = [p \in Parts |-> live[p] \cup {selected}]
      BY <1>21, <2>7 DEF Migrates
    <3>2. ~Unreadable(selected)'
      BY <2>4, <2>7 DEF OnDisk, Unreadable, NoText, Text
    <3>3. /\ live' \in [Parts -> SUBSET Profiles]
          /\ live'["usd"] = live["usd"] \cup {selected}
      BY <3>1, ProfileTypeStep DEF TypedButTodo, Parts
    <3>4. ~ToCome("migrate")' /\ 1 \in 1 .. Len(todo') /\ WritesOwn(todo'[1], selected)
      <4>1. ASSUME NEW w \in [Parts -> SUBSET Profiles], w = live'
            PROVE  /\ ~ToCome("migrate")' /\ 1 \in 1 .. Len(todo')
                   /\ WritesOwn(todo'[1], selected)
        <5>1. selected \in w["usd"] /\ todo' = Migration(selected, w) \o Tail(todo)
          BY <3>1, <3>3, <4>1
        <5> QED
          BY <2>2, <2>3, <5>1, MigrationComes
      <4> QED
        BY <3>3, <4>1
    <3>5. active # NoProfile => StillLive(active)'
      BY <2>4, <2>5, <3>3 DEF StillLive
    <3>6. WritesOwn(todo'[1], selected')
      BY <2>4, <3>4
    <3> QED
      BY <2>4, <3>2, <3>4, <3>5, <3>6 DEF LoadToCome
  <2> QED
    BY <2>6, <2>7
<1>22. ASSUME MigratesUnread PROVE LoadToCome'
  <2>1. todo # <<>> /\ Next1.do = "migrate"
    BY <1>22 DEF MigratesUnread, Doing
  <2>2. /\ UNCHANGED <<disk, selected, active, live>> /\ kept' \subseteq kept
        /\ failed' = failed \cup {selected}
    BY <1>22 DEF MigratesUnread, StorageFails
  <2>3. active # NoProfile => Own(active) /\ StillLive(active)
    BY <2>1, LoadIs, OwnIsLive DEF Doing
  <2>4. active # NoProfile => Own(active)' /\ StillLive(active)'
    BY <2>2, <2>3, KeepStep, OwnStays
  <2>5. InFile(selected)'
    BY <2>2 DEF InFile
  <2> QED
    BY <2>2, <2>4, <2>5 DEF LoadToCome
<1>23. ASSUME ReadsNone PROVE LoadToCome'
  <2>1. todo # <<>> /\ Next1.do = "read"
    BY <1>23 DEF ReadsNone, Doing
  <2> QED
    BY <1>23, <2>1, HeadIs DEF ReadsNone, LoadToCome, EndsIn
<1>24. ASSUME ReadsBad PROVE LoadToCome'
  <2>1. todo # <<>> /\ Next1.do = "read"
    BY <1>24 DEF ReadsBad, Doing
  <2> QED
    BY <1>24, <2>1, HeadIs DEF ReadsBad, LoadToCome, EndsIn
<1>25. ASSUME Reads PROVE LoadToCome'
  <2>1. todo # <<>> /\ Next1.do = "read"
    BY <1>25 DEF Reads, Doing
  <2> QED
    BY <1>25, <2>1, HeadIs DEF Reads, LoadToCome, EndsIn
<1>26. ASSUME ReadFails PROVE LoadToCome'
  BY <1>26 DEF LoadToCome, EndsIn, ReadFails
<1>27. ASSUME TakesSideCar PROVE LoadToCome'
  BY <1>27 DEF LoadToCome, EndsIn, TakesSideCar
<1> QED
  BY <1>1, <1>2, <1>3, <1>4, <1>5, <1>6, <1>7, <1>8, <1>9, <1>10, <1>11, <1>12,
     <1>13, <1>14, <1>15, <1>16, <1>17, <1>18, <1>19, <1>20, <1>21, <1>22, <1>23,
     <1>24, <1>25, <1>26, <1>27
     DEF ProfileNext, FrameStep, StorageStep

\* The invariant holds at the start of the program.
LEMMA ProfileBegins == ProfileInit => ProfileInv
<1> SUFFICES ASSUME ProfileInit PROVE ProfileInv
  OBVIOUS
<1>1. /\ disk \in [Parts -> [Profiles -> {NoText} \cup
                     {Text(w, r) : w \in SUBSET Profiles, r \in BOOLEAN}]]
      /\ \A p \in Parts, f \in Profiles : disk[p][f].whose \in {{f}, {NoProfile}}
      /\ legacy \subseteq Profiles
      /\ kept = legacy \cup {f \in Profiles : OnDisk("usd", f)}
  BY DEF ProfileInit
<1>2. /\ selected \in Profiles /\ failed = {} /\ laidOver = {} /\ active = NoProfile
      /\ live = [p \in Parts |-> Shipped] /\ load = NoLoad /\ picked = NoProfile
      /\ due = FALSE /\ toSweep = legacy \cap NamedProfiles /\ todo = Loading
  BY DEF ProfileInit
<1>3. ASSUME NEW p \in Parts, NEW f \in Profiles
      PROVE  /\ disk[p][f] \in [whose : SUBSET (Profiles \cup {NoProfile}),
                  readable : BOOLEAN]
             /\ NoProfile \in disk[p][f].whose => disk[p][f] = NoText
  <2>1. \/ disk[p][f] = NoText
        \/ \E w \in SUBSET Profiles, r \in BOOLEAN : disk[p][f] = Text(w, r)
    BY <1>1
  <2>2. CASE disk[p][f] = NoText
    BY <2>2 DEF Text, NoText
  <2>3. ASSUME NEW w \in SUBSET Profiles, NEW r \in BOOLEAN, disk[p][f] = Text(w, r)
        PROVE  /\ disk[p][f] \in [whose : SUBSET (Profiles \cup {NoProfile}),
                    readable : BOOLEAN]
               /\ NoProfile \notin disk[p][f].whose
    BY <2>3, ProfileAssumption DEF Text
  <2> QED
    BY <2>1, <2>2, <2>3
<1>4. disk \in [Parts -> [Profiles ->
              [whose : SUBSET (Profiles \cup {NoProfile}), readable : BOOLEAN]]]
  BY <1>1, <1>3
<1>5. TypedButTodo
  <2>1. /\ legacy \subseteq Profiles /\ selected \in Profiles
        /\ active \in Profiles \cup {NoProfile} /\ picked \in Profiles \cup {NoProfile}
        /\ due \in BOOLEAN /\ failed \subseteq Profiles
        /\ laidOver \subseteq Profiles \X Profiles
    <3>1. legacy \subseteq Profiles
      BY DEF ProfileInit
    <3> QED
      BY <1>2, <3>1
  <2>2. toSweep \subseteq NamedProfiles
    BY <1>2
  <2>3. kept \subseteq Profiles
    <3>1. legacy \subseteq Profiles /\ kept = legacy
            \cup {f \in Profiles : OnDisk("usd", f)}
      BY DEF ProfileInit
    <3> QED
      BY <3>1
  <2>4. live \in [Parts -> SUBSET Profiles]
    BY <1>2 DEF Shipped
  <2>5. load \in [file : Profiles \cup {NoProfile},
                 side : [whose : SUBSET (Profiles \cup {NoProfile}), readable : BOOLEAN]]
    BY <1>2 DEF NoLoad, NoText, Text
  <2> QED
    BY <1>4, <2>1, <2>2, <2>3, <2>4, <2>5 DEF TypedButTodo
<1>6. Texts
  BY <1>2, <1>3 DEF Texts, NoLoad
<1>7. ProfileTypeOK
  BY <1>2, <1>5, LoadingIs, ProfileTypeIs
<1>8. InOrder(todo)
  BY <1>2, LoadingInOrder
<1>9. OneThing
  BY <1>2 DEF OneThing
<1>10. AllInFiles
  <2> SUFFICES ASSUME NEW f \in Profiles, f \in kept
               PROVE  InFile(f) \/ (f \in legacy /\ ~OnDisk("usd", f))
    BY DEF AllInFiles, InFile
  <2>1. legacy \in SUBSET {g \in Profiles : ~OnDisk("usd", g)}
    BY DEF ProfileInit
  <2>2. CASE OnDisk("usd", f)
    BY <1>1, <1>3, <2>2 DEF InFile, OnDisk, Parts
  <2> QED
    BY <1>1, <2>1, <2>2
<1>11. ProfilesApart
  BY <1>1 DEF ProfilesApart, Mine
<1>12. CallsSuit
  BY <1>2, LoadingIs DEF CallsSuit, CallSuits, RemovalSuits, Do
<1>13. todo # <<>>
  <2>1. Loading # <<>>
    BY LoadingIs
  <2> QED
    BY <1>2, <2>1
<1>14. Rested /\ HalfLoaded
  BY <1>2, <1>13 DEF Rested, HalfLoaded
<1>15. LoadToCome
  <2>1. ToCome("migrate")
    <3>1. DOMAIN todo = 1 .. 3
      BY <1>2, LoadingIs
    <3> QED
      BY <1>2, <3>1, LoadingIs DEF ToCome, Do
  <2> QED
    BY <1>2, <2>1 DEF LoadToCome
<1> QED
  BY <1>6, <1>7, <1>8, <1>9, <1>10, <1>11, <1>12, <1>14, <1>15 DEF ProfileInv

\* Every step keeps it.
LEMMA ProfileSteps == ProfileInv /\ [ProfileNext]_profileVars => ProfileInv'
<1> SUFFICES ASSUME ProfileInv, [ProfileNext]_profileVars PROVE ProfileInv'
  OBVIOUS
<1>1. ASSUME ProfileNext PROVE ProfileInv'
  <2>1. (TypedButTodo /\ Texts)' /\ Listed'
    BY <1>1, ProfileTypeStep, OrderStep
  <2>2. ProfileTypeOK'
    BY <2>1 DEF ProfileTypeOK, TypedButTodo, Listed, StorageCalls
  <2>3. InOrder(todo)'
    BY <2>1 DEF Listed
  <2> QED
    BY <1>1, <2>1, <2>2, <2>3, OneThingStep, DiskStep, SuitStep, RestStep, HalfStep,
         ComeStep
       DEF ProfileInv
<1>2. ASSUME UNCHANGED profileVars PROVE ProfileInv'
  <2> USE <1>2 DEF profileVars, ProfileInv
  <2>1. ProfileTypeOK' /\ Texts'
    BY DEF ProfileTypeOK, Texts
  <2>2. (InOrder(todo) /\ OneThing)'
    BY DEF OneThing, EndsIn
  <2>3. FilesKeep
    BY DEF FilesKeep, InFile
  <2>4. (AllInFiles /\ ProfilesApart)'
    BY <2>3, DiskStays
  <2>5. ASSUME NEW q, q = todo PROVE AllSuit(q)'
    BY <2>3, <2>5, SameSuits
  <2>6. CallsSuit'
    BY <2>5 DEF CallsSuit, AllSuit
  <2>7. (Rested /\ HalfLoaded)'
    BY <2>3, RestStays, HalfStays
  <2>8. LoadToCome'
    BY <2>3, ComeStays
  <2> QED
    BY <2>1, <2>2, <2>4, <2>6, <2>7, <2>8
<1> QED
  BY <1>1, <1>2

\* So it always holds.
LEMMA ProfileAlways == ProfileSpec => []ProfileInv
  BY ProfileBegins, ProfileSteps, PTL DEF ProfileSpec

\* Whatever is asked of the profiles and whatever call of the storage fails, the state
\* stays within its types, the calls still to be made among it.
THEOREM ProfilesTyped == ProfileSpec => []ProfileTypeOK
<1>1. ProfileInv => ProfileTypeOK
  BY DEF ProfileInv
<1> QED
  BY <1>1, ProfileAlways, PTL

\* A profile's file holds settings of another one only where the profile was laid over
\* that one's live settings (by an old file, a text with rows missing, the defaults): a
\* save writes no others, over every order of picks, characters, crashes and failed
\* calls; but for a profile whose settings the storage did not hand over.
THEOREM FilesStayApart == ProfileSpec => []ProfilesApart
<1>1. ProfileInv => ProfilesApart
  BY DEF ProfileInv
<1> QED
  BY <1>1, ProfileAlways, PTL

\* What a player keeps in a profile is in its file or in the old file it was: a migration
\* writes it before it deletes the old file, whatever stops between the calls.
THEOREM SettingsAreKept == ProfileSpec => []SettingsKept
<1>1. ProfileInv => SettingsKept
  BY DEF ProfileInv, AllInFiles, InFile, SettingsKept, ProfileTypeOK
<1> QED
  BY <1>1, ProfileAlways, PTL

=============================================================================
