---------------------------- MODULE ProfileFiles ----------------------------
(***************************************************************************)
(* The macro profiles on disk (mosstank-stores/src/profile_store.rs) and   *)
(* the loads and saves the plugin makes of them (mosstank/src/tank:         *)
(* profiles.rs, staged_load.rs).  A profile is two files, the settings      *)
(* (.usd) and the side-car, and may still be one old file (`legacy`), which *)
(* the next load turns into the two.                                        *)
(*                                                                          *)
(* A text is told apart by the profiles whose settings may be among its own *)
(* and by whether it can still be read; the shipped defaults are nobody's.  *)
(* What leaves options out (an old file, a text with rows missing, no text) *)
(* is laid over the live settings, and those it leaves out stay.            *)
(*                                                                          *)
(* An operation lays out its storage calls in `todo`; each is a step, which *)
(* may fail and after which the program may stop.                           *)
(***************************************************************************)
EXTENDS Integers, Sequences

CONSTANTS
  Profiles,      \* the settings files of the folder
  NamedProfiles, \* those with a name of their own; the rest are By char
  Sparse,        \* those whose settings text may have rows missing
  StorageFaults  \* pairs of "read" or "write" and the profile it may fail on

NoProfile == "no profile"
Parts == {"usd", "side"}

ASSUME ProfileAssumption ==
  /\ NamedProfiles \subseteq Profiles
  /\ NoProfile \notin Profiles
  /\ Sparse \subseteq Profiles
  /\ StorageFaults \subseteq {"read", "write"} \X Profiles

Text(whose, readable) == [whose |-> whose, readable |-> readable]
NoText == Text({NoProfile}, TRUE)
Shipped == {}

MayFail(call, file) == <<call, file>> \in StorageFaults

VARIABLES
  disk,       \* part -> profile -> the text of the file
  legacy,     \* profiles that are still an old file
  selected,   \* selected, resolved to the file it names
  active,     \* active_file_name while has_active_profile, else NoProfile
  live,       \* part -> the profiles whose settings may be among the live ones
  load,       \* the settings load begun, its side-car still to be taken in
  picked,     \* a pick on the Profiles page, its saves still to be made
  due,        \* settings_save_due
  toSweep,    \* named old files this start's sweep has still to look at
  todo,       \* the storage calls of the operation under way
  kept,       \* history: profiles whose settings the player never gave up, no
              \* copy under recovery/ holds and the storage never failed
  laidOver,   \* history: <<f, g>> once f, not failed, was laid over settings of g
  failed      \* history: profiles whose old file's settings the storage did not
              \* take, whose load it gave up, or whose settings such a load left
              \* other ones live in place of

profileVars == <<disk, legacy, selected, active, live, load, picked,
                 due, toSweep, todo, kept, laidOver, failed>>
diskVars == <<disk, legacy, kept, failed>>

NoLoad == [file |-> NoProfile, side |-> NoText]

\* One storage call, or one turn of the operation between them.
Do(what, file) ==
  [do |-> what, part |-> "usd", file |-> file, whose |-> Shipped, must |-> FALSE]
Erase(part, file) == [Do("erase", file) EXCEPT !.part = part]

Write(part, file, whose, must) ==
  [do |-> "write", part |-> part, file |-> file, whose |-> whose, must |-> must]

Loading == <<Do("sweep", NoProfile), Do("migrate", NoProfile), Do("read", NoProfile)>>

\* Mutant: the old file is deleted before the new ones are written.
MigrationFirst(file, whose) ==
  <<Do("remove", file), Write("usd", file, whose["usd"], FALSE),
    Write("side", file, whose["side"], FALSE)>>

\* An old file's settings written as the two new ones, and the old one deleted;
\* what the writes answer is not looked at.
Migration(file, whose) ==
  <<Write("usd", file, whose["usd"], FALSE), Write("side", file, whose["side"], FALSE),
    Do("remove", file)>>

\* The settings of one profile and no other's, in both parts.
OnlyOf(file) == [p \in Parts |-> {file}]

\* The selected profile's settings are laid over live ones of these.
LaysOver(whose) ==
  laidOver' = laidOver \cup (({selected} \ failed) \X (whose \ {selected}))

\* The storage fails these profiles: the other histories say no more of them.
StorageFails(files) ==
  /\ failed' = failed \cup files
  /\ kept' = kept \ files
  /\ laidOver' = laidOver \ (files \X Profiles)

OnDisk(part, file) == disk[part][file] # NoText

\* Mutant: a load half done is not finished first.
WholeMidLoad == todo = <<>> /\ picked = NoProfile

\* Nothing is under way that a window action would have to finish first.
Whole == todo = <<>> /\ load = NoLoad /\ picked = NoProfile

ProfileInit ==
  /\ disk \in [Parts -> [Profiles -> {NoText} \cup
                 {Text(whose, r) : whose \in SUBSET Profiles, r \in BOOLEAN}]]
  /\ \A p \in Parts, f \in Profiles : disk[p][f].whose \in {{f}, {NoProfile}}
  /\ \A f \in Profiles : OnDisk("side", f) => OnDisk("usd", f)
  /\ legacy \in SUBSET {f \in Profiles : ~OnDisk("usd", f)}
  /\ kept = legacy \cup {f \in Profiles : OnDisk("usd", f)}
  /\ laidOver = {}
  /\ failed = {}
  /\ selected \in Profiles
  /\ active = NoProfile
  /\ live = [p \in Parts |-> Shipped]
  /\ load = NoLoad
  /\ picked = NoProfile
  /\ due = FALSE
  /\ toSweep = legacy \cap NamedProfiles
  /\ todo = Loading

-----------------------------------------------------------------------------
(* What the player, the client and the plugin ask for. *)

\* The program stops, at any point, and is started again.
Restart(file) ==
  /\ selected' = file
  /\ active' = NoProfile
  /\ live' = [p \in Parts |-> Shipped]
  /\ load' = NoLoad
  /\ picked' = NoProfile
  /\ due' = FALSE
  /\ toSweep' = legacy \cap NamedProfiles
  /\ todo' = Loading
  /\ UNCHANGED <<diskVars, laidOver>>

\* Another character binds: the saves due are made first, nothing stays active.
BindCharacter(file) ==
  /\ Whole
  /\ ~due
  /\ file # selected
  /\ selected' = file
  /\ active' = NoProfile
  /\ todo' = Loading
  /\ UNCHANGED <<diskVars, laidOver, live, load, picked, due, toSweep>>

\* An option changed in a window or by a line; both wait for a load under way.
OptionChanged ==
  /\ Whole
  /\ due' = TRUE
  /\ UNCHANGED <<diskVars, laidOver, selected, active, live, load, picked, toSweep, todo>>

\* A pick asks for the save of the profile it leaves before it selects.
PickProfile(file) ==
  /\ Whole
  /\ picked' = file
  /\ due' = TRUE
  /\ UNCHANGED <<diskVars, laidOver, selected, active, live, load, toSweep, todo>>

\* Mutant: the pick waits for a profile to be the active one.
PickSelectsActive ==
  /\ picked # NoProfile
  /\ active # NoProfile
  /\ ~due
  /\ todo = <<>>
  /\ selected' = picked
  /\ picked' = NoProfile
  /\ todo' = Loading
  /\ UNCHANGED <<diskVars, laidOver, active, live, load, due, toSweep>>

PickSelects ==
  /\ picked # NoProfile
  /\ ~due
  /\ todo = <<>>
  /\ selected' = picked
  /\ picked' = NoProfile
  /\ todo' = Loading
  /\ UNCHANGED <<diskVars, laidOver, active, live, load, due, toSweep>>

\* save_current's refusals: a file never loaded, or one that does not read.
NeverLoaded == active = NoProfile /\ OnDisk("usd", selected)
Unreadable(file) == ~disk["usd"][file].readable

\* recovery::preserve, whose own write may fail.
Preserve(file) ==
  \/ kept' = kept \ {file}
  \/ MayFail("write", file) /\ UNCHANGED kept

SaveRefused ==
  /\ due
  /\ todo = <<>>
  /\ due' = FALSE
  /\ \/ NeverLoaded /\ UNCHANGED kept
     \/ ~NeverLoaded /\ Unreadable(selected) /\ Preserve(selected)
     \/ MayFail("read", selected) /\ UNCHANGED kept
  /\ UNCHANGED <<disk, legacy, laidOver, failed, selected, active, live, load, picked,
                 toSweep, todo>>

\* The settings, then the side-car, then the profile is the active one.
Save ==
  /\ due
  /\ todo = <<>>
  /\ ~NeverLoaded
  /\ ~Unreadable(selected)
  /\ due' = FALSE
  /\ todo' = <<Write("usd", selected, live["usd"], TRUE),
               Write("side", selected, live["side"], TRUE),
               Do("activate", selected)>>
  /\ UNCHANGED <<diskVars, laidOver, selected, active, live, load, picked, toSweep>>

\* The selected profile put back to the defaults, on disk and live; but the live
\* rules about monsters stay as they are.
ClearProfile ==
  /\ Whole
  /\ ~due
  /\ kept' = kept \ {selected}
  /\ live' = [live EXCEPT !["side"] = Shipped]
  /\ LaysOver(live["usd"])
  /\ todo' = <<Write("usd", selected, Shipped, FALSE),
               Write("side", selected, Shipped, FALSE), Do("activate", selected)>>
  /\ UNCHANGED <<disk, legacy, failed, selected, active, load,
                 picked, due, toSweep>>

\* The live settings copied to a named profile: they are that one's from then on.
CopyProfile(file) ==
  /\ Whole
  /\ ~due
  /\ file \in NamedProfiles
  /\ ~NeverLoaded
  /\ ~Unreadable(file)
  /\ kept' = kept \ {file}
  /\ live' = OnlyOf(file)
  /\ selected' = file
  /\ todo' = <<Write("usd", file, {file}, FALSE), Write("side", file, {file}, FALSE),
               Do("activate", file)>>
  /\ UNCHANGED <<disk, legacy, laidOver, failed, active, load, picked, due,
                 toSweep>>

\* A named profile deleted: back to a By char one, which is loaded.
DeleteProfile(byCharacter) ==
  /\ Whole
  /\ ~due
  /\ selected \in NamedProfiles
  /\ byCharacter \notin NamedProfiles
  /\ kept' = kept \ {selected}
  /\ todo' = <<Erase("usd", selected), Erase("side", selected),
               Do("deselect", byCharacter)>> \o Loading
  /\ UNCHANGED <<disk, legacy, laidOver, failed, selected, active, live, load,
                 picked, due, toSweep>>

-----------------------------------------------------------------------------
(* The storage calls, one at a time. *)

Next1 == Head(todo)
Doing(what) == todo # <<>> /\ Next1.do = what

Writes ==
  /\ Doing("write")
  /\ disk' = [disk EXCEPT ![Next1.part][Next1.file] = Text(Next1.whose, TRUE)]
  /\ todo' = Tail(todo)
  /\ UNCHANGED <<legacy, kept, laidOver, failed, selected, active, live, load,
                 picked, due, toSweep>>

\* A save stops at the first write that fails; the others go on regardless.
WriteFails ==
  /\ Doing("write")
  /\ MayFail("write", Next1.file)
  /\ todo' = IF Next1.must THEN <<>> ELSE Tail(todo)
  /\ StorageFails({Next1.file} \cap legacy)
  /\ UNCHANGED <<disk, legacy, selected, active, live, load, picked, due, toSweep>>

Erases ==
  /\ Doing("erase")
  /\ disk' = [disk EXCEPT ![Next1.part][Next1.file] = NoText]
  /\ todo' = Tail(todo)
  /\ UNCHANGED <<legacy, kept, laidOver, failed, selected, active, live, load,
                 picked, due, toSweep>>

Deselects ==
  /\ Doing("deselect")
  /\ selected' = Next1.file
  /\ active' = NoProfile
  /\ todo' = Tail(todo)
  /\ UNCHANGED <<diskVars, laidOver, live, load, picked, due, toSweep>>

Activates ==
  /\ Doing("activate")
  /\ active' = Next1.file
  /\ todo' = Tail(todo)
  /\ UNCHANGED <<diskVars, laidOver, selected, live, load, picked, due, toSweep>>

\* The old file is deleted whether or not its settings were written.
RemovesOld ==
  /\ Doing("remove")
  /\ legacy' = legacy \ {Next1.file}
  /\ todo' = Tail(todo)
  /\ UNCHANGED <<disk, kept, laidOver, failed, selected, active, live, load, picked, due,
                 toSweep>>

\* Once a start: every named old file, one after another, without a selection and
\* over the defaults.
Sweeps(file) ==
  /\ Doing("sweep")
  /\ file \in toSweep
  /\ toSweep' = toSweep \ {file}
  /\ todo' = IF file \notin legacy THEN todo
             ELSE IF OnDisk("usd", file) THEN <<Do("remove", file)>> \o todo
             ELSE Migration(file, OnlyOf(file)) \o todo
  /\ UNCHANGED <<diskVars, laidOver, selected, active, live, load, picked, due>>

\* An old file that cannot be read out of the storage is passed over.
SweepUnread(file) ==
  /\ Doing("sweep")
  /\ file \in toSweep \cap legacy
  /\ MayFail("read", file)
  /\ toSweep' = toSweep \ {file}
  /\ UNCHANGED <<diskVars, laidOver, selected, active, live, load, picked, due, todo>>

\* The storage does not say whether the new file is there: the load is given up,
\* and this start sweeps no more.
SweepFails(file) ==
  /\ Doing("sweep")
  /\ file \in toSweep \cap legacy
  /\ MayFail("read", file)
  /\ toSweep' = {}
  /\ todo' = <<>>
  /\ StorageFails({selected})
  /\ UNCHANGED <<disk, legacy, selected, active, live, load, picked, due>>

Swept ==
  /\ Doing("sweep")
  /\ toSweep = {}
  /\ todo' = Tail(todo)
  /\ UNCHANGED <<diskVars, laidOver, selected, active, live, load, picked, due, toSweep>>

\* The selected profile's old file, laid over the live settings, and all of those
\* written: it says nothing of many options.
Migrates ==
  /\ Doing("migrate")
  /\ IF OnDisk("usd", selected) \/ selected \notin legacy
     THEN /\ todo' = Tail(todo)
          /\ UNCHANGED <<live, laidOver>>
     ELSE /\ live' = [p \in Parts |-> live[p] \cup {selected}]
          /\ LaysOver(live["usd"] \cup live["side"])
          /\ todo' = Migration(selected, live') \o Tail(todo)
  /\ UNCHANGED <<diskVars, selected, active, load, picked, due, toSweep>>

\* The selected profile's old file cannot be read: it counts as none.
MigratesUnread ==
  /\ Doing("migrate")
  /\ selected \in legacy
  /\ ~OnDisk("usd", selected)
  /\ MayFail("read", selected)
  /\ todo' = Tail(todo)
  /\ StorageFails({selected})
  /\ UNCHANGED <<disk, legacy, selected, active, live, load, picked, due, toSweep>>

\* begin_load with no settings file: the shipped defaults, which say nothing of the
\* monsters, and no side-car.
ReadsNone ==
  /\ Doing("read")
  /\ ~OnDisk("usd", selected)
  /\ LaysOver(live["usd"])
  /\ load' = [file |-> selected, side |-> NoText]
  /\ todo' = Tail(todo)
  /\ UNCHANGED <<diskVars, selected, active, live, picked, due, toSweep>>

\* A settings file that does not read: the active profile stays selected.
ReadsBad ==
  /\ Doing("read")
  /\ Unreadable(selected)
  /\ Preserve(selected)
  /\ selected' = IF active = NoProfile THEN selected ELSE active
  /\ todo' = Tail(todo)
  /\ UNCHANGED <<disk, legacy, laidOver, failed, active, live, load, picked, due, toSweep>>

\* The settings are applied at once; rows the text leaves out stay as they were.
\* The side-car's text waits to be taken in; one that cannot be read out of the
\* storage counts as none.
Reads ==
  /\ Doing("read")
  /\ OnDisk("usd", selected)
  /\ ~Unreadable(selected)
  /\ \E stay \in {{}} \cup (IF selected \in Sparse THEN {live["usd"]} ELSE {}) :
       /\ live' = [live EXCEPT !["usd"] = disk["usd"][selected].whose \cup stay]
       /\ LaysOver(stay)
  /\ \E side \in {disk["side"][selected]} \cup
                 (IF MayFail("read", selected) THEN {NoText} ELSE {}) :
       load' = [file |-> selected, side |-> side]
  /\ todo' = Tail(todo)
  /\ UNCHANGED <<diskVars, selected, active, picked, due, toSweep>>

\* A profile's own settings, and those it was laid over.
Mine(f) == {f} \cup {g \in Profiles : <<f, g>> \in laidOver}

\* An old file taken in before its load is given up: the profile that is still the
\* active one, whose settings the live ones are no longer.
LeftActive ==
  {f \in {active} \ {NoProfile} : \E p \in Parts : ~(live[p] \subseteq Mine(f))}

\* The storage does not answer for the settings file: the load is given up.
ReadFails ==
  /\ Doing("migrate") \/ Doing("read")
  /\ MayFail("read", selected)
  /\ todo' = <<>>
  /\ StorageFails({selected} \cup LeftActive)
  /\ UNCHANGED <<disk, legacy, selected, active, live, load, picked, due, toSweep>>

\* finish_load, a later frame: the side-car applied, or the defaults where there
\* is none or its text does not read; the profile is the active one.
TakesSideCar ==
  /\ load # NoLoad
  /\ todo = <<>>
  /\ live' = [live EXCEPT !["side"] =
                IF load.side # NoText /\ load.side.readable
                THEN load.side.whose ELSE Shipped]
  /\ active' = load.file
  /\ load' = NoLoad
  /\ UNCHANGED <<diskVars, laidOver, selected, picked, due, toSweep, todo>>

-----------------------------------------------------------------------------
StorageStep ==
  \/ Writes \/ WriteFails \/ Erases \/ Deselects \/ Activates \/ RemovesOld
  \/ \E file \in Profiles : Sweeps(file) \/ SweepUnread(file) \/ SweepFails(file)
  \/ Swept \/ Migrates \/ MigratesUnread \/ ReadsNone \/ ReadsBad \/ Reads \/ ReadFails
  \/ TakesSideCar

FrameStep == StorageStep \/ SaveRefused \/ Save \/ PickSelects

ProfileNext ==
  \/ FrameStep
  \/ OptionChanged \/ ClearProfile
  \/ \E file \in Profiles :
       \/ Restart(file) \/ BindCharacter(file) \/ PickProfile(file)
       \/ CopyProfile(file) \/ DeleteProfile(file)

\* A frame goes on with what is under way: storage calls, the saves due, picks.
ProfileSpec ==
  /\ ProfileInit
  /\ [][ProfileNext]_profileVars
  /\ WF_profileVars(FrameStep)

-----------------------------------------------------------------------------
\* Type invariant.
ProfileTypeOK ==
  /\ disk \in [Parts -> [Profiles ->
              [whose : SUBSET (Profiles \cup {NoProfile}), readable : BOOLEAN]]]
  /\ legacy \subseteq Profiles
  /\ selected \in Profiles
  /\ active \in Profiles \cup {NoProfile}
  /\ live \in [Parts -> SUBSET Profiles]
  /\ load \in [file : Profiles \cup {NoProfile},
               side : [whose : SUBSET (Profiles \cup {NoProfile}),
                       readable : BOOLEAN]]
  /\ picked \in Profiles \cup {NoProfile}
  /\ due \in BOOLEAN
  /\ toSweep \subseteq NamedProfiles
  /\ todo \in Seq([do : {"write", "erase", "deselect", "activate", "remove",
                         "sweep", "migrate", "read"},
                   part : Parts, file : Profiles \cup {NoProfile},
                   whose : SUBSET Profiles, must : BOOLEAN])
  /\ kept \subseteq Profiles
  /\ laidOver \subseteq Profiles \X Profiles
  /\ failed \subseteq Profiles

\* A profile's file holds settings of another one only where the profile was once
\* laid over that one's live settings, by an old file, by a text with rows missing
\* or by the defaults; not after a switch of characters, a pick, a save that falls
\* into a load, or a crash between two writes: but for a profile whose settings the
\* storage once did not hand over, or that such a load left active with another's
\* old file taken in.
ProfilesApart ==
  \A p \in Parts, f \in Profiles \ failed :
    disk[p][f].whose \ {NoProfile} \subseteq Mine(f)

\* The settings a player keeps in a profile and no recovery copy holds are never
\* lost: they are in its file or in the old file it was; but for what the storage
\* failed in a load or in a migration.
SettingsKept ==
  \A f \in kept \ failed : f \in disk["usd"][f].whose \/ f \in legacy

\* A pick is carried out: the save it waits for, and the load that save may wait
\* for, never wait for the pick.
PickCarriedOut == picked # NoProfile ~> picked = NoProfile

\* A save replaces a text that reads only by what was loaded from it ("Refused
\* (false) ... when the file on disk was never fully loaded").
SaveReplacesLoaded ==
  [][Save /\ OnDisk("usd", selected) =>
       \A p \in Parts : disk[p][selected].readable =>
          disk[p][selected].whose \ {NoProfile} \subseteq live[p]]_profileVars
=============================================================================
