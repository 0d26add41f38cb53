------------------------------- MODULE Keymap -------------------------------
(***************************************************************************)
(* Keymap profiles: the configured profiles and the active one (settings), *)
(* the trie built from the active profile, the pending multi-key sequences *)
(* of the resolver, and the batches in which a macro assembles profiles    *)
(* (mrvm...ConfiguredKeymapBatch) before they become the settings.         *)
(*                                                                         *)
(* A binding that its payload parser or validateKeymapProfiles rejects on  *)
(* its own is never stored and is left out; what remains are the faults    *)
(* that only two bindings together, or only the trie, reject.  A trie node *)
(* is the path to it: the context, then the keys.  Left out: descriptions, *)
(* diagnostics' texts, the keymap file and its version.                    *)
(***************************************************************************)
EXTENDS Naturals, Sequences, FiniteSets, SequencesExt

CONSTANTS
    Profiles,    \* profile names
    Contexts,    \* MRKeymapContext without None
    Keys,        \* keys other than Esc
    Targets,     \* actions and macros
    Bound,       \* what a binding may hold: a key sequence and its target
    Esc,         \* the abort key
    NoTarget,    \* a macro binding with an empty target: only a warning
    None,
    MaxBindings, \* bound on the bindings of all profiles together
    MaxBatch     \* bound on nested batches

VARIABLES
    profiles,  \* configured profiles: their bindings in order, or None
    active,    \* name of the active profile, or None
    trie,      \* nodes and terminals of the resolver's trie
    pending,   \* KEYMAP/runtime/pending: the keys typed so far, per context
    staging,   \* the batch being assembled
    depth,     \* batchDepth
    startup    \* startupMode: the settings file is being run

vars == <<profiles, active, trie, pending, staging, depth, startup>>

Binding == {[context |-> c, sequence |-> b[1], target |-> b[2]] : c \in Contexts, b \in Bound}

ASSUME KeymapAssumption ==
    /\ Esc \notin Keys
    /\ NoTarget \notin Targets
    /\ None \notin Profiles \cup Seq(Binding)
    /\ Bound \subseteq (Seq(Keys \cup {Esc}) \ {<<>>}) \X (Targets \cup {NoTarget})
    /\ MaxBindings \in Nat /\ MaxBatch \in Nat

Slot(b) == <<b.context>> \o b.sequence
AllProfiles == [Profiles -> Seq(Binding) \cup {None}]
Paths == (UNION {Prefixes(Slot(b)) : b \in Binding}) \ {<<>>}

TypeOK ==
    /\ profiles \in AllProfiles
    /\ active \in {n \in Profiles : profiles[n] # None} \cup {None}
    /\ trie.nodes \subseteq Paths /\ DOMAIN trie.terminal \subseteq trie.nodes
    /\ \A p \in DOMAIN trie.terminal : trie.terminal[p] \in Targets
    /\ pending \in [Contexts -> Seq(Keys \cup {Esc})]
    /\ staging.profiles \in AllProfiles /\ staging.active \in Profiles \cup {None}
    /\ {staging.initialized, staging.profilesDirty, staging.activeDirty, startup} \subseteq BOOLEAN
    /\ depth \in Nat
-----------------------------------------------------------------------------
(* The trie. *)

Children(t, p) == {q \in t.nodes : Len(q) = Len(p) + 1 /\ IsStrictPrefix(p, q)}

\* decide(): the target, "pending" or "none"
Decide(t, c, s) ==
    LET p == <<c>> \o s
    IN  IF p \in DOMAIN t.terminal THEN t.terminal[p]
        ELSE IF p \in t.nodes /\ Children(t, p) # {} THEN "pending" ELSE "none"

\* Mutant: a terminal on the way to the new one is not looked for.
CollidesBelow(t, p) == p \in DOMAIN t.terminal \/ Children(t, p) # {}
Collides(t, p) ==
    \/ p \in DOMAIN t.terminal
    \/ Children(t, p) # {}
    \/ \E q \in DOMAIN t.terminal : IsStrictPrefix(q, p)

\* one binding of rebuild(); a failure keeps the nodes that were added
Insert(t, b) ==
    IF ~t.ok \/ b.target = NoTarget THEN [t EXCEPT !.ok = FALSE]
    ELSE LET p == Slot(b)
             walked == [t EXCEPT !.nodes = @ \cup (Prefixes(p) \ {<<>>})]
         IN  IF Collides(walked, p) THEN [walked EXCEPT !.ok = FALSE]
             ELSE [walked EXCEPT !.terminal = [q \in DOMAIN @ \cup {p} |->
                                                 IF q = p THEN b.target ELSE @[q]]]

EmptyTrie == [nodes |-> {}, terminal |-> <<>>, ok |-> TRUE]

\* the trie after each of the bindings
Built(bindings) ==
    LET built[i \in 0..Len(bindings)] ==
            IF i = 0 THEN EmptyTrie ELSE Insert(built[i - 1], bindings[i])
    IN  built

Build(bindings) == Built(bindings)[Len(bindings)]

\* findActiveProfile
BindingsOf(ps, name) == IF name = None THEN <<>> ELSE IF ps[name] = None THEN <<>> ELSE ps[name]

\* Mutant: the resolver keeps the keys typed so far.
KeepsPending == pending
ResetPending == [c \in Contexts |-> <<>>]

\* MRKeymapResolver::rebuild; the trie is replaced even when it fails
Rebuild(ps, name) ==
    /\ trie' = Build(BindingsOf(ps, name))
    /\ pending' = ResetPending
-----------------------------------------------------------------------------
(* The settings. *)

\* validateKeymapProfiles: two targets for one sequence are an error, a
\* repeated binding is a warning and prefixes are not looked at
Valid(ps) ==
    \A n \in Profiles : ps[n] # None =>
        \A i, j \in DOMAIN ps[n] : Slot(ps[n][i]) = Slot(ps[n][j]) => ps[n][i] = ps[n][j]

\* Mutant: an active profile that exists no more stays selected.
KeepsActive(ps, name) == name
Existing(ps, name) == IF name # None /\ ps[name] # None THEN name ELSE None

\* Mutant: the profiles are stored although the trie could not be built.
StoresAnyway(ps, name) == Rebuild(ps, name) /\ profiles' = ps /\ active' = name
\* the common tail of setConfiguredKeymapProfiles and -ActiveKeymapProfile
Store(ps, name) ==
    /\ Rebuild(ps, name)
    /\ IF trie'.ok THEN profiles' = ps /\ active' = name
       ELSE UNCHANGED <<profiles, active>>

Nothing == UNCHANGED <<profiles, active, trie, pending>>

SetProfiles(ps) == IF Valid(ps) THEN Store(ps, Existing(ps, active)) ELSE Nothing
SetActive(name) == Store(profiles, Existing(profiles, name))
-----------------------------------------------------------------------------
(* KEYMAP_RESET, KEYMAP_PROFILE, KEYMAP_BIND and ACTIVE_KEYMAP_PROFILE. *)

BatchActive == startup \/ depth > 0
NoProfiles == [n \in Profiles |-> None]
Cleared == [initialized |-> FALSE, profiles |-> NoProfiles, profilesDirty |-> FALSE,
            active |-> None, activeDirty |-> FALSE]

\* ensureKeymapBatchInitialized
Ensured == IF staging.initialized THEN staging
           ELSE [Cleared EXCEPT !.initialized = TRUE, !.profiles = profiles, !.active = active]

\* The settings have been reset.  The only StartupSettingsModeGuard follows, as
\* the program starts, and finds no batch; or the settings could not be read.
Init ==
    /\ profiles = NoProfiles /\ active = None
    /\ trie = EmptyTrie /\ pending = [c \in Contexts |-> <<>>]
    /\ staging = Cleared /\ depth = 0 /\ startup \in BOOLEAN

\* acts on the settings, in a batch too
KeymapReset ==
    /\ Store(NoProfiles, None)
    /\ UNCHANGED <<staging, depth, startup>>

KeymapProfile(n) ==
    /\ IF BatchActive
       THEN /\ staging' = [Ensured EXCEPT !.profiles[n] = <<>>, !.profilesDirty = TRUE]
            /\ Nothing
       ELSE SetProfiles([profiles EXCEPT ![n] = <<>>]) /\ UNCHANGED staging
    /\ UNCHANGED <<depth, startup>>

Size(ps) == FoldSet(LAMBDA n, k : k + Len(BindingsOf(ps, n)), 0, Profiles)
HasRoom(ps) == Size(ps) < MaxBindings

Added(ps, n, b) == [ps EXCEPT ![n] = Append(@, b)]

\* a binding of an unknown profile is an error
KeymapBind(n, b) ==
    /\ IF BatchActive
       THEN /\ IF Ensured.profiles[n] = None THEN staging' = Ensured
               ELSE /\ HasRoom(Ensured.profiles)
                    /\ staging' = [Ensured EXCEPT !.profiles = Added(@, n, b), !.profilesDirty = TRUE]
            /\ Nothing
       ELSE /\ HasRoom(profiles)
            /\ IF profiles[n] = None THEN Nothing ELSE SetProfiles(Added(profiles, n, b))
            /\ UNCHANGED staging
    /\ UNCHANGED <<depth, startup>>

ActiveKeymapProfile(n) ==
    /\ IF BatchActive
       THEN staging' = [Ensured EXCEPT !.active = n, !.activeDirty = TRUE] /\ Nothing
       ELSE SetActive(n) /\ UNCHANGED staging
    /\ UNCHANGED <<depth, startup>>
-----------------------------------------------------------------------------
(* Batches: mrvmBegin-, mrvmEndConfiguredKeymapBatch and the startup flush. *)

\* Mutant: the selection is looked for among the profiles before the batch.
SelectedBefore(ps, name) == Existing(profiles, name)
Selected(ps, name) == Existing(ps, name)

\* What setProfiles and then setActive leave of a batch: the settings, the
\* trie and whether both were accepted.
Flushed ==
    LET name  == Existing(staging.profiles, active)
        first == Build(BindingsOf(staging.profiles, name))
        taken == ~staging.profilesDirty \/ (Valid(staging.profiles) /\ first.ok)
        ps    == IF staging.profilesDirty /\ taken THEN staging.profiles ELSE profiles
        old   == IF staging.profilesDirty /\ taken THEN name ELSE active
        new   == Selected(ps, staging.active)
        built == Build(BindingsOf(ps, new))
        tries == staging.activeDirty /\ taken
    IN  [profiles |-> ps,
         active   |-> IF tries /\ built.ok THEN new ELSE old,
         trie     |-> IF tries THEN built
                      ELSE IF staging.profilesDirty /\ Valid(staging.profiles) THEN first ELSE trie,
         ok       |-> taken /\ (staging.activeDirty => built.ok),
         rebuilt  |-> tries \/ (staging.profilesDirty /\ Valid(staging.profiles))]

\* flushKeymapBatch: a batch that fails is not cleared
Flush ==
    IF ~staging.initialized THEN Nothing /\ UNCHANGED staging
    ELSE /\ profiles' = Flushed.profiles /\ active' = Flushed.active /\ trie' = Flushed.trie
         /\ pending' = IF Flushed.rebuilt THEN ResetPending ELSE pending
         /\ staging' = IF Flushed.ok THEN Cleared ELSE staging

BeginBatch ==
    /\ depth < MaxBatch
    /\ depth' = depth + 1
    /\ UNCHANGED <<profiles, active, trie, pending, staging, startup>>

\* the macro has ended, with or without an error
EndBatch ==
    /\ depth > 0
    /\ depth' = depth - 1
    /\ IF depth > 1 \/ startup THEN Nothing /\ UNCHANGED staging ELSE Flush
    /\ UNCHANGED startup

\* after each macro of the settings file
StartupFlush ==
    /\ startup /\ depth = 0
    /\ Flush
    /\ UNCHANGED <<depth, startup>>

\* the settings file has run, or has failed
EndStartup ==
    /\ startup /\ depth = 0
    /\ startup' = FALSE
    /\ staging' = IF staging.profilesDirty \/ staging.activeDirty THEN Cleared ELSE staging
    /\ UNCHANGED <<profiles, active, trie, pending, depth>>
-----------------------------------------------------------------------------
(* The keymap dialog and the keyboard. *)

\* Mutant: the dialog overlooks prefixes.
SameSlotOnly(b, c) == Slot(b) = Slot(c)
Conflict(b, c) == IsPrefix(Slot(b), Slot(c)) \/ IsPrefix(Slot(c), Slot(b))

\* canonicalizeKeymapProfiles: the first of the bindings that collide stays
Keep(kept, b) ==
    IF b.target = NoTarget \/ \E i \in DOMAIN kept : Conflict(kept[i], b)
    THEN kept ELSE Append(kept, b)

Kept(bindings) ==
    LET kept[i \in 0..Len(bindings)] == IF i = 0 THEN <<>> ELSE Keep(kept[i - 1], bindings[i])
    IN  kept

Canonical(bindings) == Kept(bindings)[Len(bindings)]

\* canonicalizeDraftForCommit
CanonicalDraft(ps) == [n \in Profiles |-> IF ps[n] = None THEN None ELSE Canonical(ps[n])]

\* The dialog's draft, canonicalised, is run as a source text, without a batch:
\* KEYMAP_RESET, the profiles with their bindings and, last, the selection;
\* only the selection rebuilds a trie that could be refused.
\* To save it the dialog runs the same from a file, which is a macro like any
\* other: BeginBatch, KeymapReset, KeymapProfile, ..., EndBatch.
ApplyDraft(ps, name) ==
    /\ ~BatchActive
    /\ trie' = Build(BindingsOf(ps, Existing(ps, name))) /\ pending' = ResetPending
    /\ profiles' = ps
    /\ active' = IF trie'.ok THEN Existing(ps, name) ELSE None
    /\ UNCHANGED <<staging, depth, startup>>

\* what resolve() stores
NewPending(c, k, d) == IF d = "pending" THEN Append(pending[c], k) ELSE <<>>

Resolve(c, k) ==
    /\ ~BatchActive
    /\ LET d == Decide(trie, c, Append(pending[c], k))
       IN  pending' = [pending EXCEPT ![c] = IF @ # <<>> /\ k = Esc THEN <<>> ELSE NewPending(c, k, d)]
    /\ UNCHANGED <<profiles, active, trie, staging, depth, startup>>

Direct ==
    \/ KeymapReset
    \/ \E n \in Profiles : KeymapProfile(n)
    \/ \E n \in Profiles, b \in Binding : KeymapBind(n, b)
    \/ \E n \in Profiles \cup {None} : ActiveKeymapProfile(n)

Drafts ==
    {ps \in [Profiles -> (UNION {[1..i -> Binding] : i \in 0..MaxBindings}) \cup {None}] :
        Size(ps) <= MaxBindings}
Commits == {CanonicalDraft(ps) : ps \in Drafts}

Next ==
    \/ Direct
    \/ BeginBatch \/ EndBatch \/ StartupFlush \/ EndStartup
    \/ \E ps \in Commits, n \in Profiles \cup {None} : ApplyDraft(ps, n)
    \/ \E c \in Contexts, k \in Keys \cup {Esc} : Resolve(c, k)

Spec == Init /\ [][Next]_vars
-----------------------------------------------------------------------------
\* What a profile says of a key sequence, without a trie: its one binding, a
\* longer binding, or nothing.
Reference(bindings, c, s) ==
    LET p == <<c>> \o s
        B == {bindings[i] : i \in DOMAIN bindings}
    IN  IF \E b \in B : Slot(b) = p THEN (CHOOSE b \in B : Slot(b) = p).target
        ELSE IF \E b \in B : IsStrictPrefix(p, Slot(b)) THEN "pending" ELSE "none"

Projected ==
    \A c \in Contexts, s \in (UNION {Prefixes(b[1]) : b \in Bound}) \ {<<>>} :
        Decide(trie, c, s) = Reference(BindingsOf(profiles, active), c, s)

\* The keys typed so far are always the beginning of a sequence of the present
\* trie: whatever a macro, a batch or the dialog changes between two keys, no
\* key is swallowed by a sequence that exists no more.
PendingIsPrefix ==
    \A c \in Contexts : pending[c] # <<>> => Decide(trie, c, pending[c]) = "pending"

\* No terminal hides another one, also in a trie whose rebuild failed half way.
PrefixFree == \A p, q \in DOMAIN trie.terminal : ~IsStrictPrefix(p, q)

\* Outside batches, whenever the profiles or the selection change, the trie
\* decides every sequence as the active profile does.
ChangeIsProjected ==
    [][depth = 0 /\ ~startup /\ <<profiles, active>>' # <<profiles, active>> => Projected']_vars

\* Whatever macros have stored, the dialog can commit it: its own collision
\* check leaves bindings that the trie accepts and decides as they stand.
DraftIsAccepted ==
    \A n \in Profiles : profiles[n] # None =>
        LET kept == Canonical(profiles[n])
            built == Build(kept)
        IN  built.ok /\ \A b \in Binding :
                Decide(built, b.context, b.sequence) = Reference(kept, b.context, b.sequence)

\* the settings that a batch stands for
BatchProfiles == IF staging.profilesDirty THEN staging.profiles ELSE profiles
BatchSelection == IF staging.activeDirty THEN staging.active ELSE active

\* A batch that is accepted is applied as a whole: its profiles become the
\* settings, its selection, if that profile exists, or else the former one is
\* active, and the trie decides as the active profile does.
BatchIsApplied ==
    [][BatchActive /\ staging.initialized /\ staging' = Cleared /\ startup' = startup
       => /\ profiles' = BatchProfiles
          /\ active' = Existing(BatchProfiles, BatchSelection)
          /\ staging.profilesDirty \/ staging.activeDirty => Projected']_vars

=============================================================================
