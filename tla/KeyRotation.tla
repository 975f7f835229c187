----------------------------- MODULE KeyRotation -----------------------------
(****************************************************************************)
(* The directory of JWT signing keys: scripts/rotate_jwt_key.py, which      *)
(* rewrites it one file operation at a time and may die between any two,    *)
(* and the processes (service workers, the token CLI) that load it once,    *)
(* one file at a time and at any moment, and then issue and verify tokens   *)
(* from what they loaded (auth/keystore.py, auth/jwt.py,                    *)
(* auth/service_tokens.py).                                                 *)
(*                                                                          *)
(* A key is a number, 0 for no file.  Slot 0 of the directory holds         *)
(* current.{key,pub}, slot i prev-i.{key,pub}; Legacy is jwt_signing.       *)
(****************************************************************************)
EXTENDS Integers, FiniteSets

CONSTANTS
    KeepPrev,     \* --keep-prev
    Processes,    \* processes that hold a copy of the keys
    MaxKeys,      \* bound on the keys ever made
    MaxCrashes    \* bound on the deaths of the script

ASSUME KeyRotationAssumption ==
    KeepPrev \in Nat \ {0} /\ MaxKeys \in Nat \ {0} /\ MaxCrashes \in Nat

VARIABLES
    files,      \* files[s]: the pair of files of slot s
    script,     \* the rotation under way: its next operation, the slot it fills
    made,       \* keys generated so far
    completed,  \* history: keys installed by a rotation that ran to its end
    crashes,    \* history: how often the script died
    loaded,     \* loaded[p]: _cached_keys() of process p
    loading,    \* loading[p]: a _discover() in progress
    promised,   \* history: keys p found within their grace when it loaded
    tokens      \* tokens issued: the key that signed, the kid in the header

dirVars == <<files, script, made, completed, crashes>>
processVars == <<loaded, loading, promised>>
vars == <<dirVars, processVars, tokens>>

Current == 0
Legacy == KeepPrev + 1
Slots == 0..Legacy

Pair(key, pub) == [key |-> key, pub |-> pub]
NoPair == Pair(0, 0)
NoKeys == [s \in Slots |-> NoPair]

----------------------------------------------------------------------------
(* rotate_jwt_key.py *)

At(op) == script.op = op
Then(op, slot) == script' = [op |-> op, slot |-> slot]
DirUnchanged == UNCHANGED <<made, completed, crashes, processVars, tokens>>
RemoveKey(s) == files' = [files EXCEPT ![s] = Pair(0, @.pub)]
RemovePub(s) == files' = [files EXCEPT ![s] = Pair(@.key, 0)]

\* Slip: one off.
SecondOldest == IF KeepPrev > 1 THEN KeepPrev - 1 ELSE KeepPrev

Oldest == KeepPrev

Rotate ==
    /\ At("idle")
    /\ made < MaxKeys
    /\ made' = made + 1
    /\ Then("drop key", Oldest)
    /\ UNCHANGED <<files, completed, crashes, processVars, tokens>>

DropKey == At("drop key") /\ RemoveKey(Oldest) /\ Then("drop pub", Oldest) /\ DirUnchanged

\* The cascade fills prev-N first, from prev-(N-1), and prev-1 last, from current.
Target == KeepPrev

DropPub == At("drop pub") /\ RemovePub(Oldest) /\ Then("move", Target) /\ DirUnchanged

\* Slip: the last move, of current, is missing.
StopShort(slot) ==
    IF slot > 2 THEN Then("move", slot - 1) ELSE Then("install key", Current)

NextMove(slot) ==
    IF slot > 1 THEN Then("move", slot - 1) ELSE Then("install key", Current)

\* _move_pair does nothing when neither file of the source is there.
Move ==
    /\ At("move")
    /\ IF files[script.slot - 1] = NoPair THEN NextMove(script.slot)
                                          ELSE Then("unlink key", script.slot)
    /\ UNCHANGED files
    /\ DirUnchanged

UnlinkKey ==
    /\ At("unlink key")
    /\ RemoveKey(script.slot)
    /\ Then("unlink pub", script.slot)
    /\ DirUnchanged

UnlinkPub ==
    /\ At("unlink pub")
    /\ RemovePub(script.slot)
    /\ Then("rename key", script.slot)
    /\ DirUnchanged

\* A half that is not there is not renamed, and its target was removed.
RenameKey ==
    /\ At("rename key")
    /\ LET source == script.slot - 1
       IN  files' = [files EXCEPT ![script.slot] = Pair(files[source].key, @.pub),
                                  ![source] = Pair(0, @.pub)]
    /\ Then("rename pub", script.slot)
    /\ DirUnchanged

RenamePub ==
    /\ At("rename pub")
    /\ LET source == script.slot - 1
       IN  files' = [files EXCEPT ![script.slot] = Pair(@.key, files[source].pub),
                                  ![source] = Pair(@.key, 0)]
    /\ NextMove(script.slot)
    /\ DirUnchanged

\* The pair is generated aside and each file is moved into place, which is a rename
\* (the temporary directory being on the file system of the keys).
InstallKey ==
    /\ At("install key")
    /\ files' = [files EXCEPT ![Current] = Pair(made, @.pub)]
    /\ Then("install pub", Current)
    /\ DirUnchanged

InstallPub ==
    /\ At("install pub")
    /\ files' = [files EXCEPT ![Current] = Pair(@.key, made)]
    /\ completed' = completed \union {made}
    /\ Then("idle", Current)
    /\ UNCHANGED <<made, crashes, processVars, tokens>>

\* The script dies; the operator runs it again, from the start, or never.
Crash ==
    /\ ~At("idle")
    /\ crashes < MaxCrashes
    /\ crashes' = crashes + 1
    /\ Then("idle", Current)
    /\ UNCHANGED <<files, made, completed, processVars, tokens>>

Script ==
    \/ Rotate \/ DropKey \/ DropPub \/ Move \/ UnlinkKey \/ UnlinkPub
    \/ RenameKey \/ RenamePub \/ InstallKey \/ InstallPub \/ Crash

----------------------------------------------------------------------------
(* Grace *)

\* Rotations completed after k.
Age(k) == Cardinality({j \in completed : j > k})

\* A crash, and a rotation under way, each cost the oldest of the keys kept.
InGrace(k) ==
    k \in completed /\ Age(k) + crashes + (IF At("idle") THEN 0 ELSE 1) <= KeepPrev

----------------------------------------------------------------------------
(* The processes: load, issue, verify *)

NotLoading == [op |-> "idle"]

Reading(op, keys, todo, seen) == [op |-> op, keys |-> keys, todo |-> todo, seen |-> seen]

\* sorted(glob("*.pub")): current, jwt_signing, prev-1, prev-2, ...  (prev-10 would sort
\* before prev-2; no property depends on which file is next.)
LoadOrder(s) == IF s = Legacy THEN 1 ELSE 2 * s
NextFile(todo) == {s \in todo : \A t \in todo : LoadOrder(s) <= LoadOrder(t)}
Discoverable == {s \in Slots : files[s].pub # 0}

\* What is left to read, or nothing: then the result is cached for good, an empty one too.
Loaded(p, keys, todo, seen) ==
    IF todo # {}
    THEN /\ loading' = [loading EXCEPT ![p] = Reading("key", keys, todo, seen)]
         /\ UNCHANGED <<loaded, promised>>
    ELSE /\ loaded' = [loaded EXCEPT ![p] = [done |-> TRUE, keys |-> keys]]
         /\ promised' = [promised EXCEPT ![p] =
                           IF seen = files THEN {k \in completed : InGrace(k)} ELSE {}]
         /\ loading' = [loading EXCEPT ![p] = NotLoading]

\* The first use of a key lists the directory.  (Two threads of one process that both
\* find the cache empty load it twice; they are taken as one load.)
BeginLoad(p) ==
    /\ ~loaded[p].done
    /\ loading[p].op = "idle"
    /\ Loaded(p, NoKeys, Discoverable, files)
    /\ UNCHANGED <<dirVars, tokens>>

ReadKey(p) ==
    LET load == loading[p]
    IN  /\ load.op = "key"
        /\ \E s \in NextFile(load.todo) :
             loading' = [loading EXCEPT ![p] =
               Reading("pub", [load.keys EXCEPT ![s] = Pair(files[s].key, @.pub)],
                       load.todo, load.seen)]
        /\ UNCHANGED <<dirVars, loaded, promised, tokens>>

\* Slip: the public halves are those of the listing.
ReadPubListed(p) ==
    LET load == loading[p]
    IN  /\ load.op = "pub"
        /\ \E s \in NextFile(load.todo) :
             Loaded(p, [load.keys EXCEPT ![s] = Pair(@.key, load.seen[s].pub)],
                    load.todo \ {s}, load.seen)
        /\ UNCHANGED <<dirVars, tokens>>

\* A file that was listed and is gone raises: the call fails, nothing is cached.
ReadPub(p) ==
    LET load == loading[p]
    IN  /\ load.op = "pub"
        /\ \E s \in NextFile(load.todo) :
             IF files[s].pub = 0
             THEN /\ loading' = [loading EXCEPT ![p] = NotLoading]
                  /\ UNCHANGED <<loaded, promised>>
             ELSE Loaded(p, [load.keys EXCEPT ![s] = Pair(@.key, files[s].pub)],
                         load.todo \ {s}, load.seen)
        /\ UNCHANGED <<dirVars, tokens>>

\* A worker is restarted; the CLI is a process that loads, issues and ends.
Restart(p) ==
    /\ loaded[p].done \/ loading[p].op # "idle"
    /\ loaded' = [loaded EXCEPT ![p] = [done |-> FALSE, keys |-> NoKeys]]
    /\ loading' = [loading EXCEPT ![p] = NotLoading]
    /\ promised' = [promised EXCEPT ![p] = {}]
    /\ UNCHANGED <<dirVars, tokens>>

Known(keys) == {s \in Slots : keys[s].pub # 0}
CanSign(keys, s) == s \in Known(keys) /\ keys[s].key # 0

\* Slot of the key that signs, none in production without current or jwt_signing.
current_signing_key(keys) ==
    {s \in {Current, Legacy} :
       CanSign(keys, s) /\ (s = Legacy => ~CanSign(keys, Current))}

Issue(p) ==
    /\ loaded[p].done
    /\ \E s \in current_signing_key(loaded[p].keys) :
         tokens' = tokens \union {[key |-> loaded[p].keys[s].key, kid |-> s]}
    /\ UNCHANGED <<dirVars, processVars>>

\* Slip: the kid is a contract.
KidOnly(keys, kid) == IF kid \in Known(keys) THEN {kid} ELSE Known(keys)

\* verify_key_for(kid), then every other key: the kid is only a hint.
Candidates(keys, kid) ==
    (IF kid \in Known(keys) THEN {kid} ELSE Known(keys)) \union Known(keys)

Accepts(p, token) ==
    \E s \in Candidates(loaded[p].keys, token.kid) : loaded[p].keys[s].pub = token.key

----------------------------------------------------------------------------
\* A deployment that rotates from its start, or one with the single legacy key.
Init ==
    /\ \E s \in {Current, Legacy} :
         /\ files = [NoKeys EXCEPT ![s] = Pair(1, 1)]
         /\ completed = IF s = Current THEN {1} ELSE {}
    /\ script = [op |-> "idle", slot |-> Current]
    /\ made = 1
    /\ crashes = 0
    /\ loaded = [p \in Processes |-> [done |-> FALSE, keys |-> NoKeys]]
    /\ loading = [p \in Processes |-> NotLoading]
    /\ promised = [p \in Processes |-> {}]
    /\ tokens = {}

Process(p) == BeginLoad(p) \/ ReadKey(p) \/ ReadPub(p) \/ Restart(p) \/ Issue(p)

Next == Script \/ \E p \in Processes : Process(p)

Spec == Init /\ [][Next]_vars

----------------------------------------------------------------------------
(* Properties *)

Pairs == [key : Nat, pub : Nat]
Ops == {"idle", "drop key", "drop pub", "move", "unlink key", "unlink pub", "rename key",
        "rename pub", "install key", "install pub"}

DirectoryTypeOK ==
    /\ files \in [Slots -> Pairs]
    /\ script \in [op : Ops, slot : 0..KeepPrev]
    /\ made \in Nat \ {0}
    /\ completed \subseteq 1..made
    /\ crashes \in Nat

\* Wherever the script dies, and however often it is run again over what it left,
\* no name ever pairs a private key with the public half of another.
PairsMatch ==
    \A s \in Slots : files[s].key = 0 \/ files[s].pub = 0 \/ files[s].key = files[s].pub

\* A process that loads while files are renamed may pair halves of two keys for good,
\* and then reject its own tokens (auth/keystore.py:66-73).  The private half is the
\* older one: nobody signs with a key whose public half was not yet there to be loaded.
TornPairsSignOlder ==
    \A p \in Processes, s \in Slots :
      loaded[p].keys[s].pub # 0 => loaded[p].keys[s].key <= loaded[p].keys[s].pub

\* The public half of a key within its grace is in the directory at every moment,
\* under some name: each crash costs at most one of the keys the script keeps.
GraceNeverLost == \A k \in completed : InGrace(k) => \E s \in Slots : files[s].pub = k

\* A process verifies every token, whichever process issued it and under which kid,
\* of a key that was within its grace when the process loaded an unmoving directory.
GraceTokensVerify ==
    \A p \in Processes, token \in tokens :
      loaded[p].done /\ token.key \in promised[p] => Accepts(p, token)

=============================================================================
