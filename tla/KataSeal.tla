------------------------------ MODULE KataSeal ------------------------------
(***************************************************************************)
(* kata_seal.py at work in a miner's bundle, and the room the result is    *)
(* for: the tool checks its arguments, binds the bundle, verifies the      *)
(* room, encrypts, and writes the ciphertext to a temporary file that it   *)
(* renames; the room opens the file, parses the payload, extracts the      *)
(* bundle it was sent within its limits and compares the two bindings      *)
(* (room/bundle.py).                                                       *)
(*                                                                         *)
(* The tool may fail or be killed between any two steps, and the machine   *)
(* may lose its power, with what was written but not synced; the miner     *)
(* edits the bundle, runs the agent in it and seals again.                 *)
(***************************************************************************)
EXTENDS Credential

LOCAL INSTANCE FiniteSetsExt

CONSTANTS
  Commands,   \* invocations of the tool (see Credential) with the measurement
              \* they ask for and whether they verify
  Profiles,   \* declarations of profiles
  AgentPaths, \* paths of the submission itself
  CachePaths, \* generated caches and VCS metadata, which packers leave out
  TempPaths,  \* names mkstemp may choose
  MaxVersion, \* bound on the versions of an agent's file
  MaxSeals,   \* bound on ciphertexts
  MaxEdits,   \* bound on what the miner does to the bundle
  Sizes,      \* the bytes of each content
  ArchiveSize(_), \* the bytes of the compressed archive of a directory
  MaxCompressed, MaxExtracted, MaxFiles \* the room's limits of a bundle

SEALED == "sealed_inference_key"

ASSUME BoundsAssumption ==
  MaxVersion \in Nat \ {0} /\ MaxSeals \in Nat /\ MaxEdits \in Nat
\* The measurement asked for is the approved image's or that of some other.
ASSUME CommandsAssumption == \A c \in Commands : c.measurement \in {"approved", "other"}
ASSUME PathsAssumption ==
  /\ SEALED \notin AgentPaths \cup CachePaths \cup TempPaths
  /\ AgentPaths \cap CachePaths = {}
  /\ (AgentPaths \cup CachePaths) \cap TempPaths = {}

Paths == AgentPaths \cup CachePaths \cup TempPaths \cup {SEALED}

\* What is at a path: a version of a text, ciphertext number id, whole or in part,
\* or a symbolic link: to a file, to a directory of the submission, to one outside
\* the bundle, or to the directory that holds the caches.
DirLinks == {"dirlink", "outlink", "cachelink"}
Kinds    == {"none", "text", "part", "cipher", "link"} \cup DirLinks
Contents == [kind : Kinds, id : 0 .. MaxVersion + MaxSeals]
Content(kind, id) == [kind |-> kind, id |-> id]
Nothing == Content("none", 0)

\* A size for every content, and limits of at least one.
ASSUME SizesAssumption == Sizes \in [Contents -> Nat]
ASSUME LimitsAssumption ==
  MaxCompressed \in Nat \ {0} /\ MaxExtracted \in Nat \ {0} /\ MaxFiles \in Nat \ {0}

VARIABLES
  spec,      \* CREDENTIAL_SPEC of the room the miner seals for
  files,     \* the bundle directory
  unsynced,  \* paths whose content is not on the disk yet
  step,      \* the next step of the tool
  payload,   \* the plaintext being sealed
  trust,     \* the measurement it asks of the room, or "none" (--no-verify)
  temp,      \* the path mkstemp chose
  sealings,  \* history: each ciphertext's payload, key, trust, and bundle when bound
  bundle,    \* history: the bundle as it was bound
  stray,     \* history: temporaries of killed runs and failed unlinks
  edits

vars == <<spec, files, unsynced, step, payload, trust, temp, sealings, bundle, stray, edits>>
disk == <<files, unsynced>>

-----------------------------------------------------------------------------
(* bundle.py                                                               *)

\* Mutant: only the ciphertext is left out.
ExcludedCiphertextOnly(path) == path = SEALED

\* _exclude_from_credential_binding
Excluded(path) == path = SEALED \/ path \in CachePaths

\* A link to the caches where there are none: it leads to nothing.
Dangles(dir, p) ==
  dir[p].kind = "cachelink" /\ \A c \in CachePaths : dir[c] = Nothing

\* A link to a file, or to nothing, is refused wherever it is.
Bindable(dir) == \A p \in Paths : dir[p].kind # "link" /\ ~Dangles(dir, p)

\* What is hashed; a link to a directory is passed over like a directory.
Hashed(dir) == {p \in Paths : ~Excluded(p) /\ dir[p].kind \notin {"none"} \cup DirLinks}

\* Mutant: the hash covers the contents but not the paths.
BindingOfContents(dir) == {dir[p] : p \in Hashed(dir)}

\* credential_bundle_binding
Binding(dir) == [p \in Hashed(dir) |-> dir[p]]

\* The regular files among an archive's members.
Regular(dir) == {p \in Paths : dir[p].kind \in {"text", "part", "cipher"}}

\* extract_submission_bundle: the archive and its files are within the limits, and
\* the extraction filter finds no link out of the bundle.
Extractable(dir) ==
  /\ ArchiveSize(dir) <= MaxCompressed
  /\ Cardinality(Regular(dir)) <= MaxFiles
  /\ MapThenSumSet(LAMBDA p : Sizes[dir[p]], Regular(dir)) <= MaxExtracted
  /\ \A p \in Paths : dir[p].kind # "outlink"

-----------------------------------------------------------------------------
(* The room's public key document and its verification.                    *)

\* What /pubkey, or somebody in its place, may answer: a key, and a quote that is
\* genuine or not, of the approved image or of another, and binds some key.  The
\* approved image binds its own key; and since /run's report data has no prefix, a
\* nonce and project key can spell that of /pubkey, with a digest for the key: one
\* that nobody holds the secret of.
Documents ==
  {doc \in [key: {"room", "other", "unheld", "malformed"}, genuine: BOOLEAN,
            measurement: {"approved", "other"}, binds: {"room", "other", "unheld"}] :
     doc.genuine /\ doc.measurement = "approved" => doc.binds \in {"room", "unheld"}}

\* Mutant: the quote's binding of the key is not compared.
VerifiesUnbound(doc, measurement) ==
  /\ doc.genuine
  /\ doc.measurement = measurement
  /\ doc.key # "malformed"

\* verify_room
Verifies(doc, measurement) ==
  /\ doc.genuine
  /\ doc.measurement = measurement
  /\ doc.key # "malformed"
  /\ doc.binds = doc.key

-----------------------------------------------------------------------------
Idle == step = "idle"
NoPayload == [version |-> 0, lane |-> "", keys |-> <<>>, binding |-> <<>>]
EmptyDir == [p \in Paths |-> Nothing]

\* The end of the tool, on any way out.
Quit ==
  /\ step' = "idle"
  /\ payload' = NoPayload
  /\ trust' = "none"
  /\ temp' = SEALED
  /\ bundle' = EmptyDir

\* The room has started, so its profile's declaration was complete; the miner may
\* have run the agent already.
Init ==
  /\ spec \in {SpecFor(p) : p \in {q \in Profiles : Declares(q)}}
  /\ \E cached \in SUBSET CachePaths :
       files = [p \in Paths |-> IF p \in AgentPaths \cup cached THEN Content("text", 1)
                                ELSE Nothing]
  /\ unsynced = {}
  /\ step = "idle" /\ payload = NoPayload /\ trust = "none" /\ temp = SEALED
  /\ sealings = <<>>
  /\ bundle = EmptyDir
  /\ stray = {}
  /\ edits = 0

-----------------------------------------------------------------------------
(* The steps of the tool.                                                  *)

\* main: arguments and keys are checked before anything else is touched.  A
\* command that is refused changes nothing.
Start(command) ==
  /\ Idle
  /\ Len(sealings) < MaxSeals
  /\ AcceptsMulti(command) \/ AcceptsSingle(command)
  /\ payload' = PayloadOf(command, <<>>)
  /\ trust' = IF command.verify THEN command.measurement ELSE "none"
  /\ step' = "bind"
  /\ UNCHANGED <<spec, disk, temp, sealings, bundle, stray, edits>>

BindBundle ==
  /\ step = "bind"
  /\ Bindable(files)
  /\ payload' = [payload EXCEPT !.binding = Binding(files)]
  /\ bundle' = files
  /\ step' = "fetch"
  /\ UNCHANGED <<spec, disk, trust, temp, sealings, stray, edits>>

\* _seal up to the encryption: the document is fetched, verified unless the
\* command says not to, and its key used.
Encrypt(doc) ==
  /\ step = "fetch"
  /\ doc.key # "malformed"
  /\ trust # "none" => Verifies(doc, trust)
  /\ sealings' = Append(sealings, [payload |-> payload, key |-> doc.key,
                                   trust |-> trust, bundle |-> bundle])
  /\ step' = "create"
  /\ UNCHANGED <<spec, disk, payload, trust, temp, bundle, stray, edits>>

\* A step before the temporary file exists fails: a bundle that cannot be bound,
\* a room that cannot be reached or verified, a directory that is not writable.
GiveUp ==
  /\ step \in {"bind", "fetch", "create"}
  /\ Quit
  /\ UNCHANGED <<spec, disk, sealings, stray, edits>>

Ciphertext == Content("cipher", Len(sealings))
Truncated  == Content("part", Len(sealings))

\* write_atomically: mkstemp ...
CreateTemp ==
  /\ step = "create"
  /\ \E t \in TempPaths :
       /\ files[t] = Nothing
       /\ files' = [files EXCEPT ![t] = Truncated]
       /\ temp' = t
  /\ step' = "write"
  /\ UNCHANGED <<spec, unsynced, payload, trust, sealings, bundle, stray, edits>>

\* Mutant: the file is renamed without being synced.
WriteOnly ==
  /\ step = "write"
  /\ files' = [files EXCEPT ![temp] = Ciphertext]
  /\ unsynced' = unsynced \cup {temp}
  /\ step' = "replace"
  /\ UNCHANGED <<spec, payload, trust, temp, sealings, bundle, stray, edits>>

\* ... write and flush, ...
Write ==
  /\ step = "write"
  /\ files' = [files EXCEPT ![temp] = Ciphertext]
  /\ unsynced' = unsynced \cup {temp}
  /\ step' = "sync"
  /\ UNCHANGED <<spec, payload, trust, temp, sealings, bundle, stray, edits>>

\* ... fsync ...
Sync ==
  /\ step = "sync"
  /\ unsynced' = unsynced \ {temp}
  /\ step' = "replace"
  /\ UNCHANGED <<spec, files, payload, trust, temp, sealings, bundle, stray, edits>>

\* ... and rename over what was there.
Replace ==
  /\ step = "replace"
  /\ files' = [files EXCEPT ![SEALED] = files[temp], ![temp] = Nothing]
  /\ unsynced' = IF temp \in unsynced THEN (unsynced \ {temp}) \cup {SEALED}
                 ELSE unsynced \ {SEALED}
  /\ Quit
  /\ UNCHANGED <<spec, sealings, stray, edits>>

\* Mutant: an interrupt is not one of the failures the temporary is removed after.
FailOrInterrupt ==
  /\ step \in {"write", "sync", "replace"}
  /\ \/ /\ files' = [files EXCEPT ![temp] = Nothing]
        /\ unsynced' = unsynced \ {temp}
     \/ UNCHANGED disk
  /\ Quit
  /\ UNCHANGED <<spec, sealings, stray, edits>>

\* Any failure in between, Ctrl-C included: the temporary is unlinked, best effort.
Fail ==
  /\ step \in {"write", "sync", "replace"}
  /\ \/ /\ files' = [files EXCEPT ![temp] = Nothing]
        /\ unsynced' = unsynced \ {temp}
        /\ UNCHANGED stray
     \/ /\ stray' = stray \cup {temp}
        /\ UNCHANGED disk
  /\ Quit
  /\ UNCHANGED <<spec, sealings, edits>>

\* The process is killed: nobody unlinks.
Kill ==
  /\ ~Idle
  /\ stray' = stray \cup (IF temp \in TempPaths THEN {temp} ELSE {})
  /\ Quit
  /\ UNCHANGED <<spec, disk, sealings, edits>>

\* The machine stops: of what was not synced only a part may be there.
PowerLoss ==
  /\ \E lost \in SUBSET unsynced :
       files' = [p \in Paths |-> IF p \in lost THEN Content("part", files[p].id) ELSE files[p]]
  /\ unsynced' = {}
  /\ stray' = stray \cup (IF temp \in TempPaths THEN {temp} ELSE {})
  /\ Quit
  /\ UNCHANGED <<spec, sealings, edits>>

-----------------------------------------------------------------------------
(* The miner, at any time.                                                 *)

\* A file of the submission is changed, removed or replaced by a link.
EditAgent ==
  /\ edits < MaxEdits
  /\ \E p \in AgentPaths, new \in [kind: {"text"}, id: 1 .. MaxVersion] \cup {Nothing}
                                   \cup [kind: {"link"} \cup DirLinks, id: {1}] :
       files' = [files EXCEPT ![p] = new]
  /\ edits' = edits + 1
  /\ UNCHANGED <<spec, unsynced, step, payload, trust, temp, sealings, bundle, stray>>

\* The agent is run in the bundle and leaves its caches there, or they are cleared.
RunAgent ==
  /\ edits < MaxEdits
  /\ \E p \in CachePaths, new \in {Content("text", 1), Nothing} :
       files' = [files EXCEPT ![p] = new]
  /\ edits' = edits + 1
  /\ UNCHANGED <<spec, unsynced, step, payload, trust, temp, sealings, bundle, stray>>

\* A temporary that was left behind is cleared away.
ClearStray ==
  /\ edits < MaxEdits
  /\ \E t \in stray : files' = [files EXCEPT ![t] = Nothing] /\ stray' = stray \ {t}
                      /\ unsynced' = unsynced \ {t}
  /\ edits' = edits + 1
  /\ UNCHANGED <<spec, step, payload, trust, temp, sealings, bundle>>

-----------------------------------------------------------------------------
(* The room.                                                               *)

\* What a packer sends: it may leave caches, and the ciphertext, out.
Packed(omitted) == [p \in Paths |-> IF p \in omitted THEN Nothing ELSE files[p]]
Packings == {Packed(omitted) : omitted \in SUBSET (CachePaths \cup {SEALED})}

\* resolve_sealed_credential decrypts what kata_seal sealed to the room's key.
Opens == files[SEALED].kind = "cipher" /\ sealings[files[SEALED].id].key = "room"

\* The ciphertext in the bundle.
Current == sealings[files[SEALED].id]

\* The room lets a run with this bundle, declared by its digest, spend the
\* credential.
Accepts(sent) ==
  /\ Opens
  /\ Parses(Current.payload, spec)
  /\ Extractable(sent)
  /\ Bindable(sent)
  /\ Current.payload.binding = Binding(sent)

-----------------------------------------------------------------------------
Next ==
  \/ \E command \in Commands : Start(command)
  \/ BindBundle
  \/ \E doc \in Documents : Encrypt(doc)
  \/ GiveUp \/ CreateTemp \/ Write \/ Sync \/ Replace \/ Fail
  \/ Kill \/ PowerLoss
  \/ EditAgent \/ RunAgent \/ ClearStray

Spec == Init /\ [][Next]_vars

-----------------------------------------------------------------------------
(* Properties.                                                             *)

\* Every variable is well typed, and every ciphertext on the disk is one that
\* was made.
TypeOK ==
  /\ spec.version \in {SINGLE_KEY, MULTI_KEY} /\ spec.mode \in Modes
  /\ files \in [Paths -> Contents]
  /\ \A p \in Paths : files[p].kind \in {"part", "cipher"} => files[p].id \in DOMAIN sealings
  /\ unsynced \subseteq TempPaths \cup {SEALED}
  /\ step \in {"idle", "bind", "fetch", "create", "write", "sync", "replace"}
  /\ trust \in {"none", "approved", "other"}
  /\ temp \in TempPaths \cup {SEALED}
  /\ stray \subseteq TempPaths
  /\ edits \in 0 .. MaxEdits

\* write_atomically: whatever fails, is killed or loses its power, and however
\* often the miner seals, the submitted file is a whole ciphertext or not there;
\* and a temporary is only left in the bundle by a run that was killed, or that
\* could not unlink it.
WrittenAtomically ==
  /\ files[SEALED].kind \in {"none", "cipher"}
  /\ \A t \in TempPaths : files[t] # Nothing => t = temp \/ t \in stray

\* A set of keys that was sealed for the room's profile and to the approved image,
\* in a bundle whose submitted files are as they were when it was bound, is
\* accepted by the room, whatever caches have come or gone and whichever of them
\* the packer sends, if what it sends can be extracted and has no link to caches
\* it leaves out.  Those two the tool does not check; of everything else it
\* refuses what the room would refuse.
SealedIsAccepted ==
  /\ Opens
  /\ Current.payload.version = MULTI_KEY
  /\ Follows(Current.payload, spec)
  /\ \A p \in AgentPaths \cup TempPaths : files[p] = Current.bundle[p]
  => \A sent \in Packings :
       Extractable(sent) /\ (\A p \in Paths : ~Dangles(sent, p)) => Accepts(sent)

\* What the room accepts was sealed for exactly its contract, in a bundle with the
\* same regular files at the same paths.
AcceptedIsBound ==
  \A sent \in Packings : Accepts(sent) =>
    /\ Follows(Current.payload, spec)
    /\ \A p \in AgentPaths \cup TempPaths :
         {sent[p].kind, Current.bundle[p].kind} \subseteq {"none"} \cup DirLinks
           \/ sent[p] = Current.bundle[p]

\* A command that verifies the approved image never seals a key to anyone else who
\* could open it, whoever answers in the room's place.
SealedToRoom ==
  \A i \in DOMAIN sealings :
    sealings[i].trust = "approved" => sealings[i].key \in {"room", "unheld"}

=============================================================================
