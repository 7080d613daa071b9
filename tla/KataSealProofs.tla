--------------------------- MODULE KataSealProofs ---------------------------
(***************************************************************************)
(* That the submitted ciphertext is whole or absent whatever is killed,    *)
(* fails or loses its power, that what the tool seals for the room's       *)
(* contract the room accepts, that what the room accepts was bound to the  *)
(* bundle it comes with, and that a verified seal is to the room; for any  *)
(* commands, profiles, files and number of seals.                          *)
(*                                                                         *)
(* Of the parts of the invariant, Temporaries ties the files mkstemp made  *)
(* to the step the tool is at and to what earlier runs left, Numbered what *)
(* is written to the ciphertexts made, and Bound each ciphertext, and the  *)
(* payload about to become one, to the command and bundle it came from;    *)
(* Cached says that the caches hold no links.                              *)
(***************************************************************************)
EXTENDS KataSeal, SequenceTheorems, TLAPS

Dirs   == [Paths -> Contents]
Trusts == {"none", "approved", "other"}

Accepted == {c \in Commands : AcceptsMulti(c) \/ AcceptsSingle(c)}
Payloads == {PayloadOf(c, Binding(d)) : c \in Accepted, d \in Dirs}
Sealings == [payload : Payloads, key : {"room", "other", "unheld"}, trust : Trusts, bundle : Dirs]

Shape ==
  /\ spec.version \in {SINGLE_KEY, MULTI_KEY} /\ spec.mode \in Modes
  /\ files \in Dirs /\ bundle \in Dirs
  /\ sealings \in Seq(Sealings)
  /\ step \in {"idle", "bind", "fetch", "create", "write", "sync", "replace"}
  /\ trust \in Trusts
  /\ temp \in TempPaths \cup {SEALED}
  /\ stray \subseteq TempPaths
  /\ edits \in 0 .. MaxEdits

\* The steps at which the tool has a temporary file.
Writing == {"write", "sync", "replace"}

\* The submitted file is whole or absent; every other file of the tool is the one it
\* is writing or was left behind; and what is renamed is whole and on the disk.
Temporaries ==
  /\ files[SEALED].kind \in {"none", "cipher"}
  /\ temp \in TempPaths <=> step \in Writing
  /\ temp \notin stray
  /\ \A t \in TempPaths : files[t] # Nothing <=> t = temp \/ t \in stray
  /\ \A t \in TempPaths : files[t] # Nothing => files[t].kind \in {"part", "cipher"}
  /\ step \in {"sync", "replace"} => files[temp].kind = "cipher"
  /\ unsynced \subseteq stray \cup {temp} /\ SEALED \notin unsynced
  /\ step = "replace" => temp \notin unsynced

\* Ciphertexts on the disk are ciphertexts that were made.
Numbered ==
  /\ Len(sealings) <= MaxSeals
  /\ step \in {"bind", "fetch"} => Len(sealings) < MaxSeals
  /\ step \in {"create"} \cup Writing => Len(sealings) > 0
  /\ \A p \in Paths : files[p].kind \in {"part", "cipher"} => files[p].id \in 1 .. Len(sealings)

\* A cache is a file of the agent's making.
Cached == \A p \in CachePaths : files[p].kind \in {"none", "text"}

\* What is sealed is bound, and was asked for by a command the tool accepts.
BoundTo(sealed, dir) == Bindable(dir) /\ sealed.binding = Binding(dir)

Bound ==
  /\ step = "bind" => \E c \in Accepted : payload = PayloadOf(c, <<>>)
  /\ step = "fetch" => payload \in Payloads /\ BoundTo(payload, bundle)
  /\ \A i \in DOMAIN sealings : BoundTo(sealings[i].payload, sealings[i].bundle)

IInv == Shape /\ Temporaries /\ Numbered /\ Cached /\ Bound /\ SealedToRoom

-----------------------------------------------------------------------------
(* The contract: what the tool accepts and what the room takes.            *)

\* A multi-key command that follows the room's profile makes a payload that the
\* room's parser takes, whatever bundle it is bound to.
LEMMA ToolAgreesWithRoom ==
  ASSUME NEW c \in Accepted, NEW b, NEW s,
         PayloadOf(c, b).version = MULTI_KEY,
         Follows(PayloadOf(c, b), s)
  PROVE  Parses(PayloadOf(c, b), s)
<1> DEFINE sealed == PayloadOf(c, b)
<1>1. c.multi
  BY DEF PayloadOf, SINGLE_KEY, MULTI_KEY
<1>2. AcceptsMulti(c)
  BY <1>1 DEF Accepted, AcceptsSingle
<1>3. DOMAIN sealed.keys = Named(c.providers)
  BY DEF PayloadOf
<1>4. \A p \in Named(c.providers) :
        p \in ProviderIds /\ sealed.keys[p] = c.keys[p] /\ RoomTakesKey(c.keys[p])
  BY <1>2 DEF AcceptsMulti, ParseProviders, CollectKeys, ToolTakesKey, RoomTakesKey, PayloadOf
<1>5. s.version = MULTI_KEY /\ sealed.lane = s.lane /\ DOMAIN sealed.keys = s.providers
  BY DEF Follows
<1> HIDE DEF sealed
<1> QED BY <1>3, <1>4, <1>5 DEF Parses, ParsesSet, sealed

\* The room's parser takes nothing that does not follow its profile.
LEMMA RoomTakesItsOwn ==
  ASSUME NEW sealed, NEW s, s.version \in {SINGLE_KEY, MULTI_KEY}, Parses(sealed, s)
  PROVE  Follows(sealed, s)
BY DEF Parses, ParsesSet, ParsesSingle, Follows, SINGLE_KEY, MULTI_KEY

-----------------------------------------------------------------------------
(* The binding: which files it distinguishes.                              *)

LEMMA SubmittedIsHashed ==
  ASSUME NEW p \in AgentPaths \cup TempPaths
  PROVE  p \in Paths /\ ~Excluded(p)
BY PathsAssumption DEF Paths, Excluded

LEMMA OnlySubmittedIsHashed ==
  ASSUME NEW p \in Paths, ~Excluded(p)
  PROVE  p \in AgentPaths \cup TempPaths
BY DEF Paths, Excluded

\* Directories whose submitted files agree have one binding.
LEMMA SameFilesSameBinding ==
  ASSUME NEW d, NEW e, \A p \in AgentPaths \cup TempPaths : d[p] = e[p]
  PROVE  Binding(d) = Binding(e)
<1>1. Hashed(d) = Hashed(e)
  BY OnlySubmittedIsHashed DEF Hashed
<1>2. \A p \in Hashed(d) : d[p] = e[p]
  BY OnlySubmittedIsHashed DEF Hashed
<1> QED BY <1>1, <1>2 DEF Binding

\* And directories with one binding have the same submitted files, but for what is
\* passed over.
LEMMA SameBindingSameFiles ==
  ASSUME NEW d \in Dirs, NEW e \in Dirs, Binding(d) = Binding(e),
         NEW p \in AgentPaths \cup TempPaths
  PROVE  {d[p].kind, e[p].kind} \subseteq {"none"} \cup DirLinks \/ d[p] = e[p]
<1>1. Hashed(d) = Hashed(e)
  BY DEF Binding
<1>2. CASE p \in Hashed(d)
  BY <1>1, <1>2 DEF Binding
<1>3. CASE p \notin Hashed(d)
  BY <1>1, <1>3, SubmittedIsHashed DEF Hashed
<1> QED BY <1>2, <1>3

-----------------------------------------------------------------------------
(* The invariant at the start, and through each step.                      *)

\* Paths of the tool's own files.
LEMMA ToolPaths ==
  /\ SEALED \in Paths /\ SEALED \notin TempPaths
  /\ \A t \in TempPaths : t \in Paths /\ t # SEALED
  /\ \A p \in AgentPaths \cup CachePaths : p \in Paths /\ p \notin TempPaths /\ p # SEALED
BY PathsAssumption DEF Paths

LEMMA NothingIsContent ==
  Nothing \in Contents /\ Nothing.kind = "none"
BY BoundsAssumption DEF Nothing, Content, Contents, Kinds

LEMMA EmptyDirIsDir == EmptyDir \in Dirs
BY BoundsAssumption DEF EmptyDir, Dirs, Nothing, Content, Contents, Kinds

LEMMA InitInv == Init => IInv
<1> SUFFICES ASSUME Init PROVE IInv
  OBVIOUS
<1>1. spec.version \in {SINGLE_KEY, MULTI_KEY} /\ spec.mode \in Modes
  <2>1. PICK q \in Profiles : Declares(q) /\ spec = SpecFor(q)
    BY DEF Init
  <2> QED BY <2>1 DEF SpecFor, Declares
<1>2. files \in Dirs /\ \A p \in Paths : files[p].kind \in {"none", "text"}
  BY BoundsAssumption DEF Init, Dirs, Contents, Kinds, Content, Nothing
<1>3. \A t \in TempPaths \cup {SEALED} : files[t] = Nothing
  BY PathsAssumption DEF Init, Paths
<1>4. sealings = <<>> /\ <<>> \in Seq(Sealings) /\ Len(<<>>) = 0 /\ DOMAIN <<>> = {}
  BY DEF Init
<1>5. Shape
  BY <1>1, <1>2, <1>4, EmptyDirIsDir, BoundsAssumption DEF Init, Shape, Trusts
<1>6. Temporaries
  BY <1>3, PathsAssumption DEF Init, Temporaries, Writing, Nothing, Content
<1>7. Numbered
  BY <1>2, <1>4, BoundsAssumption DEF Init, Numbered, Writing
<1>8. Cached /\ Bound /\ SealedToRoom
  BY <1>2, <1>4 DEF Init, Cached, Paths, Bound, SealedToRoom
<1> QED BY <1>5, <1>6, <1>7, <1>8 DEF IInv

LEMMA StartInv ==
  ASSUME IInv, NEW c \in Commands, Start(c)
  PROVE  IInv'
<1>1. c \in Accepted /\ payload' = PayloadOf(c, <<>>) /\ step' = "bind" /\ step = "idle"
  BY DEF Start, Accepted, Idle
<1>2. trust' \in Trusts
  BY CommandsAssumption DEF Start, Trusts
<1>3. UNCHANGED <<spec, files, unsynced, temp, sealings, bundle, stray, edits>>
  BY DEF Start, disk
<1>4. Len(sealings) < MaxSeals
  BY DEF Start
<1>5. Shape'
  BY <1>1, <1>2, <1>3 DEF IInv, Shape
<1>6. Temporaries'
  BY <1>1, <1>3 DEF IInv, Temporaries, Writing
<1>7. Numbered'
  BY <1>1, <1>3, <1>4 DEF IInv, Numbered, Writing
<1>8. Cached' /\ Bound' /\ SealedToRoom'
  BY <1>1, <1>3 DEF IInv, Cached, Bound, SealedToRoom
<1> QED BY <1>5, <1>6, <1>7, <1>8 DEF IInv

LEMMA BindBundleInv ==
  ASSUME IInv, BindBundle
  PROVE  IInv'
<1>1. step = "bind" /\ step' = "fetch" /\ bundle' = files /\ Bindable(files)
  BY DEF BindBundle
<1>2. UNCHANGED <<spec, files, unsynced, trust, temp, sealings, stray, edits>>
  BY DEF BindBundle, disk
<1>3. PICK c \in Accepted : payload = PayloadOf(c, <<>>)
  BY <1>1 DEF IInv, Bound
<1>4. payload' = PayloadOf(c, Binding(files))
  BY <1>3 DEF BindBundle, PayloadOf
<1>5. files \in Dirs
  BY DEF IInv, Shape
<1>6. payload' \in Payloads /\ BoundTo(payload', bundle')
  BY <1>1, <1>4, <1>5, <1>2 DEF Payloads, BoundTo, PayloadOf
<1>7. Shape'
  BY <1>1, <1>2 DEF IInv, Shape
<1>8. Temporaries'
  BY <1>1, <1>2 DEF IInv, Temporaries, Writing
<1>9. Numbered'
  BY <1>1, <1>2 DEF IInv, Numbered, Writing
<1>10. Cached' /\ Bound' /\ SealedToRoom'
  BY <1>1, <1>2, <1>6 DEF IInv, Cached, Bound, SealedToRoom
<1> QED BY <1>7, <1>8, <1>9, <1>10 DEF IInv

\* A verified document of the approved image binds the room's own key, or nobody's.
LEMMA VerifiedIsRoom ==
  ASSUME NEW doc \in Documents, Verifies(doc, "approved")
  PROVE  doc.key \in {"room", "unheld"}
BY DEF Documents, Verifies

LEMMA EncryptInv ==
  ASSUME IInv, NEW doc \in Documents, Encrypt(doc)
  PROVE  IInv'
<1> DEFINE made == [payload |-> payload, key |-> doc.key, trust |-> trust, bundle |-> bundle]
<1>1. step = "fetch" /\ step' = "create" /\ sealings' = Append(sealings, made)
  BY DEF Encrypt
<1>2. UNCHANGED <<spec, files, unsynced, payload, trust, temp, bundle, stray, edits>>
  BY DEF Encrypt, disk
<1>3. made \in Sealings /\ BoundTo(made.payload, made.bundle)
  <2>1. doc.key \in {"room", "other", "unheld"}
    BY DEF Encrypt, Documents
  <2> QED BY <1>1, <2>1 DEF IInv, Shape, Bound, Sealings
<1>4. made.trust = "approved" => made.key \in {"room", "unheld"}
  BY VerifiedIsRoom DEF Encrypt
<1> HIDE DEF made
<1>5. sealings \in Seq(Sealings) /\ Len(sealings) \in Nat /\ DOMAIN sealings = 1 .. Len(sealings)
  BY DEF IInv, Shape
<1>6. /\ sealings' \in Seq(Sealings) /\ Len(sealings') = Len(sealings) + 1
      /\ DOMAIN sealings' = 1 .. Len(sealings) + 1
      /\ \A i \in 1 .. Len(sealings) : sealings'[i] = sealings[i]
      /\ sealings'[Len(sealings) + 1] = made
  BY <1>1, <1>3, <1>5, AppendProperties
<1>7. \A i \in DOMAIN sealings' : sealings'[i] = made \/ (i \in DOMAIN sealings /\ sealings'[i] = sealings[i])
  BY <1>5, <1>6
<1>8. Shape'
  BY <1>1, <1>2, <1>6 DEF IInv, Shape
<1>9. Temporaries'
  BY <1>1, <1>2 DEF IInv, Temporaries, Writing
<1>10. Numbered'
  BY <1>1, <1>2, <1>5, <1>6, BoundsAssumption DEF IInv, Numbered, Writing
<1>11. Cached' /\ Bound'
  BY <1>1, <1>2, <1>3, <1>7 DEF IInv, Cached, Bound
<1>12. SealedToRoom'
  BY <1>4, <1>7 DEF IInv, SealedToRoom
<1> QED BY <1>8, <1>9, <1>10, <1>11, <1>12 DEF IInv

\* A step that ends the tool leaves nothing of it but what is on the disk.
LEMMA QuitInv ==
  ASSUME IInv, Quit, UNCHANGED <<spec, sealings, edits>>,
         files' \in Dirs,
         files'[SEALED].kind \in {"none", "cipher"},
         stray' \subseteq TempPaths,
         \A t \in TempPaths : files'[t] # Nothing <=> t \in stray',
         \A t \in TempPaths : files'[t] # Nothing => files'[t].kind \in {"part", "cipher"},
         unsynced' \subseteq stray',
         \A p \in Paths : files'[p].kind \in {"part", "cipher"} => files'[p].id \in 1 .. Len(sealings),
         \A p \in CachePaths : files'[p] = files[p]
  PROVE  IInv'
<1>1. step' = "idle" /\ trust' = "none" /\ temp' = SEALED /\ bundle' = EmptyDir
  BY DEF Quit
<1>2. SEALED \notin TempPaths
  BY PathsAssumption
<1>3. Shape'
  BY <1>1, EmptyDirIsDir DEF IInv, Shape, Trusts
<1>4. Temporaries'
  BY <1>1, <1>2 DEF Temporaries, Writing
<1>5. Numbered'
  BY <1>1 DEF IInv, Numbered, Writing
<1>6. Cached' /\ Bound' /\ SealedToRoom'
  BY <1>1 DEF IInv, Cached, Bound, SealedToRoom
<1> QED BY <1>3, <1>4, <1>5, <1>6 DEF IInv

LEMMA GiveUpInv ==
  ASSUME IInv, GiveUp
  PROVE  IInv'
<1>1. step \notin Writing /\ Quit /\ UNCHANGED <<spec, files, unsynced, sealings, stray, edits>>
  BY DEF GiveUp, disk, Writing
<1>2. temp \notin TempPaths /\ temp = SEALED
  BY <1>1 DEF IInv, Shape, Temporaries
<1> QED BY <1>1, <1>2, QuitInv DEF IInv, Shape, Temporaries, Numbered

LEMMA CreateTempInv ==
  ASSUME IInv, CreateTemp
  PROVE  IInv'
<1>1. PICK t \in TempPaths : /\ files[t] = Nothing /\ temp' = t
                             /\ files' = [files EXCEPT ![t] = Truncated]
  BY DEF CreateTemp
<1>2. step = "create" /\ step' = "write"
      /\ UNCHANGED <<spec, unsynced, payload, trust, sealings, bundle, stray, edits>>
  BY DEF CreateTemp
<1>3. t \in Paths /\ t # SEALED /\ SEALED \in Paths
  BY PathsAssumption DEF Paths
<1>4. temp = SEALED /\ t \notin stray
  BY <1>1, <1>2 DEF IInv, Shape, Temporaries, Writing
<1>5. Len(sealings) \in 1 .. MaxSeals
  BY <1>2, BoundsAssumption DEF IInv, Shape, Numbered
<1>6. /\ Truncated.kind = "part" /\ Truncated.id = Len(sealings) /\ Truncated # Nothing
      /\ Truncated \in Contents
  BY <1>5, BoundsAssumption DEF Truncated, Content, Nothing, Contents, Kinds
<1> DEFINE new == Truncated
<1> HIDE DEF new
<1>7. files' \in Dirs /\ files'[t] = new /\ \A p \in Paths \ {t} : files'[p] = files[p]
  BY <1>1, <1>3, <1>6 DEF IInv, Shape, Dirs, new
<1>8. Shape'
  BY <1>1, <1>2, <1>7 DEF IInv, Shape
<1>9. Temporaries'
  <2>1. \A u \in TempPaths : u \in Paths
    BY DEF Paths
  <2> QED BY <1>1, <1>2, <1>3, <1>4, <1>6, <1>7, <2>1 DEF IInv, Temporaries, Writing, new
<1>10. Numbered'
  BY <1>2, <1>5, <1>6, <1>7 DEF IInv, Numbered, Writing, new
<1>11. Cached' /\ Bound' /\ SealedToRoom'
  BY <1>2, <1>7, ToolPaths DEF IInv, Cached, Bound, SealedToRoom
<1> QED BY <1>8, <1>9, <1>10, <1>11 DEF IInv

LEMMA WriteInv ==
  ASSUME IInv, Write
  PROVE  IInv'
<1>1. step = "write" /\ step' = "sync" /\ unsynced' = unsynced \cup {temp}
      /\ files' = [files EXCEPT ![temp] = Ciphertext]
      /\ UNCHANGED <<spec, payload, trust, temp, sealings, bundle, stray, edits>>
  BY DEF Write
<1>2. temp \in TempPaths /\ temp \in Paths /\ temp # SEALED /\ SEALED \in Paths
  BY <1>1, PathsAssumption DEF IInv, Temporaries, Writing, Paths
<1>3. Len(sealings) \in 1 .. MaxSeals
  BY <1>1, BoundsAssumption DEF IInv, Shape, Numbered, Writing
<1>4. /\ Ciphertext.kind = "cipher" /\ Ciphertext.id = Len(sealings) /\ Ciphertext # Nothing
      /\ Ciphertext \in Contents
  BY <1>3, BoundsAssumption DEF Ciphertext, Content, Nothing, Contents, Kinds
<1> DEFINE new == Ciphertext
<1> HIDE DEF new
<1>5. files' \in Dirs /\ files'[temp] = new /\ \A p \in Paths \ {temp} : files'[p] = files[p]
  BY <1>1, <1>2, <1>4 DEF IInv, Shape, Dirs, new
<1>6. Shape'
  BY <1>1, <1>5 DEF IInv, Shape
<1>7. Temporaries'
  <2>1. \A u \in TempPaths : u \in Paths
    BY DEF Paths
  <2> QED BY <1>1, <1>2, <1>4, <1>5, <2>1 DEF IInv, Temporaries, Writing, new
<1>8. Numbered'
  BY <1>1, <1>3, <1>4, <1>5 DEF IInv, Numbered, Writing, new
<1>9. Cached' /\ Bound' /\ SealedToRoom'
  BY <1>1, <1>2, <1>5, ToolPaths DEF IInv, Cached, Bound, SealedToRoom
<1> QED BY <1>6, <1>7, <1>8, <1>9 DEF IInv

LEMMA SyncInv ==
  ASSUME IInv, Sync
  PROVE  IInv'
<1>1. step = "sync" /\ step' = "replace" /\ unsynced' = unsynced \ {temp}
      /\ UNCHANGED <<spec, files, payload, trust, temp, sealings, bundle, stray, edits>>
  BY DEF Sync
<1>2. Shape' /\ Temporaries'
  BY <1>1 DEF IInv, Shape, Temporaries, Writing
<1>3. Numbered' /\ Cached' /\ Bound' /\ SealedToRoom'
  BY <1>1 DEF IInv, Numbered, Cached, Writing, Bound, SealedToRoom
<1> QED BY <1>2, <1>3 DEF IInv

\* The rename: what was at the temporary is now what is submitted.
LEMMA ReplaceInv ==
  ASSUME IInv, Replace
  PROVE  IInv'
<1>1. step = "replace" /\ Quit /\ UNCHANGED <<spec, sealings, stray, edits>>
      /\ files' = [files EXCEPT ![SEALED] = files[temp], ![temp] = Nothing]
  BY DEF Replace
<1>2. temp \in TempPaths /\ temp \in Paths /\ temp # SEALED /\ temp \notin stray
  BY <1>1, ToolPaths DEF IInv, Temporaries, Writing
<1>3. temp \notin unsynced /\ unsynced' = unsynced \ {SEALED}
  BY <1>1 DEF IInv, Temporaries, Replace
<1>4. files[temp].kind = "cipher"
  BY <1>1 DEF IInv, Temporaries
<1>5. /\ files' \in Dirs /\ files'[SEALED] = files[temp] /\ files'[temp] = Nothing
      /\ \A p \in Paths \ {SEALED, temp} : files'[p] = files[p]
  BY <1>1, <1>2, ToolPaths, NothingIsContent DEF IInv, Shape, Dirs
<1>6. \A t \in TempPaths : files'[t] # Nothing <=> t \in stray'
  BY <1>1, <1>2, <1>5, ToolPaths DEF IInv, Temporaries
<1>7. \A t \in TempPaths : files'[t] # Nothing => files'[t].kind \in {"part", "cipher"}
  BY <1>5, ToolPaths DEF IInv, Temporaries
<1>8. unsynced' \subseteq stray' /\ stray' \subseteq TempPaths
  BY <1>1, <1>3 DEF IInv, Shape, Temporaries
<1>9. \A p \in Paths : files'[p].kind \in {"part", "cipher"} => files'[p].id \in 1 .. Len(sealings)
  BY <1>2, <1>5, NothingIsContent DEF IInv, Numbered
<1>10. \A p \in CachePaths : files'[p] = files[p]
  BY <1>2, <1>5, ToolPaths
<1> QED BY <1>1, <1>4, <1>5, <1>6, <1>7, <1>8, <1>9, <1>10, QuitInv

LEMMA FailInv ==
  ASSUME IInv, Fail
  PROVE  IInv'
<1>1. step \in Writing /\ Quit /\ UNCHANGED <<spec, sealings, edits>>
  BY DEF Fail, Writing
<1>2. temp \in TempPaths /\ temp \in Paths /\ temp # SEALED
  BY <1>1, ToolPaths DEF IInv, Temporaries
<1>3. CASE UNCHANGED <<files, unsynced>> /\ stray' = stray \cup {temp}
  BY <1>1, <1>2, <1>3, QuitInv DEF IInv, Shape, Temporaries, Numbered
<1>4. CASE /\ files' = [files EXCEPT ![temp] = Nothing] /\ unsynced' = unsynced \ {temp}
           /\ UNCHANGED stray
  <2>1. /\ files' \in Dirs /\ files'[temp] = Nothing
        /\ \A p \in Paths \ {temp} : files'[p] = files[p]
    BY <1>2, <1>4, NothingIsContent DEF IInv, Shape, Dirs
  <2>2. files'[SEALED].kind \in {"none", "cipher"}
    BY <1>2, <2>1, ToolPaths DEF IInv, Temporaries
  <2>3. \A t \in TempPaths : files'[t] # Nothing <=> t \in stray'
    BY <1>4, <2>1, ToolPaths DEF IInv, Temporaries
  <2>4. \A t \in TempPaths : files'[t] # Nothing => files'[t].kind \in {"part", "cipher"}
    BY <2>1, ToolPaths DEF IInv, Temporaries
  <2>5. unsynced' \subseteq stray' /\ stray' \subseteq TempPaths
    BY <1>4 DEF IInv, Shape, Temporaries
  <2>6. \A p \in Paths : files'[p].kind \in {"part", "cipher"} => files'[p].id \in 1 .. Len(sealings)
    BY <2>1, NothingIsContent DEF IInv, Numbered
  <2>7. \A p \in CachePaths : files'[p] = files[p]
    BY <1>2, <2>1, ToolPaths
  <2> QED BY <1>1, <2>1, <2>2, <2>3, <2>4, <2>5, <2>6, <2>7, QuitInv
<1> QED BY <1>3, <1>4 DEF Fail, disk

\* What is left behind when nobody unlinks: the temporary, if there is one.
LEMMA LeftBehind ==
  ASSUME IInv, stray' = stray \cup (IF temp \in TempPaths THEN {temp} ELSE {})
  PROVE  /\ stray' \subseteq TempPaths
         /\ unsynced \subseteq stray'
         /\ \A t \in TempPaths : files[t] # Nothing <=> t \in stray'
<1>1. stray' = (stray \cup {temp}) \cap TempPaths
  BY DEF IInv, Shape
<1>2. unsynced \subseteq TempPaths
  BY DEF IInv, Shape, Temporaries
<1> QED BY <1>1, <1>2 DEF IInv, Temporaries

LEMMA KillInv ==
  ASSUME IInv, Kill
  PROVE  IInv'
BY LeftBehind, QuitInv DEF Kill, disk, IInv, Shape, Temporaries, Numbered

LEMMA PowerLossInv ==
  ASSUME IInv, PowerLoss
  PROVE  IInv'
<1>1. PICK lost \in SUBSET unsynced :
        files' = [p \in Paths |-> IF p \in lost THEN Content("part", files[p].id) ELSE files[p]]
  BY DEF PowerLoss
<1>2. unsynced' = {} /\ Quit /\ UNCHANGED <<spec, sealings, edits>>
      /\ stray' = stray \cup (IF temp \in TempPaths THEN {temp} ELSE {})
  BY DEF PowerLoss
<1>3. lost \subseteq TempPaths /\ \A t \in lost : files[t].kind \in {"part", "cipher"}
  BY LeftBehind, <1>2 DEF IInv, Shape, Temporaries
<1>4. \A p \in Paths : files'[p] = IF p \in lost THEN Content("part", files[p].id) ELSE files[p]
  BY <1>1
<1>5. \A p \in lost : /\ files'[p].kind = "part" /\ files'[p].id = files[p].id
                      /\ files'[p] # Nothing
  <2> TAKE p \in lost
  <2>1. files'[p] = Content("part", files[p].id)
    BY <1>3, <1>4, ToolPaths
  <2> QED BY <2>1 DEF Content, Nothing
<1>6. files' \in Dirs
  BY <1>1, <1>3 DEF IInv, Shape, Dirs, Contents, Kinds, Content
<1>7. files'[SEALED].kind \in {"none", "cipher"}
  BY <1>3, <1>4, ToolPaths DEF IInv, Temporaries
<1>8. \A t \in TempPaths : files'[t] # Nothing <=> t \in stray'
  <2> TAKE t \in TempPaths
  <2>1. CASE t \in lost
    BY <1>2, <1>5, <2>1, LeftBehind DEF IInv, Shape, Temporaries
  <2>2. CASE t \notin lost
    BY <1>2, <1>4, <2>2, LeftBehind, ToolPaths
  <2> QED BY <2>1, <2>2
<1>9. \A t \in TempPaths : files'[t] # Nothing => files'[t].kind \in {"part", "cipher"}
  BY <1>4, <1>5, ToolPaths DEF IInv, Temporaries
<1>10. \A p \in Paths : files'[p].kind \in {"part", "cipher"} => files'[p].id \in 1 .. Len(sealings)
  BY <1>3, <1>4, <1>5, ToolPaths DEF IInv, Numbered
<1>11. \A p \in CachePaths : files'[p] = files[p]
  BY <1>3, <1>4, ToolPaths
<1> QED BY <1>2, <1>6, <1>7, <1>8, <1>9, <1>10, <1>11, LeftBehind, QuitInv

\* A change to a file of the miner's, which is none of the tool's.
LEMMA MinerInv ==
  ASSUME IInv, EditAgent \/ RunAgent
  PROVE  IInv'
<1> DEFINE Edited == {c \in Contents : c.kind \notin {"part", "cipher"}}
<1>1. PICK p \in AgentPaths \cup CachePaths, new \in Edited :
        /\ files' = [files EXCEPT ![p] = new]
        /\ p \in CachePaths => new.kind \in {"none", "text"}
  <2>1. CASE EditAgent
    <3>1. PICK p \in AgentPaths, new \in [kind : {"text"}, id : 1 .. MaxVersion] \cup {Nothing}
                                         \cup [kind : {"link"} \cup DirLinks, id : {1}] :
            files' = [files EXCEPT ![p] = new]
      BY <2>1 DEF EditAgent
    <3>2. new \in Edited
      BY BoundsAssumption, NothingIsContent DEF Contents, Kinds, DirLinks
    <3> QED BY <3>1, <3>2, PathsAssumption
  <2>2. CASE RunAgent
    <3>1. PICK p \in CachePaths, new \in {Content("text", 1), Nothing} :
            files' = [files EXCEPT ![p] = new]
      BY <2>2 DEF RunAgent
    <3>2. new \in Edited /\ new.kind \in {"none", "text"}
      BY BoundsAssumption, NothingIsContent DEF Content, Contents, Kinds
    <3> QED BY <3>1, <3>2
  <2> QED BY <2>1, <2>2
<1>2. edits' \in 0 .. MaxEdits
      /\ UNCHANGED <<spec, unsynced, step, payload, trust, temp, sealings, bundle, stray>>
  BY BoundsAssumption DEF EditAgent, RunAgent, IInv, Shape
<1>3. new \in Contents /\ new.kind \notin {"part", "cipher"}
  OBVIOUS
<1>4. /\ files' \in Dirs /\ files'[p] = new
      /\ \A q \in Paths \ {p} : files'[q] = files[q]
  BY <1>1, <1>3, ToolPaths DEF IInv, Shape, Dirs
<1>5. files'[SEALED] = files[SEALED] /\ \A t \in TempPaths : files'[t] = files[t]
  BY <1>4, ToolPaths
<1>6. Shape'
  BY <1>2, <1>4 DEF IInv, Shape
<1>7. Temporaries'
  <2>1. step \in Writing => files'[temp] = files[temp]
    BY <1>5 DEF IInv, Temporaries
  <2> QED BY <1>2, <1>5, <2>1 DEF IInv, Temporaries, Writing
<1>8. Numbered'
  BY <1>2, <1>3, <1>4 DEF IInv, Numbered, Writing
<1>9. Cached'
  BY <1>1, <1>4, ToolPaths DEF IInv, Cached
<1>10. Bound' /\ SealedToRoom'
  BY <1>2 DEF IInv, Bound, SealedToRoom
<1> QED BY <1>6, <1>7, <1>8, <1>9, <1>10 DEF IInv

LEMMA ClearStrayInv ==
  ASSUME IInv, ClearStray
  PROVE  IInv'
<1>1. PICK t \in stray : /\ files' = [files EXCEPT ![t] = Nothing] /\ stray' = stray \ {t}
                         /\ unsynced' = unsynced \ {t}
  BY DEF ClearStray
<1>2. edits' \in 0 .. MaxEdits
      /\ UNCHANGED <<spec, step, payload, trust, temp, sealings, bundle>>
  BY BoundsAssumption DEF ClearStray, IInv, Shape
<1>3. t \in TempPaths /\ t # SEALED /\ t # temp /\ t \in Paths
  BY ToolPaths DEF IInv, Shape, Temporaries
<1>4. /\ files' \in Dirs /\ files'[t] = Nothing
      /\ \A p \in Paths \ {t} : files'[p] = files[p]
  BY <1>1, <1>3, NothingIsContent DEF IInv, Shape, Dirs
<1>5. Shape'
  BY <1>1, <1>2, <1>4 DEF IInv, Shape
<1>6. Temporaries'
  <2>1. files'[SEALED] = files[SEALED] /\ (step \in Writing => files'[temp] = files[temp])
    BY <1>3, <1>4, ToolPaths DEF IInv, Temporaries
  <2>2. \A u \in TempPaths : files'[u] # Nothing <=> u = temp \/ u \in stray'
    BY <1>1, <1>3, <1>4, ToolPaths DEF IInv, Temporaries
  <2>3. \A u \in TempPaths : files'[u] # Nothing => files'[u].kind \in {"part", "cipher"}
    BY <1>4, ToolPaths DEF IInv, Temporaries
  <2> QED BY <1>1, <1>2, <2>1, <2>2, <2>3 DEF IInv, Temporaries, Writing
<1>7. Numbered'
  BY <1>2, <1>4, NothingIsContent DEF IInv, Numbered, Writing
<1>8. Cached' /\ Bound' /\ SealedToRoom'
  BY <1>2, <1>3, <1>4, ToolPaths DEF IInv, Cached, Bound, SealedToRoom
<1> QED BY <1>5, <1>6, <1>7, <1>8 DEF IInv

LEMMA StutterInv ==
  ASSUME IInv, UNCHANGED vars
  PROVE  IInv'
BY DEF IInv, vars, disk, Shape, Temporaries, Numbered, Cached, Bound, SealedToRoom

THEOREM Inductive == Spec => []IInv
<1>1. IInv /\ [Next]_vars => IInv'
  BY StartInv, BindBundleInv, EncryptInv, GiveUpInv, CreateTempInv, WriteInv, SyncInv,
     ReplaceInv, FailInv, KillInv, PowerLossInv, MinerInv, ClearStrayInv, StutterInv DEF Next
<1> QED BY InitInv, <1>1, PTL DEF Spec

-----------------------------------------------------------------------------
(* What follows from it.                                                   *)

\* Every variable is well typed, and every ciphertext on the disk was made.
THEOREM TypeCorrect == Spec => []TypeOK
<1>1. IInv => TypeOK
  <2> SUFFICES ASSUME IInv PROVE TypeOK
    OBVIOUS
  <2>1. DOMAIN sealings = 1 .. Len(sealings)
    BY DEF IInv, Shape
  <2>2. unsynced \subseteq TempPaths \cup {SEALED}
    BY DEF IInv, Shape, Temporaries
  <2> QED BY <2>1, <2>2 DEF IInv, Shape, Numbered, Dirs, Contents, Kinds, Trusts, TypeOK
<1> QED BY <1>1, Inductive, PTL

\* Whatever fails, is killed or loses its power, and however often the miner seals,
\* the submitted file is a whole ciphertext or not there.
THEOREM SubmittedIsWhole == Spec => []WrittenAtomically
<1>1. IInv => WrittenAtomically
  BY DEF IInv, Temporaries, WrittenAtomically
<1> QED BY <1>1, Inductive, PTL

\* A command that verifies the approved image never seals a key to anyone else who
\* could open it.
THEOREM VerifiedSealIsToRoom == Spec => []SealedToRoom
<1>1. IInv => SealedToRoom
  BY DEF IInv
<1> QED BY <1>1, Inductive, PTL

\* The ciphertext in the bundle is one that was made, for the bundle it was bound to.
LEMMA CurrentIsMade ==
  ASSUME IInv, Opens
  PROVE  /\ Current.payload \in Payloads /\ Current.bundle \in Dirs
         /\ BoundTo(Current.payload, Current.bundle)
<1>1. files[SEALED].id \in 1 .. Len(sealings)
  BY ToolPaths DEF IInv, Numbered, Opens
<1>2. Current \in Sealings
  BY <1>1 DEF IInv, Shape, Current
<1> QED BY <1>1, <1>2 DEF IInv, Shape, Bound, Current, Sealings

\* What a packer sends has the files of the submission, whatever it leaves out, and
\* no links but those among them.
LEMMA PackedIsSubmitted ==
  ASSUME IInv, NEW sent \in Packings
  PROVE  /\ sent \in Dirs
         /\ \A p \in AgentPaths \cup TempPaths : sent[p] = files[p]
         /\ \A p \in CachePaths \cup {SEALED} : sent[p].kind # "link"
<1>1. PICK omitted \in SUBSET (CachePaths \cup {SEALED}) : sent = Packed(omitted)
  BY DEF Packings
<1>2. \A p \in Paths : sent[p] = IF p \in omitted THEN Nothing ELSE files[p]
  BY <1>1 DEF Packed
<1>3. sent \in Dirs
  BY <1>1, NothingIsContent DEF Packed, IInv, Shape, Dirs
<1>4. \A p \in AgentPaths \cup TempPaths : p \in Paths /\ p \notin omitted
  BY PathsAssumption DEF Paths
<1>5. \A p \in CachePaths \cup {SEALED} : files[p].kind # "link"
  BY DEF IInv, Temporaries, Cached
<1>6. \A p \in CachePaths \cup {SEALED} : sent[p].kind # "link"
  BY <1>2, <1>5, ToolPaths, NothingIsContent
<1> QED BY <1>2, <1>3, <1>4, <1>6

\* A set of keys sealed for the room's profile and to the approved image, in a bundle
\* whose submitted files have not changed since, is accepted by the room if what the
\* packer sends can be extracted and has no link to caches it leaves out: of all the
\* room's other checks none refuses what the tool seals.
THEOREM ToolSealsWhatRoomAccepts == Spec => []SealedIsAccepted
<1>1. IInv => SealedIsAccepted
  <2> SUFFICES ASSUME IInv, Opens, Current.payload.version = MULTI_KEY,
                      Follows(Current.payload, spec),
                      \A p \in AgentPaths \cup TempPaths : files[p] = Current.bundle[p],
                      NEW sent \in Packings,
                      Extractable(sent),
                      \A p \in Paths : ~Dangles(sent, p)
               PROVE  Accepts(sent)
    BY DEF SealedIsAccepted
  <2>1. Current.payload \in Payloads /\ BoundTo(Current.payload, Current.bundle)
    BY CurrentIsMade
  <2>2. Parses(Current.payload, spec)
    <3>1. PICK c \in Accepted, d \in Dirs : Current.payload = PayloadOf(c, Binding(d))
      BY <2>1 DEF Payloads
    <3> QED BY <3>1, ToolAgreesWithRoom
  <2>3. \A p \in AgentPaths \cup TempPaths : sent[p] = Current.bundle[p]
    BY PackedIsSubmitted
  <2>4. \A p \in AgentPaths \cup TempPaths : sent[p].kind # "link"
    BY <2>1, <2>3 DEF BoundTo, Bindable, Paths
  <2>5. Bindable(sent)
    BY <2>4, PackedIsSubmitted DEF Bindable, Paths
  <2>6. Binding(sent) = Binding(Current.bundle)
    BY <2>3, SameFilesSameBinding
  <2> QED BY <2>1, <2>2, <2>5, <2>6 DEF Accepts, BoundTo
<1> QED BY <1>1, Inductive, PTL

\* What the room accepts was sealed for exactly its contract, in a bundle with the
\* same regular files at the same paths.
THEOREM RoomAcceptsWhatWasBound == Spec => []AcceptedIsBound
<1>1. IInv => AcceptedIsBound
  <2> SUFFICES ASSUME IInv, NEW sent \in Packings, Accepts(sent)
               PROVE  /\ Follows(Current.payload, spec)
                      /\ \A p \in AgentPaths \cup TempPaths :
                           \/ {sent[p].kind, Current.bundle[p].kind} \subseteq {"none"} \cup DirLinks
                           \/ sent[p] = Current.bundle[p]
    BY DEF AcceptedIsBound
  <2>1. Follows(Current.payload, spec)
    BY RoomTakesItsOwn DEF IInv, Shape, Accepts
  <2>2. Current.bundle \in Dirs /\ Current.payload.binding = Binding(Current.bundle)
    BY CurrentIsMade DEF Accepts, BoundTo
  <2>3. sent \in Dirs /\ Binding(sent) = Binding(Current.bundle)
    BY <2>2, PackedIsSubmitted DEF Accepts
  <2>4. \A p \in AgentPaths \cup TempPaths :
          \/ {sent[p].kind, Current.bundle[p].kind} \subseteq {"none"} \cup DirLinks
          \/ sent[p] = Current.bundle[p]
    BY <2>2, <2>3, SameBindingSameFiles
  <2> QED BY <2>1, <2>4
<1> QED BY <1>1, Inductive, PTL

=============================================================================
