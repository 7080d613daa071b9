----------------------------- MODULE Credential -----------------------------
(***************************************************************************)
(* The contract of a sealed credential: what a profile declares            *)
(* (room/profile.py), what the room's two parsers accept (room/sealing.py) *)
(* and what the miner's tool checks before it seals (kata_seal.py).        *)
(*                                                                         *)
(* A key is its length and the most troublesome character it contains; the *)
(* keys of a payload are a function on the providers it names, which for a *)
(* single-key payload is one provider.                                     *)
(***************************************************************************)
EXTENDS Integers, Sequences, FiniteSets

CONSTANTS
  ProviderIds,  \* ids PROVIDER_ID_REGEX matches
  OtherIds      \* ids it does not

ASSUME IdsAssumption == ProviderIds \cap OtherIds = {}

Providers == ProviderIds \cup OtherIds

MIN_KEY_CHARS == 16
MAX_KEY_CHARS == 8192

\* What load_api_key returns: a text without blanks around it.  "control" stands
\* for a character below 32, "del" for character 127.
Keys == [len: Nat, char: {"plain", "control", "del"}]

\* The providers a sequence of ids names, and whether it names one twice.
Named(ids) == {ids[i] : i \in DOMAIN ids}
Repeats(ids) == \E i, j \in DOMAIN ids : i # j /\ ids[i] = ids[j]

-----------------------------------------------------------------------------
(* profile.py: the contract a loaded profile declares.                     *)

SINGLE_KEY == 1
MULTI_KEY  == 2

Modes == {"http_error", "attested_zero"}

\* The ownership a profile declares, or the version's default.
FailureMode(profile) ==
  IF profile.mode # "undeclared" THEN profile.mode
  ELSE IF profile.version = MULTI_KEY THEN "attested_zero" ELSE "http_error"

\* Mutant: the ownership mode is taken as declared.
DeclaresAnyMode(profile) ==
  /\ profile.version \in {SINGLE_KEY, MULTI_KEY}
  /\ profile.version = MULTI_KEY =>
       /\ profile.providers # <<>>
       /\ ~Repeats(profile.providers)
       /\ profile.lane # ""

\* The room does not start on a profile whose declaration is not complete.
Declares(profile) ==
  /\ FailureMode(profile) \in Modes
  /\ profile.version \in {SINGLE_KEY, MULTI_KEY}
  /\ profile.version = MULTI_KEY =>
       /\ profile.providers # <<>>
       /\ ~Repeats(profile.providers)
       /\ profile.lane # ""

\* credential_spec_for: a single-key contract names neither providers nor a lane.
SpecFor(profile) ==
  [version   |-> profile.version,
   providers |-> IF profile.version = MULTI_KEY THEN Named(profile.providers) ELSE {},
   lane      |-> IF profile.version = MULTI_KEY THEN profile.lane ELSE "",
   mode      |-> FailureMode(profile)]

-----------------------------------------------------------------------------
(* sealing.py: what the room accepts of a payload it has decrypted.        *)

\* A key of a set: its length between the bounds, no control character, no DEL.
RoomTakesKey(key) ==
  /\ key.len \in MIN_KEY_CHARS .. MAX_KEY_CHARS
  /\ key.char = "plain"

\* Mutant: providers the profile does not ask for are ignored.
ParsesSetIgnoringOthers(payload, spec) ==
  /\ payload.version = MULTI_KEY
  /\ payload.lane = spec.lane
  /\ spec.providers \subseteq DOMAIN payload.keys
  /\ \A p \in spec.providers : p \in ProviderIds /\ RoomTakesKey(payload.keys[p])

\* _parse_credential_set: the profile's own version and lane, and keys for
\* exactly the providers it requires.
ParsesSet(payload, spec) ==
  /\ payload.version = MULTI_KEY
  /\ payload.lane = spec.lane
  /\ DOMAIN payload.keys = spec.providers
  /\ \A p \in spec.providers : p \in ProviderIds /\ RoomTakesKey(payload.keys[p])

\* _parse_credential: one provider; any key but an empty, too long or unprintable
\* one.
ParsesSingle(payload) ==
  /\ payload.version = SINGLE_KEY
  /\ \A p \in DOMAIN payload.keys :
       /\ p \in ProviderIds
       /\ payload.keys[p].len \in 1 .. MAX_KEY_CHARS
       /\ payload.keys[p].char # "control"

\* resolve_sealed_credential: the parser is chosen by the profile.
Parses(payload, spec) ==
  IF spec.version = MULTI_KEY THEN ParsesSet(payload, spec) ELSE ParsesSingle(payload)

-----------------------------------------------------------------------------
(* kata_seal.py: what the tool checks before it reads the bundle.  A       *)
(* command has the mode, the ids it was given, a lane, where keys come     *)
(* from (envs and files; the hidden prompt for the rest) and what they are.*)

\* parse_providers: at least one, none twice, all of them ids.
ParseProviders(command) ==
  /\ command.providers # <<>>
  /\ ~Repeats(command.providers)
  /\ Named(command.providers) \subseteq ProviderIds

\* Mutant: DEL is not taken for a control character.
ToolTakesKeyWithDel(key) ==
  /\ key.len \in MIN_KEY_CHARS .. MAX_KEY_CHARS
  /\ key.char # "control"

\* The tool mirrors the room's check of the keys of a set.
ToolTakesKey(key) ==
  /\ key.len \in MIN_KEY_CHARS .. MAX_KEY_CHARS
  /\ key.char = "plain"

\* collect_keys: one source for each provider and none for any other.
CollectKeys(command) ==
  /\ command.envs \cup command.files \subseteq Named(command.providers)
  /\ command.envs \cap command.files = {}
  /\ \A p \in Named(command.providers) : ToolTakesKey(command.keys[p])

\* The two modes of main up to the binding; a single key need only not be empty.
AcceptsMulti(command) ==
  /\ command.multi
  /\ ParseProviders(command)
  /\ command.lane # ""
  /\ CollectKeys(command)

AcceptsSingle(command) ==
  /\ ~command.multi
  /\ Len(command.providers) = 1
  /\ command.lane = ""
  /\ Named(command.providers) \subseteq ProviderIds
  /\ command.envs \cap command.files = {}
  /\ \A p \in Named(command.providers) : command.keys[p].len > 0

\* The payload main writes for a command and the binding of its bundle.
PayloadOf(command, bound) ==
  [version |-> IF command.multi THEN MULTI_KEY ELSE SINGLE_KEY,
   lane    |-> command.lane,
   keys    |-> [p \in Named(command.providers) |-> command.keys[p]],
   binding |-> bound]

\* The command follows the lane's documentation: it asks for what the room's
\* profile declares.
Follows(payload, spec) ==
  /\ payload.version = spec.version
  /\ spec.version = MULTI_KEY =>
       payload.lane = spec.lane /\ DOMAIN payload.keys = spec.providers

=============================================================================
