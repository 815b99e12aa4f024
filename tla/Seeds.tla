-------------------------------- MODULE Seeds --------------------------------
(***************************************************************************)
(* The two files of a seed: _run_commands and _serialize_proto_sequence of *)
(* tools/seed-generation/main.py write the bytes of a sequence of commands *)
(* for the byte fuzzer, and its messages for the structure-aware fuzzer,   *)
(* which then post-processes and marshals them one by one (Marshal).  The  *)
(* files of a seed are the values of content and proto.                    *)
(***************************************************************************)
EXTENDS Marshal, SeedCorpus, CommandHeaders
LOCAL INSTANCE SequencesExt

CONSTANT SeedSequences   \* the sequences that seeds are made of

\* A seed is a list of commands that the classes can pack: a code of the table,
\* parameters that are bytes, a size that has room in its field, and values that
\* the fields of a message can hold, or Python raises.
IsPackable(c) ==
  /\ c.class \in DOMAIN CommandCodes
  /\ Tag(c) \in {"SESSIONS", "NO_SESSIONS"}
  /\ Params(c) \in Seq(0..255)
  /\ CommandSize(c) \div 16777216 < 256
  /\ c.class \in ProtoClasses => IsMessage(ToProto(c))

ASSUME SeedAssumption ==
  \A s \in SeedSequences :
    /\ s \in Seq({s[i] : i \in DOMAIN s})
    /\ \A i \in DOMAIN s : IsPackable(s[i])

VARIABLES
  phase,
  sequence,   \* the commands of the seed
  content,    \* the bytes of the seed
  proto,      \* the messages of the seed that are made so far
  next        \* how many commands are converted, or messages are replayed

seedVars == <<phase, sequence, content, proto, next>>

SeedInit ==
  /\ Init
  /\ msg = CHOOSE m \in Messages : TRUE
  /\ phase = "idle"
  /\ sequence = << >>
  /\ content = << >>
  /\ proto = << >>
  /\ next = 0

_serialize_sequence(commands) ==
  FlattenSeq([i \in DOMAIN commands |-> CommandBytes(commands[i])])

\* _run_commands, with a variant of one of the test cases.
RunCommands ==
  /\ phase = "idle"
  /\ sequence' \in SeedSequences
  /\ content' = _serialize_sequence(sequence')
  /\ proto' = << >>
  /\ next' = 0
  /\ phase' = "converting"
  /\ UNCHANGED vars

\* One round of the loop of _serialize_proto_sequence.
ConvertCommand ==
  /\ phase = "converting"
  /\ next < Len(sequence)
  /\ sequence[next + 1].class \in ProtoClasses
  /\ proto' = Append(proto, ToProto(sequence[next + 1]))
  /\ next' = next + 1
  /\ UNCHANGED <<phase, sequence, content>>
  /\ UNCHANGED vars

\* Variant: a command without a message is left out.
NoProtoSeedSkips ==
  /\ phase = "converting"
  /\ next < Len(sequence)
  /\ sequence[next + 1].class \notin ProtoClasses
  /\ next' = next + 1
  /\ UNCHANGED <<phase, sequence, content, proto>>
  /\ UNCHANGED vars

\* One command without a message is enough for None: there is no second file.
NoProtoSeed ==
  /\ phase = "converting"
  /\ next < Len(sequence)
  /\ sequence[next + 1].class \notin ProtoClasses
  /\ proto' = << >>
  /\ next' = 0
  /\ phase' = "generated"
  /\ UNCHANGED <<sequence, content>>
  /\ UNCHANGED vars

ProtoSeed ==
  /\ phase = "converting"
  /\ next = Len(sequence)
  /\ next' = 0
  /\ phase' = "generated"
  /\ UNCHANGED <<sequence, content, proto>>
  /\ UNCHANGED vars

\* The structure-aware fuzzer comes to the next command of the seed.
ReplayMessage ==
  /\ phase = "generated"
  /\ pc = "idle"
  /\ next < Len(proto)
  /\ next' = next + 1
  /\ msg' = proto[next + 1]
  /\ pending' = PostProcessors(msg'.command)
  /\ pc' = "mutated"
  /\ UNCHANGED <<field, entry, todo, offset, wire, auth_size_pos, starts>>
  /\ UNCHANGED <<phase, sequence, content, proto>>

NextSeed ==
  /\ phase = "generated"
  /\ pc = "idle"
  /\ next = Len(proto)
  /\ phase' = "idle"
  /\ sequence' = << >>
  /\ content' = << >>
  /\ proto' = << >>
  /\ next' = 0
  /\ UNCHANGED vars

SeedNext ==
  \/ RunCommands
  \/ ConvertCommand
  \/ NoProtoSeed
  \/ ProtoSeed
  \/ ReplayMessage
  \/ MarshalStep /\ UNCHANGED seedVars
  \/ NextSeed

SeedSpec == SeedInit /\ [][SeedNext]_<<vars, seedVars>>

-----------------------------------------------------------------------------
(* The wire against the bytes of the seed.                                 *)

\* What an item says without saying which bytes these are.
Opaque ==
  {"bytes", "nonce", "hmac", "selection", "parameters", "unique", "nvPublic",
   "sensitive", "attributes"}

\* A number and a name are compared as strings.
Spells(b, value) ==
  \/ \E o \in Opaque : ToString(value) = ToString(o)
  \/ b[1] < 128 /\ ToString(value) = ToString(Number(b))
  \/ \E x \in Spellable[Len(b)] :
       ToString(value) = ToString(x) /\ Spell(Len(b), x) = b

\* What the sizes on the wire do not tell of a public area.
KeepsPublic(p, public) ==
  /\ p.type = public.type
  /\ p.name_alg = public.name_alg
  /\ p.object_attributes = public.attributes
  /\ p.parms.scheme = public.scheme
  /\ p.unique.size = Len(public.unique)
  /\ public.type = "RSA" =>
       p.parms.symmetric = public.symmetric /\ p.parms.key_bits = public.key_bits

\* The command on the wire is the command c of the seed.
IsOnWire(c) ==
  /\ offset = Len(CommandBytes(c))
  /\ \A at \in DOMAIN wire :
       Spells(Slice(CommandBytes(c), at, at + wire[at].width), wire[at].value)
  /\ "in_public" \in DOMAIN msg => KeepsPublic(msg.in_public, c.public)

\* The post-processors replace a request for no bytes, the tag of GetRandom and
\* a policy that does not have the size of its hash.
ReplacedOnPurpose(c) ==
  \/ c.class = "GetRandom" /\ (c.requested = 0 \/ c.st = "SESSIONS")
  \/ c.class = "SetPrimaryPolicy" /\ Len(c.policy) # PolicySize[c.hash_alg]

HasHashedScheme(c) == "public" \in DOMAIN c /\ c.public.scheme_hash # Unset

-----------------------------------------------------------------------------
(* Properties.                                                             *)

Replayed == phase = "generated" /\ pc = "done"

\* Type invariant: what _serialize_proto_sequence writes are messages of the
\* schema, for the commands of the seed and in their order, and the file has all
\* of them or does not exist (main.py:769-770).
SeedTypeOK ==
  /\ TypeOK
  /\ phase \in {"idle", "converting", "generated"}
  /\ sequence \in SeedSequences \cup {<< >>}
  /\ next \in 0..Len(sequence)
  /\ \A i \in DOMAIN proto :
       IsMessage(proto[i]) /\ proto[i].command = sequence[i].class
  /\ phase = "generated" => Len(proto) \in {0, Len(sequence)}

\* The byte fuzzer sees the commands of the seed: parseCommands
\* (byte_parser.cc:17-39) cuts the file where one command ends and the next
\* one begins.
ByteSeedParses ==
  phase = "converting" /\ next = 0 =>
    \A i \in DOMAIN sequence :
      LET from == Len(_serialize_sequence(SubSeq(sequence, 1, i - 1)))
          to == Len(_serialize_sequence(SubSeq(sequence, 1, i)))
      IN ~ BadHeader(content, from) /\ Length(content, from) = to - from

\* A message is "the protocol buffer representation of the TPM Command"
\* (tpm2_commands.py:64): the structure-aware fuzzer sends what the byte fuzzer
\* sends.
ProtoSeedIsByteSeed ==
  Replayed /\ ~ ReplacedOnPurpose(sequence[next]) => IsOnWire(sequence[next])

\* The same for every command but Create, and for public areas whose scheme has
\* no hash: through the parsers of to_proto, the post-processors and the
\* marshaller (proto_conversion.cc) a command keeps its length, its handles,
\* its session and the size of each of its parameters.
OtherProtoSeedsAreByteSeeds ==
  Replayed /\ sequence[next].class # "Create" /\ ~ HasHashedScheme(sequence[next])
           /\ ~ ReplacedOnPurpose(sequence[next])
    => IsOnWire(sequence[next])

\* What CaptureStartAuthSessionCommand asks of a session to arm it.
Arms(m) ==
  /\ m.command = "StartAuthSession"
  /\ m.tpm_key = "NULL" /\ m.bind = "NULL"
  /\ m.encrypted_salt = 0
  /\ m.session_type = "HMAC"
  /\ m.auth_hash \in {"SHA1", "SHA256", "SHA384"}

\* A seed that is authorized with the first HMAC session, and whose command is
\* in the attribute table, "exercises the HMAC patching path in session_auth.cc"
\* (main.py:678-679): the session has been started so that the layer arms it,
\* and its handle is the first entry of an area that FindAuthArea finds and the
\* entry fills.
HmacSeedsReachPatch ==
  Replayed /\ "session" \in DOMAIN sequence[next]
           /\ sequence[next].session = "FirstHmacSession"
           /\ sequence[next].class \in TrackedCommands =>
    /\ \E i \in 1..next - 1 : Arms(proto[i])
    /\ ReadAt(wire, AuthSizeOff + 4, 4) = "FirstHmacSession"
    /\ EntryEnd(wire, AuthSizeOff + 4) = AuthSizeOff + 4 + ReadAt(wire, AuthSizeOff, 4)
==============================================================================
