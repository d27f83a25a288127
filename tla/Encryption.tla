----------------------------- MODULE Encryption -----------------------------
(***************************************************************************)
(* go/internal/crypto/encryption.go, EncryptionService: what is written    *)
(* through it, stays in the database while the process is restarted with   *)
(* another configuration, and is read through it again.                    *)
(*                                                                         *)
(* AES-256-GCM is external and taken to be perfect: a sealed text opens    *)
(* with its own key only, and nobody else can make one.                    *)
(***************************************************************************)
EXTENDS Integers

CONSTANTS
  KeyTexts,    \* what ENCRYPTION_KEY may hold; see KeyTextType
  EmptyKey,    \* the empty one
  Plaintexts,  \* what callers store; see PlaintextType
  EmptyText,   \* the empty one
  Slots,       \* columns that hold a stored text
  MaxStarts    \* bound on the number of starts

\* A text by what the two decoders look at: its alphabet (every hexadecimal
\* digit is a base64 digit too), its characters that do not end a line, the '='
\* signs among them, its line ends (CR and LF), and what it spells.  Texts that
\* differ in where the lines end, or in bits the last digit has to spare, spell
\* the same.
KeyTextType ==
  [alphabet : {"hex", "base64", "other"}, chars : Nat, pad : 0 .. 2,
   newlines : Nat, value : Nat]

\* A clear text by what Decrypt looks at: the bytes it decodes to as base64, if
\* it does.
PlaintextType == [base64 : BOOLEAN, bytes : Nat, id : Nat]

ASSUME EncryptionAssumption ==
  /\ KeyTexts \subseteq KeyTextType
  /\ EmptyKey \in KeyTexts
  /\ \A t \in KeyTexts : t.chars + t.newlines = 0 <=> t = EmptyKey
  /\ Plaintexts \subseteq PlaintextType
  /\ EmptyText \in Plaintexts
  /\ MaxStarts \in Nat \ {0}

VARIABLES
  config,  \* the configuration of the running process
  svc,     \* its EncryptionService, or NoService
  starts,  \* how often the process was started
  column,  \* Slots -> the stored text
  origin,  \* history: Slots -> what was written, and under which configuration
  got      \* history: the last text read, the slot and what came out

vars == <<config, svc, starts, column, origin, got>>

-----------------------------------------------------------------------------
(* Keys *)

KeyBytes == 32
NonceSize == 12
TagSize == 16

NoKey == [bytes |-> 0, codec |-> "none", value |-> 0]

\* base64.StdEncoding: groups of four digits make three bytes, padding included;
\* CR and LF are skipped.
Base64Decodes(t) == t.alphabet \in {"hex", "base64"} /\ t.chars % 4 = 0
Base64Decode(t) ==
  [bytes |-> 3 * (t.chars \div 4) - t.pad, codec |-> "base64", value |-> t.value]

HexDecodes(t) ==
  t.alphabet = "hex" /\ t.pad = 0 /\ t.newlines = 0 /\ t.chars % 2 = 0
HexDecode(t) ==
  [bytes |-> t.chars \div 2, codec |-> "hex", value |-> t.value]

\* The first decoder that accepts the text decides.
decodeKey(t) ==
  IF Base64Decodes(t) THEN Base64Decode(t)
  ELSE IF HexDecodes(t) THEN HexDecode(t)
  ELSE NoKey

-----------------------------------------------------------------------------
(* The service *)

NoService == [enabled |-> FALSE, key |-> NoKey, up |-> FALSE]

\* Mutant: a key of the wrong length is kept.
NewEncryptionServiceAnyLength(c) ==
  IF ~c.enabled THEN [enabled |-> FALSE, key |-> NoKey, up |-> TRUE]
  ELSE IF c.key = EmptyKey \/ decodeKey(c.key) = NoKey THEN NoService
  ELSE [enabled |-> TRUE, key |-> decodeKey(c.key), up |-> TRUE]

\* Mutant: a longer key is cut to the length.
NewEncryptionServiceCut(c) ==
  IF ~c.enabled THEN [enabled |-> FALSE, key |-> NoKey, up |-> TRUE]
  ELSE IF c.key = EmptyKey \/ decodeKey(c.key).bytes < KeyBytes THEN NoService
  ELSE [enabled |-> TRUE, up |-> TRUE,
        key |-> [decodeKey(c.key) EXCEPT !.bytes = KeyBytes]]

\* Switched on, it needs a key of 32 bytes, or there is no service.
NewEncryptionService(c) ==
  IF ~c.enabled THEN [enabled |-> FALSE, key |-> NoKey, up |-> TRUE]
  ELSE IF c.key = EmptyKey \/ decodeKey(c.key).bytes # KeyBytes THEN NoService
  ELSE [enabled |-> TRUE, key |-> decodeKey(c.key), up |-> TRUE]

IsEnabled == svc.enabled /\ svc.key.bytes = KeyBytes

Clear(text) == [sealed |-> FALSE, key |-> NoKey, text |-> text]

\* The text as it is when the service is off or the text empty; sealed under a
\* fresh nonce and base64-encoded otherwise.
Encrypt(text) ==
  IF ~IsEnabled \/ text = EmptyText THEN Clear(text)
  ELSE [sealed |-> TRUE, key |-> svc.key, text |-> text]

Error == [error |-> TRUE, text |-> Clear(EmptyText)]
Ok(stored) == [error |-> FALSE, text |-> stored]

\* gcm.Open
Opens(stored) == stored.sealed /\ stored.key = svc.key

\* Whether the stored text decodes as base64 to a nonce and a tag at least.
LongEnough(stored) ==
  \/ stored.sealed
  \/ stored.text.base64 /\ stored.text.bytes >= NonceSize + TagSize

\* Mutant: what does not decode is taken for a text of the time before
\* encryption was switched on.
DecryptLegacy(stored) ==
  IF ~IsEnabled \/ stored = Clear(EmptyText) THEN Ok(stored)
  ELSE IF ~LongEnough(stored) THEN Ok(stored)
  ELSE IF Opens(stored) THEN Ok(Clear(stored.text))
  ELSE Error

\* The text as it is when the service is off or the text empty; an error unless
\* it decodes, is long enough and opens.
Decrypt(stored) ==
  IF ~IsEnabled \/ stored = Clear(EmptyText) THEN Ok(stored)
  ELSE IF LongEnough(stored) /\ Opens(stored) THEN Ok(Clear(stored.text))
  ELSE Error

-----------------------------------------------------------------------------
(* Specification *)

Configs == [enabled : BOOLEAN, key : KeyTexts]

NotRead == [slot |-> {}, by |-> FALSE, out |-> Error]

Init ==
  /\ config \in Configs
  /\ svc = NewEncryptionService(config)
  /\ starts = 1
  /\ column = [s \in Slots |-> Clear(EmptyText)]
  /\ origin = [s \in Slots |-> [text |-> EmptyText, config |-> config]]
  /\ got = NotRead

\* The process is started again with any configuration.
Restart ==
  /\ starts < MaxStarts
  /\ starts' = starts + 1
  /\ \E c \in Configs : config' = c /\ svc' = NewEncryptionService(c)
  /\ got' = NotRead
  /\ UNCHANGED <<column, origin>>

Write(s, text) ==
  /\ svc.up
  /\ column' = [column EXCEPT ![s] = Encrypt(text)]
  /\ origin' = [origin EXCEPT ![s] = [text |-> text, config |-> config]]
  /\ got' = NotRead
  /\ UNCHANGED <<config, svc, starts>>

Read(s) ==
  /\ svc.up
  /\ got' = [slot |-> {s}, by |-> IsEnabled, out |-> Decrypt(column[s])]
  /\ UNCHANGED <<config, svc, starts, column, origin>>

\* The operator has to come up with another configuration.
Stopped == ~svc.up /\ starts = MaxStarts /\ UNCHANGED vars

Next ==
  \/ Restart
  \/ \E s \in Slots : Read(s) \/ \E text \in Plaintexts : Write(s, text)
  \/ Stopped

Spec == Init /\ [][Next]_vars

-----------------------------------------------------------------------------
(* Properties *)

Stored == [sealed : BOOLEAN, key : {NoKey} \cup {decodeKey(t) : t \in KeyTexts},
           text : Plaintexts]

\* The state is of its type; in particular a service that is switched on has a
\* key that AES-256 accepts, so NewCipher cannot fail.
TypeOK ==
  /\ config \in Configs
  /\ svc.up => svc.enabled = config.enabled
  /\ svc.enabled => svc.key.bytes = KeyBytes
  /\ starts \in 1 .. MaxStarts
  /\ column \in [Slots -> Stored]
  /\ origin \in [Slots -> [text : Plaintexts, config : Configs]]
  /\ got \in [slot : SUBSET Slots, by : BOOLEAN,
              out : [error : BOOLEAN, text : Stored]]

\* A text that was written while the operator asked for encryption is never
\* stored in the clear, whatever key was configured (unless it is empty).
EnabledNeverClear ==
  \A s \in Slots :
    origin[s].config.enabled /\ origin[s].text # EmptyText => column[s].sealed

\* Over restarts with other keys, and with encryption switched on or off in
\* between: a process with encryption on hands out what was written under its
\* own 32 bytes, however the operator spelled them, and an error for everything
\* else, be it sealed under another key or stored in the clear; one with
\* encryption off hands out the stored text, sealed or not.
ReadBack ==
  \A s \in got.slot :
    LET clear == Clear(origin[s].text)
        sameKey == /\ origin[s].config.enabled
                   /\ decodeKey(origin[s].config.key) = decodeKey(config.key)
        empty == origin[s].text = EmptyText
    IN IF got.by THEN got.out = IF empty \/ sameKey THEN Ok(clear) ELSE Error
                 ELSE got.out = Ok(column[s])

\* A text that both decoders accept never becomes a key: decodeKey would take it
\* for base64 without a word, whatever the operator meant, and only the check of
\* the length stands in the way.
NoAmbiguousKey ==
  svc.enabled => ~(Base64Decodes(config.key) /\ HexDecodes(config.key))
=============================================================================
