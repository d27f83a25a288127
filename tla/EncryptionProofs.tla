-------------------------- MODULE EncryptionProofs --------------------------
(***************************************************************************)
(* Theorems about Encryption, for every set of keys, texts and slots and   *)
(* any number of restarts.                                                 *)
(***************************************************************************)
EXTENDS Encryption, TLAPS

\* The service is what the configuration makes of it, and a column holds what a
\* service of the configuration it was written under makes of the text.
Consistent ==
  /\ svc = NewEncryptionService(config)
  /\ \A s \in Slots :
       LET o == origin[s] IN
       /\ column[s] =
            IF o.text = EmptyText \/ ~o.config.enabled THEN Clear(o.text)
            ELSE [sealed |-> TRUE, key |-> decodeKey(o.config.key),
                  text |-> o.text]
       /\ o.text # EmptyText => NewEncryptionService(o.config).up

IndInv == TypeOK /\ Consistent /\ ReadBack

\* A service that is up and switched on has the decoded key, of 32 bytes.
LEMMA ServiceKey ==
  ASSUME NEW c \in Configs
  PROVE  LET new == NewEncryptionService(c) IN
         /\ new.up => new.enabled = c.enabled
         /\ new.enabled => /\ new.up
                           /\ c.enabled
                           /\ new.key = decodeKey(c.key)
                           /\ new.key.bytes = KeyBytes
<1> DEFINE new == NewEncryptionService(c)
<1> DEFINE wrong == c.key = EmptyKey \/ decodeKey(c.key).bytes # KeyBytes
<1>1. CASE ~c.enabled
  <2>1. new = [enabled |-> FALSE, key |-> NoKey, up |-> TRUE]
    BY <1>1 DEF NewEncryptionService
  <2>2. c.enabled = FALSE
    BY <1>1 DEF Configs
  <2>3. new.enabled = FALSE
    BY <2>1
  <2> QED
    BY <2>2, <2>3
<1>2. CASE c.enabled /\ wrong
  <2>1. new = NoService
    BY <1>2 DEF NewEncryptionService
  <2> QED
    BY <2>1 DEF NoService
<1>3. CASE c.enabled /\ ~wrong
  <2>1. new = [enabled |-> TRUE, key |-> decodeKey(c.key), up |-> TRUE]
    BY <1>3 DEF NewEncryptionService
  <2>2. c.enabled = TRUE
    BY <1>3 DEF Configs
  <2> QED
    BY <1>3, <2>1, <2>2
<1> QED
  BY <1>1, <1>2, <1>3

\* Where a service is up, it encrypts exactly when the configuration says so.
LEMMA EnabledAsAsked ==
  ASSUME config \in Configs, svc = NewEncryptionService(config), svc.up
  PROVE  /\ IsEnabled <=> config.enabled
         /\ IsEnabled => svc.key = decodeKey(config.key)
BY ServiceKey DEF IsEnabled, NewEncryptionService, KeyBytes, NoKey

\* The initial states are consistent.
LEMMA InitConsistent == Init => IndInv
<1> SUFFICES ASSUME Init PROVE IndInv
  OBVIOUS
<1>1. config \in Configs /\ svc = NewEncryptionService(config)
  BY DEF Init
<1>2. EmptyText \in Plaintexts /\ EmptyKey \in KeyTexts
  BY EncryptionAssumption
<1>3. Clear(EmptyText) \in Stored
  BY <1>2 DEF Clear, Stored
<1>4. Error \in [error : BOOLEAN, text : Stored]
  BY <1>3 DEF Error
<1>5. TypeOK
  BY <1>1, <1>2, <1>3, <1>4, ServiceKey, EncryptionAssumption
     DEF Init, TypeOK, NotRead
<1> QED
  BY <1>1, <1>5 DEF Init, IndInv, Consistent, ReadBack, NotRead

\* Every step keeps them consistent: a text is read back under the key it was
\* sealed with, in whatever spelling, or not at all.
LEMMA NextConsistent == IndInv /\ [Next]_vars => IndInv'
<1> SUFFICES ASSUME IndInv, [Next]_vars PROVE IndInv'
  OBVIOUS
<1> USE DEF IndInv
<1>1. CASE Restart
  <2>1. /\ config' \in Configs /\ svc' = NewEncryptionService(config')
        /\ got' = NotRead /\ UNCHANGED <<column, origin>>
        /\ starts' \in 1 .. MaxStarts
    BY <1>1, EncryptionAssumption DEF Restart, TypeOK
  <2>2. Error \in [error : BOOLEAN, text : Stored]
    <3>1. Clear(EmptyText) \in Stored
      BY EncryptionAssumption DEF Clear, Stored
    <3> QED
      BY <3>1 DEF Error
  <2>3. TypeOK'
    BY <2>1, <2>2, ServiceKey DEF TypeOK, NotRead
  <2> QED
    BY <2>1, <2>3 DEF Consistent, ReadBack, NotRead
<1>2. ASSUME NEW s \in Slots, NEW text \in Plaintexts, Write(s, text)
      PROVE  IndInv'
  <2>1. /\ svc.up /\ got' = NotRead /\ UNCHANGED <<config, svc, starts>>
        /\ column' = [column EXCEPT ![s] = Encrypt(text)]
        /\ origin' = [origin EXCEPT ![s] = [text |-> text, config |-> config]]
    BY <1>2 DEF Write
  <2>2. Encrypt(text) =
          IF text = EmptyText \/ ~config.enabled THEN Clear(text)
          ELSE [sealed |-> TRUE, key |-> decodeKey(config.key), text |-> text]
    BY <2>1, EnabledAsAsked DEF Encrypt, TypeOK, Consistent
  <2>3. Encrypt(text) \in Stored
    <3>1. config.key \in KeyTexts
      BY DEF TypeOK, Configs
    <3> QED
      BY <2>2, <3>1 DEF Clear, Stored
  <2>4. Error \in [error : BOOLEAN, text : Stored]
    <3>1. Clear(EmptyText) \in Stored
      BY EncryptionAssumption DEF Clear, Stored
    <3> QED
      BY <3>1 DEF Error
  <2>5. TypeOK'
    BY <2>1, <2>3, <2>4 DEF TypeOK, NotRead
  <2>6. Consistent'
    BY <2>1, <2>2 DEF Consistent, TypeOK
  <2> QED
    BY <2>1, <2>5, <2>6 DEF ReadBack, NotRead
<1>3. ASSUME NEW s \in Slots, Read(s) PROVE IndInv'
  <2> DEFINE o == origin[s]
             sameKey == /\ o.config.enabled
                        /\ decodeKey(o.config.key) = decodeKey(config.key)
  <2>1. /\ svc.up /\ UNCHANGED <<config, svc, starts, column, origin>>
        /\ got' = [slot |-> {s}, by |-> IsEnabled, out |-> Decrypt(column[s])]
    BY <1>3 DEF Read
  <2>2. /\ column[s] \in Stored /\ o.text \in Plaintexts /\ o.config \in Configs
        /\ config \in Configs
    BY DEF TypeOK
  <2>3. /\ column[s] =
             IF o.text = EmptyText \/ ~o.config.enabled THEN Clear(o.text)
             ELSE [sealed |-> TRUE, key |-> decodeKey(o.config.key),
                   text |-> o.text]
        /\ o.text # EmptyText => NewEncryptionService(o.config).up
    BY DEF Consistent
  <2>4. /\ IsEnabled <=> config.enabled
        /\ IsEnabled => svc.key = decodeKey(config.key)
    BY <2>1, EnabledAsAsked DEF TypeOK, Consistent
  <2>5. Decrypt(column[s]) \in [error : BOOLEAN, text : Stored]
    <3>1. Clear(EmptyText) \in Stored /\ Clear(column[s].text) \in Stored
      BY <2>2, EncryptionAssumption DEF Clear, Stored
    <3> QED
      BY <2>2, <3>1 DEF Decrypt, Ok, Error
  <2>6. TypeOK'
    <3>1. IsEnabled \in BOOLEAN
      BY DEF IsEnabled, TypeOK, Configs, Consistent, NewEncryptionService, NoService
    <3> QED
      BY <2>1, <2>5, <3>1 DEF TypeOK
  <2>7. Consistent'
    BY <2>1 DEF Consistent
  <2> DEFINE rightly ==
        IF IsEnabled
        THEN Decrypt(column[s]) =
               IF o.text = EmptyText \/ sameKey THEN Ok(Clear(o.text)) ELSE Error
        ELSE Decrypt(column[s]) = Ok(column[s])
  <2>8. ASSUME ~IsEnabled PROVE rightly
    BY <2>8 DEF Decrypt
  <2>9. ASSUME IsEnabled, o.text = EmptyText PROVE rightly
    BY <2>3, <2>9 DEF Decrypt
  <2>10. ASSUME IsEnabled, o.text # EmptyText PROVE rightly
    <3>1. column[s] # Clear(EmptyText)
      BY <2>3, <2>10 DEF Clear
    <3>2. ASSUME sameKey PROVE Decrypt(column[s]) = Ok(Clear(o.text))
      BY <2>3, <2>4, <2>10, <3>1, <3>2 DEF Decrypt, LongEnough, Opens
    <3>3. ASSUME ~sameKey PROVE ~Opens(column[s])
      <4>1. CASE ~o.config.enabled
        BY <2>3, <4>1 DEF Opens, Clear
      <4>2. CASE o.config.enabled
        BY <2>3, <2>4, <2>10, <3>3, <4>2 DEF Opens
      <4> QED
        BY <2>2, <4>1, <4>2 DEF Configs
    <3> QED
      BY <2>10, <3>1, <3>2, <3>3 DEF Decrypt
  <2>11. ReadBack'
    <3>1. rightly
      BY <2>8, <2>9, <2>10
    <3>2. got'.slot = {s} /\ got'.by = IsEnabled /\ got'.out = Decrypt(column[s])
      BY <2>1
    <3> QED
      BY <2>1, <3>1, <3>2 DEF ReadBack
  <2> QED
    BY <2>6, <2>7, <2>11
<1>4. CASE UNCHANGED vars
  BY <1>4 DEF vars, TypeOK, Consistent, ReadBack, IsEnabled
<1> QED
  BY <1>1, <1>2, <1>3, <1>4 DEF Next, Stopped

\* The inductive invariant holds in every reachable state.
THEOREM EncryptionInductive == Spec => []IndInv
BY InitConsistent, NextConsistent, PTL DEF Spec

\* With AES-GCM taken to be perfect, Decrypt never hands out a wrong text as the
\* original, over any sequence of restarts with other keys or without one.
THEOREM ReadBackHolds == Spec => []ReadBack
BY EncryptionInductive, PTL DEF IndInv

\* NewEncryptionService refuses to start rather than let Encrypt pass texts
\* through: what was written with encryption asked for is sealed.
THEOREM EnabledNeverClearHolds == Spec => []EnabledNeverClear
<1>1. IndInv => EnabledNeverClear
  <2> SUFFICES ASSUME Consistent, NEW s \in Slots, origin[s].config.enabled,
                      origin[s].text # EmptyText
               PROVE  column[s].sealed
    BY DEF IndInv, EnabledNeverClear
  <2>1. column[s] = [sealed |-> TRUE, key |-> decodeKey(origin[s].config.key),
                     text |-> origin[s].text]
    BY DEF Consistent
  <2> QED
    BY <2>1
<1> QED
  BY <1>1, EncryptionInductive, PTL

\* The texts that both decoders accept have no padding and so spell a multiple
\* of three bytes, which 32 is not: every key in hexadecimal is refused, and none
\* is taken for another.
THEOREM NoAmbiguousKeyHolds == Spec => []NoAmbiguousKey
<1>1. IndInv => NoAmbiguousKey
  <2> SUFFICES ASSUME TypeOK, Consistent, svc.enabled,
                      Base64Decodes(config.key), HexDecodes(config.key)
               PROVE  FALSE
    BY DEF IndInv, NoAmbiguousKey
  <2> DEFINE t == config.key
  <2>1. config \in Configs /\ t.chars \in Nat /\ t.pad = 0
    BY EncryptionAssumption DEF TypeOK, Configs, KeyTextType, HexDecodes
  <2>2. decodeKey(t) = Base64Decode(t) /\ decodeKey(t).bytes = KeyBytes
    BY <2>1, ServiceKey DEF Consistent, decodeKey
  <2>3. 3 * (t.chars \div 4) = 32
    BY <2>1, <2>2 DEF Base64Decode, KeyBytes
  <2> QED
    BY <2>1, <2>3
<1> QED
  BY <1>1, EncryptionInductive, PTL
=============================================================================
