---------------------------- MODULE StoredSecrets ----------------------------
(***************************************************************************)
(* Credentials to other systems, kept encrypted in the database: one API   *)
(* key of a user, the suite token of one integration, and the assistant's  *)
(* key in the settings.  Early releases stored the first two as they were  *)
(* typed.  A value is known by what was typed and by how many times it is  *)
(* encrypted.                                                              *)
(***************************************************************************)
EXTENDS Naturals, Null

CONSTANT
  InitStored   \* what the stores of earlier releases hold, or NULL

\* Those with a one-time encryption, done at start-up and recorded like a script.
Legacy == {"user_api_keys", "suite_tokens"}
Stores == Legacy \cup {"resonance_key"}

VARIABLES
  stored,     \* store -> its value, or NULL
  encrypted   \* the one-time encryptions that _migrations names

\* What can be typed.  "mask" is the sentinel the settings page is shown.
Texts == {"", "mask", "secret"}

Value(text, layers) == [text |-> text, layers |-> layers]
Blank == Value("", 0)
Values == [text : Texts, layers : Nat]

\* Rows may have been stored in the clear, and may have been encrypted since.
ASSUME StoredAssumption ==
  InitStored \in [Legacy -> {NULL, Blank, Value("secret", 0), Value("secret", 1)}]

SecretsTypeOK ==
  /\ stored \in [Stores -> Values \cup {NULL}]
  /\ encrypted \subseteq Legacy

SecretsInit ==
  /\ stored = [s \in Stores |-> IF s \in Legacy THEN InitStored[s] ELSE NULL]
  /\ encrypted = {}

-----------------------------------------------------------------------------

\* encrypt_str.
Encrypt(value) == [value EXCEPT !.layers = @ + 1]

\* decrypt_str: blank when there is nothing, or nothing that was encrypted.
Decrypt(value) ==
  IF value.layers = 0 THEN Blank ELSE [value EXCEPT !.layers = @ - 1]

\* What the form sent, encrypted unless it is empty.
Sealed(text) == IF text = "" THEN Blank ELSE Encrypt(Value(text, 0))

\* A row of an early release, unless it is blank or decrypts already.
EncryptedOnce(value) ==
  IF value \in {NULL, Blank} THEN value
  ELSE IF Decrypt(value) # Blank THEN value ELSE Encrypt(value)

\* _encrypt_legacy_api_keys, _encrypt_legacy_suite_tokens: the rows and the
\* mark that they are done are one transaction.
EncryptLegacy(s) ==
  /\ s \in Legacy \ encrypted
  /\ stored' = [stored EXCEPT ![s] = EncryptedOnce(@)]
  /\ encrypted' = encrypted \cup {s}

Save(s, value) == stored' = [stored EXCEPT ![s] = value] /\ UNCHANGED encrypted

\* An empty key clears the stored one, and keeps the row.
SetApiKey(text) == Save("user_api_keys", Sealed(text))

\* enabled, free_tier, enabled_fields: each an upsert of its own column.
SetPreference ==
  Save("user_api_keys", IF stored["user_api_keys"] = NULL THEN Blank
                        ELSE stored["user_api_keys"])

CreateIntegration(text) ==
  stored["suite_tokens"] = NULL /\ Save("suite_tokens", Sealed(text))

\* What the form leaves out is written as it was read: the SELECT is taken
\* together with the UPDATE.
UpdateIntegration(text) ==
  /\ stored["suite_tokens"] # NULL
  /\ Save("suite_tokens", IF text = NULL THEN stored["suite_tokens"] ELSE Sealed(text))

\* Unless a device collector uses it.
DeleteIntegration == stored["suite_tokens"] # NULL /\ Save("suite_tokens", NULL)

\* What GET /settings shows of the key; its page sends it back unless it is
\* typed anew.
Shown(value) == IF value \in {NULL, Blank} THEN "" ELSE "mask"

UpdateSettings(text) ==
  IF text = "mask" THEN UNCHANGED <<stored, encrypted>>
  ELSE Save("resonance_key", Sealed(text))

\* Changes by users and administrators, while the process answers.
SaveSecret ==
  \/ \E text \in {"", "secret"} :
       SetApiKey(text) \/ CreateIntegration(text) \/ UpdateIntegration(text)
  \/ SetPreference \/ UpdateIntegration(NULL) \/ DeleteIntegration
  \/ \E text \in {Shown(stored["resonance_key"]), "", "secret"} : UpdateSettings(text)

\* What reads it: a look-up, the suite client, the assistant's client.
ReadSecret(s) == IF stored[s] = NULL THEN Blank ELSE Decrypt(stored[s])

\* Every stored secret reads back as what was typed: it is encrypted, and once.
ReadsBack ==
  \A s \in Stores : stored[s] \in {NULL, Blank} \/ ReadSecret(s) = Value("secret", 0)
=============================================================================
