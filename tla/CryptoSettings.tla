--------------------------- MODULE CryptoSettings ---------------------------
(***************************************************************************)
(* The settings file on Linux: CryptoSettings (src/src/cryptosettings.cpp) *)
(* with its key from the desktop's secret portal (XdgCryptoSettings), under *)
(* QSettings, which reads the file once and writes it whole, by renaming.  *)
(*                                                                         *)
(* The file tells its reader how to get the key: a salt, and the token by  *)
(* which the portal knows the secret.  The portal's answer brings the      *)
(* token only after the secret, when the first file is already written.    *)
(* Contents are sets of edits; a secret and its token have one number, and *)
(* 0 is none.  The portal keeps one secret for the application or one for  *)
(* each token, as its backend likes.                                       *)
(***************************************************************************)
EXTENDS Integers, Sequences

CONSTANTS
  Edits,       \* the changes users make to settings
  NonceLimit,  \* stands for UINT64_MAX
  MaxSalts,    \* bound on the salts generated
  TokenLength  \* the length of each token: a sequence of numbers

ASSUME CryptoAssumption ==
  /\ NonceLimit \in Nat \ {0} /\ MaxSalts \in Nat
  /\ TokenLength \in Seq(Nat)

VARIABLES
  sfile,         \* the settings file
  crypt,         \* members of XdgCryptoSettings, and what is under way
  loaded,        \* QSettings: the content as last read or written
  edited,        \* QSettings: the edits not yet written
  clientRuns,    \* the process is there
  secretPortal,  \* the portal answers
  secretPerToken,
  secretsIssued, \* secrets the portal has made
  saltsMade,     \* salts generated so far
  saved,         \* history: every edit that was ever written
  mishaps        \* history: "unread", a file was there and could not be read at
                 \* start; "untold", a token did not arrive or was not written

cryptoVars == <<sfile, crypt, loaded, edited, clientRuns, secretPortal,
                secretPerToken, secretsIssued, saltsMade, saved, mishaps>>

-----------------------------------------------------------------------------

Secrets == DOMAIN TokenLength
NoFile == [ver |-> "none"]
Plain == [ver : {"plain"}, content : SUBSET Edits]

\* key is what the file is encrypted with, a secret and a salt; the salt, the
\* token and the nonce are in the file.
Encrypted == [ver : {"v2"}, salt : 0 .. MaxSalts, token : Secrets \cup {0},
              nonce : 0 .. NonceLimit, key : Secrets \X (0 .. MaxSalts),
              content : SUBSET Edits]

CryptoTypeOK ==
  /\ sfile \in {NoFile} \cup Plain \cup Encrypted
  /\ crypt \in [token : Secrets \cup {0}, salt : 0 .. MaxSalts,
                key : Secrets \cup {0}, nonce : 0 .. NonceLimit - 1,
                ver : {"plain", "v2"}, reply : Secrets \cup {0}, touched : BOOLEAN]
  /\ loaded \subseteq Edits /\ edited \subseteq Edits /\ saved \subseteq Edits
  /\ {clientRuns, secretPortal, secretPerToken} \subseteq BOOLEAN
  /\ secretsIssued \in Secrets \cup {0} /\ saltsMade \in 0 .. MaxSalts
  /\ mishaps \subseteq {"unread", "untold"}

\* A process that has just been started.
NewCrypt == [token |-> 0, salt |-> 0, key |-> 0, nonce |-> 0, ver |-> "plain",
             reply |-> 0, touched |-> FALSE]

CryptoInit ==
  /\ sfile \in {NoFile, [ver |-> "plain", content |-> {}]}
  /\ crypt = NewCrypt /\ loaded = {} /\ edited = {}
  /\ clientRuns = FALSE /\ secretPortal = TRUE /\ secretPerToken \in BOOLEAN
  /\ secretsIssued = 0 /\ saltsMade = 0
  /\ saved = {} /\ mishaps = {}

-----------------------------------------------------------------------------
(* The header of an encrypted file.                                        *)

\* getMetaData(): {"salt":"..."} or {"salt":"...","token":"..."}, a salt being
\* 32 bytes in base64.
MetaLength(salt, token) ==
  IF token = 0 THEN 55 ELSE 66 + TokenLength[token]

SignedChar(b) == IF b >= 128 THEN b - 256 ELSE b

\* metaLength = header[2] + (header[3] >> 8), of signed bytes into 16 bits.
ReadLength(len) ==
  LET high == SignedChar((len \div 256) % 256)
  IN  (SignedChar(len % 256) + (IF high < 0 THEN -1 ELSE 0)) % 65536

\* A header whose length is read as it was written.
Narrow(f) == LET len == MetaLength(f.salt, f.token) IN ReadLength(len) = len

-----------------------------------------------------------------------------
(* XdgCryptoSettings.  A call yields the members it leaves, what the portal *)
(* has issued, the salts made, and whether there is a key.                 *)

Outcome(ok, c, issued, salts) ==
  [ok |-> ok, c |-> c, issued |-> issued, salts |-> salts]

\* The request may fail, or be taken and the secret not read, or bring a secret.
Outcomes(c, salt, token) ==
  LET secret == IF ~secretPerToken THEN 1
                ELSE IF token # 0 THEN token ELSE secretsIssued + 1
      kept == [c EXCEPT !.key = secret, !.salt = salt, !.token = token,
                        !.reply = IF secretPerToken /\ token = 0 THEN secret ELSE 0]
      Last(n, m) == IF n > m THEN n ELSE m
      issued == Last(secret, secretsIssued)
  IN  {Outcome(FALSE, c, secretsIssued, saltsMade)} \cup
        IF secretPortal /\ secret \in Secrets /\ salt <= MaxSalts
          THEN {Outcome(FALSE, [c EXCEPT !.reply = kept.reply], issued, saltsMade),
                Outcome(TRUE, kept, issued, Last(salt, saltsMade))}
          ELSE {}

SaltInUse(c) == IF c.salt # 0 THEN c.salt ELSE saltsMade + 1

\* getKey(V2, metadata): the secret of the metadata's token, or of the one known,
\* or a new one, whose token comes with the portal's response; the metadata's
\* salt, or the one in use, or a new one.
GetKey(c, salt, token) ==
  IF c.key # 0 THEN {Outcome(TRUE, c, secretsIssued, saltsMade)}
  ELSE Outcomes(c, IF salt # 0 THEN salt ELSE SaltInUse(c),
                   IF token # 0 THEN token ELSE c.token)

resetKey_keepsSalt(c) == [c EXCEPT !.token = 0, !.key = 0, !.nonce = 0]

\* resetKey(), and the nonce begins anew.
resetKey(c) == [c EXCEPT !.token = 0, !.salt = 0, !.key = 0, !.nonce = 0]

Opens(f, c) == f.key = <<c.key, c.salt>>

readEncrypted_nonceAnew(f, c) ==
  {[o EXCEPT !.ok = @ /\ Opens(f, o.c)] : o \in GetKey(c, f.salt, f.token)}

\* readEncryptedChachaPolyFile().  A length from 128 to 255 is read as one that
\* no file has; a greater one cuts the metadata off, which then says nothing.
readEncrypted(f, c) ==
  LET len == MetaLength(f.salt, f.token)
      Tried(salt, token) ==
        {IF o.ok /\ Narrow(f) /\ Opens(f, o.c)
           THEN [o EXCEPT !.c.nonce = f.nonce]
           ELSE [o EXCEPT !.ok = FALSE] : o \in GetKey(c, salt, token)}
  IN  IF Narrow(f) THEN Tried(f.salt, f.token)
      ELSE IF ReadLength(len) > len
             THEN {Outcome(FALSE, c, secretsIssued, saltsMade)}
             ELSE Tried(0, 0)

\* readFile()
readFile(f, c) ==
  IF f.ver = "v2" THEN readEncrypted(f, c)
                  ELSE {Outcome(TRUE, c, secretsIssued, saltsMade)}

\* writeEncryptedChachaPolyFile(), up to the key.
NextKey(c) ==
  GetKey(IF c.nonce + 1 = NonceLimit THEN resetKey(c) ELSE [c EXCEPT !.nonce = @ + 1], 0, 0)

FileOf(c, content) ==
  [ver |-> "v2", salt |-> c.salt, token |-> c.token, nonce |-> c.nonce,
   key |-> <<c.key, c.salt>>, content |-> content]

-----------------------------------------------------------------------------
(* The steps.                                                              *)

Content(f) == IF f = NoFile THEN {} ELSE f.content

\* SettingsManager and XdgCryptoSettings are made: the version is chosen for the
\* life of the process, and QSettings takes an unreadable file for an empty one.
settingsCreated ==
  /\ ~clientRuns
  /\ clientRuns' = TRUE
  /\ \E o \in readFile(sfile, [NewCrypt EXCEPT !.ver = IF secretPortal THEN "v2" ELSE "plain"]) :
       /\ crypt' = o.c /\ secretsIssued' = o.issued /\ saltsMade' = o.salts
       /\ loaded' = IF o.ok THEN Content(sfile) ELSE {}
       /\ mishaps' = IF o.ok THEN mishaps ELSE mishaps \cup {"unread"}
  /\ edited' = {}
  /\ UNCHANGED <<sfile, secretPortal, secretPerToken, saved>>

settingEdited(e) ==
  /\ clientRuns /\ e \notin saved
  /\ edited' = edited \cup {e}
  /\ UNCHANGED <<sfile, crypt, loaded, clientRuns, secretPortal, secretPerToken,
                 secretsIssued, saltsMade, saved, mishaps>>

Written(f, c) ==
  /\ sfile' = f
  /\ crypt' = [c EXCEPT !.touched = FALSE]
  /\ loaded' = f.content /\ edited' = {} /\ saved' = saved \cup edited

\* QSettings::sync() and writeFile(); what fails leaves the file and the edits.
cryptoSync ==
  /\ clientRuns /\ (edited # {} \/ crypt.touched)
  /\ \/ /\ crypt.ver = "plain"
        /\ Written([ver |-> "plain", content |-> loaded \cup edited], crypt)
        /\ UNCHANGED <<secretsIssued, saltsMade>>
     \/ /\ crypt.ver = "v2"
        /\ \E o \in NextKey(crypt) :
             /\ secretsIssued' = o.issued /\ saltsMade' = o.salts
             /\ \/ o.ok /\ Written(FileOf(o.c, loaded \cup edited), o.c)
                \/ crypt' = o.c /\ UNCHANGED <<sfile, loaded, edited, saved>>
  /\ UNCHANGED <<clientRuns, secretPortal, secretPerToken, mishaps>>

\* handleResponse() with the token: it goes into the settings, which are written.
handleResponse ==
  /\ clientRuns /\ crypt.reply # 0
  /\ crypt' = [crypt EXCEPT !.token = crypt.reply, !.reply = 0, !.touched = TRUE]
  /\ UNCHANGED <<sfile, loaded, edited, clientRuns, secretPortal, secretPerToken,
                 secretsIssued, saltsMade, saved, mishaps>>

\* handleResponse() with an error or without a token.
handleResponseNothing ==
  /\ clientRuns /\ crypt.reply # 0
  /\ crypt' = [crypt EXCEPT !.reply = 0]
  /\ mishaps' = mishaps \cup {"untold"}
  /\ UNCHANGED <<sfile, loaded, edited, clientRuns, secretPortal, secretPerToken,
                 secretsIssued, saltsMade, saved>>

\* The process ends, by a crash or before what it has to write is written.
settingsLost ==
  /\ clientRuns
  /\ clientRuns' = FALSE
  /\ crypt' = NewCrypt /\ loaded' = {} /\ edited' = {}
  /\ mishaps' = IF crypt.reply # 0 \/ crypt.touched THEN mishaps \cup {"untold"} ELSE mishaps
  /\ UNCHANGED <<sfile, secretPortal, secretPerToken, secretsIssued, saltsMade, saved>>

portalChanges ==
  /\ secretPortal' = ~secretPortal
  /\ UNCHANGED <<sfile, crypt, loaded, edited, clientRuns, secretPerToken,
                 secretsIssued, saltsMade, saved, mishaps>>

CryptoNext ==
  \/ settingsCreated \/ cryptoSync \/ handleResponse \/ handleResponseNothing
  \/ settingsLost \/ portalChanges
  \/ \E e \in Edits : settingEdited(e)

CryptoSpec == CryptoInit /\ [][CryptoNext]_cryptoVars

-----------------------------------------------------------------------------

\* The secret that a new process gets with what the file says.
SecretFor(f) == IF secretPerToken THEN f.token ELSE 1

\* The file can be opened by the next process, whatever this one went through:
\* failed requests, a used-up nonce, a key of its own or the file's.  Not so
\* while the token is on its way, and not if the token is too long for the
\* length that is read (cryptosettings.cpp:160).
FileOpens ==
  sfile.ver = "v2" /\ Narrow(sfile) =>
    \/ sfile.key = <<SecretFor(sfile), sfile.salt>>
    \/ /\ secretPerToken /\ sfile.token = 0
       /\ crypt.reply # 0 \/ crypt.touched \/ "untold" \in mishaps

\* An edit once written is never lost by later processes, as long as each of
\* them could read the file it found.
EditsKept == "unread" \notin mishaps => saved \subseteq Content(sfile)

\* Under one key the nonces of the files only rise, across processes and key
\* changes.
NoncesRise ==
  [][sfile.ver = "v2" /\ sfile'.ver = "v2" /\ sfile' # sfile /\ sfile'.key = sfile.key
       => sfile'.nonce > sfile.nonce]_cryptoVars

\* What the settings file promises (cryptosettings.cpp).
SettingsKept == [](FileOpens /\ EditsKept) /\ NoncesRise

=============================================================================
