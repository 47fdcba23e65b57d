----------------------------- MODULE CertVolume -----------------------------
(***************************************************************************)
(* The shared directory of key material (internal/certs): the gencerts     *)
(* processes that fill it, one file after the other, and the check by      *)
(* which they reuse what is there.                                         *)
(*                                                                         *)
(* A file is the number of the generation that wrote it; a CA, a leaf      *)
(* certificate and a key fit together when their numbers are equal.        *)
(* Hosts, serial numbers and the encoding have no influence on that.       *)
(***************************************************************************)
EXTENDS Integers, Sequences

CONSTANT MaxMints    \* bound: generations minted in one behaviour

ASSUME CertAssumption == MaxMints \in Nat

\* The certs service of docker-compose.yml runs gencerts without -force; an
\* operator may run it with -force at any time.
Writers == {"compose", "operator"}
Forces(w) == w = "operator"

\* The order of writeMaterial.
Files == <<"ca", "cert", "key">>
Names == {Files[i] : i \in DOMAIN Files}

Absent == 0     \* the file does not exist
Empty  == -1    \* os.WriteFile truncated it and has not written to it

VARIABLES
  vol,      \* the files of the directory
  gen,      \* each writer: where it is, the file it is at and its generation
  mints,    \* generations minted so far
  clean,    \* history: the writer has had the directory to itself since its first write
  spoiled   \* history: a writer was cut off, or writers overlapped, and no
            \* writer has written all files undisturbed since

certVars == <<vol, gen, mints, clean, spoiled>>

Idle == [pc |-> "idle", at |-> 1, mint |-> 0]

CertInit ==
  /\ vol = [f \in Names |-> Absent]
  /\ gen = [w \in Writers |-> Idle]
  /\ mints = 0
  /\ clean = [w \in Writers |-> FALSE]
  /\ spoiled = FALSE

Running(w) == gen[w].pc # "idle"

\* A writer between its first change of the directory and its last.
Writing(w) == gen[w].pc = "write" \/ (gen[w].pc = "open" /\ gen[w].at > 1)

File(w) == Files[gen[w].at]

\* mintCA and mintLeaf: new keys, kept in memory.
Minted(w) ==
  /\ mints < MaxMints
  /\ mints' = mints + 1
  /\ gen' = [gen EXCEPT ![w] = [pc |-> "open", at |-> 1, mint |-> mints + 1]]

StartGen(w) ==
  /\ ~Running(w)
  /\ gen' = [gen EXCEPT ![w].pc = "stat"]
  /\ UNCHANGED <<vol, mints, clean, spoiled>>

\* Generate looks for server.pem alone.
Reuses(w) == ~Forces(w) /\ vol["cert"] # Absent

Reuse(w) ==
  /\ gen[w].pc = "stat" /\ Reuses(w)
  /\ gen' = [gen EXCEPT ![w] = Idle]
  /\ UNCHANGED <<vol, mints, clean, spoiled>>

Mint(w) ==
  /\ gen[w].pc = "stat" /\ ~Reuses(w)
  /\ Minted(w)
  /\ UNCHANGED <<vol, clean, spoiled>>

\* A change of the directory by w: every other writer has been disturbed, and w
\* has if another is between its own writes.
Disturbed(w, first) ==
  [x \in Writers |-> x = w /\ (first \/ clean[w]) /\ \A y \in Writers \ {w} : ~Writing(y)]

\* os.WriteFile opens the file, which truncates it.
Truncate(w) ==
  /\ gen[w].pc = "open"
  /\ vol' = [vol EXCEPT ![File(w)] = Empty]
  /\ gen' = [gen EXCEPT ![w].pc = "write"]
  /\ clean' = Disturbed(w, gen[w].at = 1)
  /\ UNCHANGED <<mints, spoiled>>

\* ... and writes it; after the last file gencerts exits with 0.
WriteFileKeepsKey(w) ==
  /\ gen[w].pc = "write"
  /\ vol' = [vol EXCEPT ![File(w)] = gen[w].mint]
  /\ clean' = Disturbed(w, FALSE)
  /\ IF gen[w].at = 1 \/ (gen[w].at = 2 /\ vol["key"] = Absent)
     THEN gen' = [gen EXCEPT ![w].pc = "open", ![w].at = @ + 1] /\ UNCHANGED spoiled
     ELSE gen' = [gen EXCEPT ![w] = Idle] /\ spoiled' = ~clean'[w]
  /\ UNCHANGED mints
WriteFile(w) ==
  /\ gen[w].pc = "write"
  /\ vol' = [vol EXCEPT ![File(w)] = gen[w].mint]
  /\ clean' = Disturbed(w, FALSE)
  /\ IF gen[w].at < Len(Files)
     THEN gen' = [gen EXCEPT ![w].pc = "open", ![w].at = @ + 1] /\ UNCHANGED spoiled
     ELSE gen' = [gen EXCEPT ![w] = Idle] /\ spoiled' = ~clean'[w]
  /\ UNCHANGED mints

\* gencerts is killed, or writeMaterial returns the error of a write.
CutOff(w) ==
  /\ Running(w)
  /\ gen' = [gen EXCEPT ![w] = Idle]
  /\ clean' = [x \in Writers |-> clean[x] /\ ~Writing(w)]
  /\ spoiled' = (spoiled \/ Writing(w))
  /\ UNCHANGED <<vol, mints>>

GenStep(w) == Reuse(w) \/ Mint(w) \/ Truncate(w) \/ WriteFile(w)

CertNext == \E w \in Writers : StartGen(w) \/ GenStep(w) \/ CutOff(w)

CertSpec == CertInit /\ [][CertNext]_certVars

----------------------------------------------------------------------------

Quiet == \A w \in Writers : ~Running(w)

Pristine == \A f \in Names : vol[f] = Absent
Sound == vol["cert"] > 0 /\ \A f \in Names : vol[f] = vol["cert"]

\* gencerts reuses for ever what no edge can load or no client can verify.
Wedged == Quiet /\ ~Pristine /\ ~Sound

Gen == [pc : {"idle", "stat", "open", "write"}, at : 1..Len(Files), mint : 0..MaxMints]

CertTypeOK ==
  /\ mints \in 0..MaxMints
  /\ vol \in [Names -> Empty..MaxMints]
  /\ gen \in [Writers -> Gen]
  /\ clean \in [Writers -> BOOLEAN] /\ spoiled \in BOOLEAN

\* Whatever the writers do, and in whichever order, the directory is left with
\* files that do not fit together only by a writer that was cut off between its
\* writes or by two that overlapped; and one run of gencerts -force that is
\* neither heals it (writeMaterial, Generate).
WedgedByFault == Wedged => spoiled
=============================================================================
