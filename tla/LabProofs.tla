----------------------------- MODULE LabProofs ------------------------------
(***************************************************************************)
(* Proofs about the lab and the components it is made of: what gencerts    *)
(* leaves in the certificate directory (CertVolume), what the readers of   *)
(* the UDP counters report (UdpMeters), that the lab uses both as their    *)
(* own specifications say, which requests the panel should have refused    *)
(* (PanelRequests), and what a probe concludes (Probe).                    *)
(***************************************************************************)
EXTENDS Lab, TLAPS, SequenceTheorems

----------------------------------------------------------------------------
(* The certificate directory.                                              *)

\* A writer that has had the directory to itself has filled it, up to the file
\* it is at, with its own generation.
CleanPrefix ==
  \A w \in Writers : clean[w] /\ Writing(w) =>
    \A i \in 1..3 : i < gen[w].at => vol[Files[i]] = gen[w].mint

\* Only a minted generation is written.
MintedWrites ==
  \A w \in Writers : gen[w].pc \in {"open", "write"} => gen[w].mint > 0

\* WedgedByFault for every state without a writer between its writes, also for
\* those in which one has just started.
Settled == spoiled \/ (\E w \in Writers : Writing(w)) \/ Pristine \/ Sound

CInv == CertTypeOK /\ CleanPrefix /\ MintedWrites /\ Settled

\* The three files of writeMaterial, in their order.
LEMMA FilesAre ==
  /\ Files[1] = "ca" /\ Files[2] = "cert" /\ Files[3] = "key"
  /\ Len(Files) = 3 /\ DOMAIN Files = 1..3
  /\ Names = {"ca", "cert", "key"}
<1>1. /\ Files[1] = "ca" /\ Files[2] = "cert" /\ Files[3] = "key"
      /\ Len(Files) = 3 /\ DOMAIN Files = 1..3
  BY DEF Files
<1>2. 1..3 = {1, 2, 3}
  OBVIOUS
<1>3. Names = {"ca", "cert", "key"}
  BY <1>1, <1>2 DEF Names
<1> QED BY <1>1, <1>3

\* The directory is empty at first, and nobody writes to it.
LEMMA CertInitInv == CertInit => CInv
<1> SUFFICES ASSUME CertInit PROVE CInv
  OBVIOUS
<1>1. CertTypeOK
  <2>1. mints \in 0..MaxMints /\ vol \in [Names -> Empty..MaxMints]
    BY CertAssumption DEF CertInit, Empty, Absent
  <2>2. Idle \in Gen
    BY CertAssumption, FilesAre DEF Idle, Gen
  <2>3. gen \in [Writers -> Gen]
    BY <2>2 DEF CertInit
  <2>4. clean \in [Writers -> BOOLEAN] /\ spoiled \in BOOLEAN
    BY DEF CertInit
  <2> QED BY <2>1, <2>3, <2>4 DEF CertTypeOK
<1>2. CleanPrefix /\ MintedWrites
  BY DEF CertInit, CleanPrefix, MintedWrites, Idle
<1>3. Settled
  BY DEF CertInit, Settled, Pristine
<1> QED BY <1>1, <1>2, <1>3 DEF CInv

\* A step that changes neither the directory nor who is between writes.
LEMMA QuietStep ==
  ASSUME CInv, CertTypeOK', MintedWrites', UNCHANGED <<vol, clean, spoiled>>,
         \A x \in Writers : Writing(x)' = Writing(x)
                            /\ (Writing(x) => gen'[x] = gen[x])
  PROVE  CInv'
<1>1. CleanPrefix'
  BY DEF CInv, CleanPrefix
<1>2. Settled'
  BY DEF CInv, Settled, Pristine, Sound
<1> QED BY <1>1, <1>2 DEF CInv

\* A writer of the type is in one of its four places.
LEMMA GenFacts ==
  ASSUME CertTypeOK, NEW w \in Writers
  PROVE  /\ gen[w] \in Gen /\ gen[w].at \in 1..3 /\ gen[w].mint \in 0..MaxMints
         /\ mints \in 0..MaxMints /\ MaxMints \in Nat
         /\ File(w) \in Names
BY CertAssumption, FilesAre DEF CertTypeOK, Gen, File

\* The start of a gencerts process touches no file.
LEMMA StartInv == ASSUME CInv, NEW w \in Writers, StartGen(w) PROVE CInv'
<1> USE GenFacts DEF CInv
<1>1. gen' = [gen EXCEPT ![w].pc = "stat"] /\ gen[w].pc = "idle"
      /\ UNCHANGED <<vol, mints, clean, spoiled>>
  BY DEF StartGen, Running
<1>2. gen' \in [Writers -> Gen]
  BY <1>1 DEF CertTypeOK, Gen
<1>3. CertTypeOK'
  BY <1>1, <1>2 DEF CertTypeOK
<1>4. MintedWrites'
  BY <1>1 DEF MintedWrites, CertTypeOK
<1>5. \A x \in Writers : Writing(x)' = Writing(x) /\ (Writing(x) => gen'[x] = gen[x])
  BY <1>1 DEF Writing, CertTypeOK
<1> QED BY <1>1, <1>3, <1>4, <1>5, QuietStep

\* gencerts that finds server.pem leaves everything as it is.
LEMMA ReuseInv == ASSUME CInv, NEW w \in Writers, Reuse(w) PROVE CInv'
<1> USE GenFacts DEF CInv
<1>1. gen' = [gen EXCEPT ![w] = Idle] /\ gen[w].pc = "stat"
      /\ UNCHANGED <<vol, mints, clean, spoiled>>
  BY DEF Reuse
<1>2. gen' \in [Writers -> Gen]
  BY <1>1, FilesAre DEF CertTypeOK, Gen, Idle
<1>3. CertTypeOK'
  BY <1>1, <1>2 DEF CertTypeOK
<1>4. MintedWrites'
  BY <1>1 DEF MintedWrites, CertTypeOK, Idle
<1>5. \A x \in Writers : Writing(x)' = Writing(x) /\ (Writing(x) => gen'[x] = gen[x])
  BY <1>1 DEF Writing, CertTypeOK, Idle
<1> QED BY <1>1, <1>3, <1>4, <1>5, QuietStep

\* Minting happens in memory.
LEMMA MintInv == ASSUME CInv, NEW w \in Writers, Mint(w) PROVE CInv'
<1> USE GenFacts DEF CInv
<1>1. /\ gen' = [gen EXCEPT ![w] = [pc |-> "open", at |-> 1, mint |-> mints + 1]]
      /\ gen[w].pc = "stat" /\ mints < MaxMints /\ mints' = mints + 1
      /\ UNCHANGED <<vol, clean, spoiled>>
  BY DEF Mint, Minted
<1>2. gen' \in [Writers -> Gen]
  BY <1>1, FilesAre DEF CertTypeOK, Gen
<1>3. CertTypeOK'
  BY <1>1, <1>2 DEF CertTypeOK
<1>4. MintedWrites'
  BY <1>1 DEF MintedWrites, CertTypeOK
<1>5. \A x \in Writers : Writing(x)' = Writing(x) /\ (Writing(x) => gen'[x] = gen[x])
  BY <1>1 DEF Writing, CertTypeOK
<1> QED BY <1>1, <1>3, <1>4, <1>5, QuietStep

\* A change of the directory leaves at most its author undisturbed.
LEMMA OneClean ==
  ASSUME CertTypeOK, NEW w \in Writers, NEW first \in BOOLEAN
  PROVE  /\ Disturbed(w, first) \in [Writers -> BOOLEAN]
         /\ \A x \in Writers : Disturbed(w, first)[x] =>
              /\ x = w /\ (first \/ clean[w])
              /\ \A y \in Writers \ {w} : ~Writing(y)
BY DEF Disturbed

\* Opening a file for writing damages the directory, and its writer is then
\* between its writes.
LEMMA TruncateInv == ASSUME CInv, NEW w \in Writers, Truncate(w) PROVE CInv'
<1> USE GenFacts DEF CInv
<1>1. /\ gen' = [gen EXCEPT ![w].pc = "write"] /\ gen[w].pc = "open"
      /\ vol' = [vol EXCEPT ![File(w)] = Empty]
      /\ clean' = Disturbed(w, gen[w].at = 1)
      /\ UNCHANGED <<mints, spoiled>>
  BY DEF Truncate
<1>2. gen' \in [Writers -> Gen]
  BY <1>1 DEF CertTypeOK, Gen
<1>3. vol' \in [Names -> Empty..MaxMints]
  BY <1>1 DEF CertTypeOK, Empty
<1>c. (gen[w].at = 1) \in BOOLEAN
  OBVIOUS
<1>4. clean' \in [Writers -> BOOLEAN]
  BY <1>1, <1>c, OneClean
<1>5. CertTypeOK'
  BY <1>1, <1>2, <1>3, <1>4 DEF CertTypeOK
<1>6. MintedWrites'
  BY <1>1 DEF MintedWrites, CertTypeOK
<1>7. CleanPrefix'
  <2> SUFFICES ASSUME NEW x \in Writers, clean'[x], NEW i \in 1..3, i < gen'[x].at
               PROVE  vol'[Files[i]] = gen'[x].mint
    BY DEF CleanPrefix
  <2>1. x = w /\ (gen[w].at = 1 \/ clean[w])
    BY <1>1, <1>c, OneClean
  <2>2. gen'[w].at = gen[w].at /\ gen'[w].mint = gen[w].mint
    BY <1>1 DEF CertTypeOK
  <2>3. clean[w] /\ Writing(w)
    BY <1>1, <2>1, <2>2 DEF Writing
  <2>4. vol[Files[i]] = gen[w].mint
    BY <2>1, <2>2, <2>3 DEF CleanPrefix
  <2>5. Files[i] # File(w) /\ Files[i] \in Names
    BY <2>1, <2>2, FilesAre DEF File
  <2> QED BY <1>1, <2>1, <2>2, <2>4, <2>5 DEF CertTypeOK
<1>8. Settled'
  <2>1. Writing(w)'
    BY <1>1 DEF Writing, CertTypeOK
  <2> QED BY <2>1 DEF Settled
<1> QED BY <1>5, <1>6, <1>7, <1>8

\* The last write of an undisturbed writer leaves three files of its generation.
LEMMA WriteInv == ASSUME CInv, NEW w \in Writers, WriteFile(w) PROVE CInv'
<1> USE GenFacts DEF CInv
<1>1. /\ gen[w].pc = "write" /\ UNCHANGED mints
      /\ vol' = [vol EXCEPT ![File(w)] = gen[w].mint]
      /\ clean' = Disturbed(w, FALSE)
  BY DEF WriteFile
<1>2. vol' \in [Names -> Empty..MaxMints]
  BY <1>1 DEF CertTypeOK, Empty
<1>3. clean' \in [Writers -> BOOLEAN]
  BY <1>1, OneClean
<1>4. \A i \in 1..3 : clean'[w] /\ i <= gen[w].at => vol'[Files[i]] = gen[w].mint
  <2> SUFFICES ASSUME NEW i \in 1..3, clean'[w], i <= gen[w].at
               PROVE  vol'[Files[i]] = gen[w].mint
    OBVIOUS
  <2>1. clean[w] /\ Writing(w)
    BY <1>1, OneClean DEF Writing
  <2>2. CASE i = gen[w].at
    BY <1>1, <2>2 DEF CertTypeOK, File
  <2>3. CASE i < gen[w].at
    <3>1. vol[Files[i]] = gen[w].mint
      BY <2>1, <2>3 DEF CleanPrefix
    <3>2. Files[i] # File(w) /\ Files[i] \in Names
      BY <2>3, FilesAre DEF File
    <3> QED BY <1>1, <3>1, <3>2 DEF CertTypeOK
  <2> QED BY <2>2, <2>3
<1>5. \A x \in Writers : clean'[x] => x = w
  BY <1>1, OneClean
<1>6. CASE gen[w].at < 3
  <2>1. gen' = [gen EXCEPT ![w].pc = "open", ![w].at = @ + 1] /\ UNCHANGED spoiled
    BY <1>6, FilesAre DEF WriteFile
  <2>2. gen' \in [Writers -> Gen]
    BY <1>6, <2>1, FilesAre DEF CertTypeOK, Gen
  <2>3. CertTypeOK'
    BY <1>1, <1>2, <1>3, <2>1, <2>2 DEF CertTypeOK
  <2>4. gen'[w].at = gen[w].at + 1 /\ gen'[w].mint = gen[w].mint /\ gen'[w].pc = "open"
    BY <2>1 DEF CertTypeOK, Gen
  <2>5. MintedWrites'
    BY <1>1, <2>1, <2>4 DEF MintedWrites, CertTypeOK
  <2>6. CleanPrefix'
    BY <1>4, <1>5, <2>4 DEF CleanPrefix
  <2>7. Settled'
    <3>1. Writing(w)'
      BY <2>4 DEF Writing
    <3> QED BY <3>1 DEF Settled
  <2> QED BY <2>3, <2>5, <2>6, <2>7
<1>7. CASE ~(gen[w].at < 3)
  <2>1. gen' = [gen EXCEPT ![w] = Idle] /\ spoiled' = ~clean'[w]
    BY <1>7, FilesAre DEF WriteFile
  <2>2. gen' \in [Writers -> Gen]
    BY <2>1, FilesAre DEF CertTypeOK, Gen, Idle
  <2>3. spoiled' \in BOOLEAN
    BY <2>1
  <2>4. CertTypeOK'
    BY <1>1, <1>2, <1>3, <2>2, <2>3 DEF CertTypeOK
  <2>5. ~Writing(w)'
    BY <2>1 DEF Writing, CertTypeOK, Idle
  <2>6. MintedWrites'
    BY <2>1 DEF MintedWrites, CertTypeOK, Idle
  <2>7. CleanPrefix'
    BY <1>5, <2>5 DEF CleanPrefix
  <2>8. Settled'
    <3>1. CASE ~clean'[w]
      BY <2>1, <3>1 DEF Settled
    <3>2. CASE clean'[w]
      <4>1. gen[w].at = 3 /\ gen[w].mint > 0
        BY <1>1, <1>7 DEF MintedWrites
      <4>2. vol'["ca"] = gen[w].mint /\ vol'["cert"] = gen[w].mint /\ vol'["key"] = gen[w].mint
        BY <1>4, <3>2, <4>1, FilesAre
      <4>3. Sound'
        BY <4>1, <4>2, FilesAre DEF Sound
      <4> QED BY <4>3 DEF Settled
    <3> QED BY <3>1, <3>2
  <2> QED BY <2>4, <2>6, <2>7, <2>8
<1> QED BY <1>6, <1>7

\* A writer that is cut off between its writes is what spoils the directory.
LEMMA CutOffInv == ASSUME CInv, NEW w \in Writers, CutOff(w) PROVE CInv'
<1> USE GenFacts DEF CInv
<1>1. /\ gen' = [gen EXCEPT ![w] = Idle] /\ UNCHANGED <<vol, mints>>
      /\ clean' = [x \in Writers |-> clean[x] /\ ~Writing(w)]
      /\ spoiled' = (spoiled \/ Writing(w))
  BY DEF CutOff
<1>2. gen' \in [Writers -> Gen]
  BY <1>1, FilesAre DEF CertTypeOK, Gen, Idle
<1>3. clean' \in [Writers -> BOOLEAN] /\ spoiled' \in BOOLEAN
  BY <1>1
<1>4. CertTypeOK'
  BY <1>1, <1>2, <1>3 DEF CertTypeOK
<1>5. MintedWrites'
  BY <1>1 DEF MintedWrites, CertTypeOK, Idle
<1>6. \A x \in Writers : Writing(x)' => x # w /\ Writing(x) /\ gen'[x] = gen[x]
  BY <1>1 DEF Writing, CertTypeOK, Idle
<1>7. \A x \in Writers : clean'[x] => clean[x]
  BY <1>1
<1>8. CleanPrefix'
  BY <1>1, <1>6, <1>7 DEF CleanPrefix
<1>9. Settled'
  <2>1. CASE Writing(w)
    BY <1>1, <2>1 DEF Settled
  <2>2. CASE ~Writing(w)
    <3>1. \A x \in Writers : Writing(x) => Writing(x)'
      BY <1>1, <2>2 DEF Writing, CertTypeOK
    <3> QED BY <1>1, <3>1 DEF Settled, Pristine, Sound
  <2> QED BY <2>1, <2>2
<1> QED BY <1>4, <1>5, <1>8, <1>9

\* CInv is inductive.
LEMMA CertStepInv == CInv /\ [CertNext]_certVars => CInv'
<1> SUFFICES ASSUME CInv, [CertNext]_certVars PROVE CInv'
  OBVIOUS
<1>1. CASE UNCHANGED certVars
  BY <1>1 DEF certVars, CInv, CertTypeOK, CleanPrefix, MintedWrites, Settled, Writing,
              Pristine, Sound
<1>2. ASSUME NEW w \in Writers, StartGen(w) \/ GenStep(w) \/ CutOff(w) PROVE CInv'
  BY <1>2, StartInv, ReuseInv, MintInv, TruncateInv, WriteInv, CutOffInv DEF GenStep
<1> QED BY <1>1, <1>2 DEF CertNext

\* For any number of generations, files that do not fit together are left in the
\* directory only by a writer that was cut off between its writes or by writers
\* that overlapped, and by none that a whole undisturbed run followed
\* (certs.Generate, writeMaterial).
THEOREM DamageNeedsAFault == CertSpec => []WedgedByFault
<1>1. CInv => WedgedByFault
  <2> SUFFICES ASSUME CInv, Quiet, ~Pristine, ~Sound PROVE spoiled
    BY DEF WedgedByFault, Wedged
  <2>1. \A w \in Writers : ~Writing(w)
    BY DEF Quiet, Running, Writing
  <2> QED BY <2>1 DEF CInv, Settled
<1> QED BY <1>1, CertInitInv, CertStepInv, PTL DEF CertSpec

\* The directory and its writers keep their types.
THEOREM CertTypeCorrect == CertSpec => []CertTypeOK
<1>1. CInv => CertTypeOK
  BY DEF CInv
<1> QED BY <1>1, CertInitInv, CertStepInv, PTL DEF CertSpec

----------------------------------------------------------------------------
(* The UDP counters.                                                       *)

\* Between two readings nothing came in the way of, the counter has grown by
\* what was counted.
Tracks(mt) == mt.odd \/ rx = mt.prev + mt.since
Honest(mt) == mt.shown.odd \/ mt.shown.delta = mt.shown.since

MInv ==
  /\ MeterTypeOK
  /\ logger.on => Tracks(logger)
  /\ page.prev # 0 => Tracks(page)
  /\ Honest(logger) /\ Honest(page)

\* A subtraction whose result fits into the counter's width is the difference.
LEMMA SubIsDifference ==
  ASSUME NEW cur \in 0..MaxRx, NEW prev \in 0..MaxRx
  PROVE  /\ Sub(cur, prev) \in 0..(Modulus - 1)
         /\ prev <= cur => Sub(cur, prev) = cur - prev
BY MeterAssumption DEF Sub

\* What Report makes of a reading.
LEMMA ReportIs ==
  ASSUME NEW mt \in Meters, NEW cur \in 0..MaxRx, NEW odd \in BOOLEAN
  PROVE  /\ Report(mt, cur, odd) \in Meters
         /\ Report(mt, cur, odd).prev = cur /\ Report(mt, cur, odd).since = 0
         /\ Report(mt, cur, odd).on = mt.on
         /\ Report(mt, cur, odd).odd = FALSE
         /\ Report(mt, cur, odd).shown =
              [delta |-> Sub(cur, mt.prev), since |-> mt.since, odd |-> odd]
<1>1. Sub(cur, mt.prev) \in 0..(Modulus - 1)
  BY SubIsDifference DEF Meters
<1> QED BY <1>1, MeterAssumption DEF Report, Meters

\* A meter starts at zero with nothing to report.
LEMMA MeterIsTyped == Meter \in Meters /\ Honest(Meter) /\ Meter.on = FALSE /\ Meter.prev = 0
BY MeterAssumption DEF Meter, Meters, NoDelta, Honest

\* The first state.
LEMMA MeterInitInv == MeterInit => MInv
<1> SUFFICES ASSUME MeterInit PROVE MInv
  OBVIOUS
<1>1. page \in Meters /\ page.prev = 0 /\ page.shown = Meter.shown
  BY MeterIsTyped DEF MeterInit, Meters
<1> QED BY <1>1, MeterIsTyped, MeterAssumption DEF MeterInit, MInv, MeterTypeOK, Honest

\* A new container: the log starts over and the panel's next delta is excused.
LEMMA NewContainerInv == ASSUME MInv, NewContainer PROVE MInv'
<1>1. page' \in Meters /\ page'.odd = TRUE /\ page'.shown = page.shown
  BY DEF NewContainer, MInv, MeterTypeOK, Meters
<1>2. logger' = Meter /\ rx' = 0
  BY DEF NewContainer
<1> QED BY <1>1, <1>2, MeterIsTyped, MeterAssumption
        DEF MInv, MeterTypeOK, Honest, Tracks

\* The first reading of the log.
LEMMA LoggerStartsInv == ASSUME MInv, LoggerStarts PROVE MInv'
<1>1. logger' \in Meters /\ logger'.prev = rx /\ logger'.since = 0
      /\ logger'.shown = Meter.shown
  BY MeterIsTyped, MeterAssumption DEF LoggerStarts, MInv, MeterTypeOK, Meters, Meter
<1>2. UNCHANGED <<rx, page>>
  BY DEF LoggerStarts
<1> QED BY <1>1, <1>2, MeterIsTyped DEF MInv, MeterTypeOK, Honest, Tracks

\* A datagram is counted by the kernel and in both histories.
LEMMA DatagramInv == ASSUME MInv, Datagram PROVE MInv'
<1>1. /\ rx' = rx + 1 /\ rx < MaxRx
      /\ rx \in 0..MaxRx /\ logger \in Meters /\ page \in Meters
      /\ logger' = [logger EXCEPT !.since = IF logger.on THEN logger.since + 1 ELSE 0]
      /\ page' = [page EXCEPT !.since = IF page.prev # 0 THEN page.since + 1 ELSE 0]
  BY DEF Datagram, MInv, MeterTypeOK
<1>2. /\ logger' \in Meters /\ logger'.on = logger.on /\ logger'.prev = logger.prev
      /\ logger'.odd = logger.odd /\ logger'.shown = logger.shown
      /\ logger.on => logger'.since = logger.since + 1
  BY <1>1 DEF Meters
<1>3. /\ page' \in Meters /\ page'.prev = page.prev
      /\ page'.odd = page.odd /\ page'.shown = page.shown
      /\ page.prev # 0 => page'.since = page.since + 1
  BY <1>1 DEF Meters
<1>4. rx' \in 0..MaxRx
  BY <1>1, MeterAssumption
<1>5. logger'.on => Tracks(logger)'
  BY <1>1, <1>2 DEF MInv, Tracks, Meters
<1>6. page'.prev # 0 => Tracks(page)'
  BY <1>1, <1>3 DEF MInv, Tracks, Meters
<1> QED BY <1>2, <1>3, <1>4, <1>5, <1>6 DEF MInv, MeterTypeOK, Honest

\* A tick of the log; one that could not read excuses itself and the next.
LEMMA LogTickInv == ASSUME MInv, NEW ok \in BOOLEAN, LogTick(ok) PROVE MInv'
<1> DEFINE cur == Reading(ok)
           odd == logger.odd \/ ~ok
           rep == Report(logger, cur, odd)
<1>1. /\ logger.on /\ UNCHANGED <<rx, page>> /\ logger' = [rep EXCEPT !.odd = ~ok]
      /\ rx \in 0..MaxRx /\ logger \in Meters
  BY DEF LogTick, MInv, MeterTypeOK
<1>2. cur \in 0..MaxRx /\ odd \in BOOLEAN /\ (~ok) \in BOOLEAN
  BY <1>1, MeterAssumption DEF Reading
<1>3. /\ rep \in Meters /\ rep.prev = cur /\ rep.since = 0
      /\ rep.shown = [delta |-> Sub(cur, logger.prev), since |-> logger.since, odd |-> odd]
  BY <1>1, <1>2, ReportIs, ZenonT(30)
<1> HIDE DEF cur, odd, rep
<1>4. /\ logger' \in Meters /\ logger'.prev = cur /\ logger'.since = 0
      /\ logger'.odd = ~ok /\ logger'.shown = rep.shown
  BY <1>1, <1>2, <1>3 DEF Meters
<1>5. Tracks(logger)'
  <2>1. CASE ok
    <3>1. rx' = rx /\ logger'.prev = rx /\ logger'.since = 0 /\ rx \in Int
      BY <1>1, <1>4, <2>1, MeterAssumption DEF cur, Reading
    <3>2. rx' = logger'.prev + logger'.since
      BY <3>1
    <3> QED BY <3>2 DEF Tracks
  <2>2. CASE ~ok
    BY <1>4, <2>2 DEF Tracks
  <2> QED BY <2>1, <2>2
<1>6. Honest(logger)'
  <2>1. CASE odd
    BY <1>3, <1>4, <2>1 DEF Honest
  <2>2. CASE ~odd
    <3>1. cur = rx /\ rx = logger.prev + logger.since
      BY <1>1, <2>2 DEF MInv, Tracks, odd, cur, Reading
    <3>2. Sub(cur, logger.prev) = logger.since
      BY <1>1, <1>2, <3>1, SubIsDifference DEF Meters
    <3> QED BY <1>3, <1>4, <3>2 DEF Honest
  <2> QED BY <2>1, <2>2
<1> QED BY <1>1, <1>4, <1>5, <1>6 DEF MInv, MeterTypeOK, Honest, Tracks

\* A poll of the panel.
LEMMA PollInv == ASSUME MInv, Poll PROVE MInv'
<1>1. UNCHANGED <<rx, logger>> /\ rx \in 0..MaxRx /\ page \in Meters
  BY DEF Poll, MInv, MeterTypeOK
<1>2. CASE page.prev = 0
  <2>1. /\ page' \in Meters /\ page'.prev = rx /\ page'.since = 0
        /\ page'.shown = page.shown
    BY <1>1, <1>2 DEF Poll, Meters
  <2> QED BY <1>1, <2>1 DEF MInv, MeterTypeOK, Honest, Tracks
<1>3. CASE page.prev # 0
  <2>1. page' = Report(page, rx, page.odd) /\ page.odd \in BOOLEAN
    BY <1>1, <1>3 DEF Poll, Meters
  <2>2. /\ page' \in Meters /\ page'.prev = rx /\ page'.since = 0
        /\ page'.shown =
             [delta |-> Sub(rx, page.prev), since |-> page.since, odd |-> page.odd]
    BY <1>1, <2>1, ReportIs
  <2>3. Honest(page)'
    <3>1. CASE page.odd
      BY <2>2, <3>1 DEF Honest
    <3>2. CASE ~page.odd
      <4>1. rx = page.prev + page.since
        BY <1>3, <3>2 DEF MInv, Tracks
      <4>2. Sub(rx, page.prev) = page.since
        BY <1>1, <4>1, SubIsDifference DEF Meters
      <4> QED BY <2>2, <4>2 DEF Honest
    <3> QED BY <3>1, <3>2
  <2> QED BY <1>1, <2>2, <2>3 DEF MInv, MeterTypeOK, Honest, Tracks
<1> QED BY <1>2, <1>3

\* MInv is inductive.
LEMMA MeterStepInv == MInv /\ [MeterNext]_meterVars => MInv'
<1> SUFFICES ASSUME MInv, [MeterNext]_meterVars PROVE MInv'
  OBVIOUS
<1>1. CASE UNCHANGED meterVars
  BY <1>1 DEF meterVars, MInv, MeterTypeOK, Honest, Tracks
<1>2. CASE MeterNext
  BY <1>2, NewContainerInv, LoggerStartsInv, DatagramInv, LogTickInv, PollInv DEF MeterNext
<1> QED BY <1>1, <1>2

\* For counters of any width, what the edge's log and the panel report is what
\* was counted, unless a reading failed or the container was replaced
\* (logUDPCounters, publishUDPDelta).
THEOREM DeltasAreHonest == MeterSpec => []DeltasHonest
<1>1. MInv => DeltasHonest
  BY DEF MInv, DeltasHonest, Honest
<1> QED BY <1>1, MeterInitInv, MeterStepInv, PTL DEF MeterSpec

----------------------------------------------------------------------------
(* The lab.                                                                *)

\* Whatever the lab does is a step of the writers or none.
LEMMA LabStepsAreCertSteps == [LabNext]_labVars => [CertNext]_certVars
<1> SUFFICES ASSUME [LabNext]_labVars PROVE CertNext \/ UNCHANGED certVars
  OBVIOUS
<1> USE DEF Writers
<1>1. CASE UNCHANGED labVars
  BY <1>1 DEF labVars
<1>2. ASSUME NEW q \in Requests, HandleRequest(q) PROVE UNCHANGED certVars
  BY <1>2 DEF HandleRequest
<1>3. CASE PanelProbes \/ ShellProbes \/ ProbeMoves
  BY <1>3 DEF PanelProbes, ShellProbes, ProbeMoves
<1>4. CASE ComposeStops \/ ComposeStarts
  BY <1>4 DEF ComposeStops, ComposeStarts
<1>5. CASE ComposeRunsCerts \/ OperatorForces
  BY <1>5 DEF ComposeRunsCerts, OperatorForces, CertNext
<1>6. ASSUME NEW w \in Writers, GenFails(w) \/ GenMoves(w) PROVE CertNext
  BY <1>6 DEF GenFails, GenMoves, CertNext
<1>7. CASE EdgeMoves \/ EdgeFaults \/ LocalMoves \/ MetersMove
  BY <1>7 DEF EdgeMoves, EdgeFaults, LocalMoves, MetersMove
<1> QED BY <1>1, <1>2, <1>3, <1>4, <1>5, <1>6, <1>7 DEF LabNext

\* The lab, with its containers, its panel and its operator, implements the
\* specification of the certificate directory alone.
THEOREM LabUsesCertVolume == LabSpec => CertSpec
<1>1. LabInit => CertInit
  BY DEF LabInit
<1> QED BY <1>1, LabStepsAreCertSteps, PTL DEF LabSpec, CertSpec

\* In the lab, too, only a writer cut off between its writes or writers that
\* overlapped leave certificates that do not fit together.
THEOREM LabDamageNeedsAFault == LabSpec => []WedgedByFault
BY LabUsesCertVolume, DamageNeedsAFault, PTL

\* Whatever the lab does is a step of the counters and their readers or none.
LEMMA LabStepsAreMeterSteps == [LabNext]_labVars => [MeterNext]_meterVars
<1> SUFFICES ASSUME [LabNext]_labVars PROVE MeterNext \/ UNCHANGED meterVars
  OBVIOUS
<1>1. CASE UNCHANGED labVars
  BY <1>1 DEF labVars
<1>2. ASSUME NEW q \in Requests, HandleRequest(q) PROVE UNCHANGED meterVars
  BY <1>2 DEF HandleRequest
<1>3. CASE PanelProbes \/ ShellProbes \/ ProbeMoves
  BY <1>3 DEF PanelProbes, ShellProbes, ProbeMoves
<1>4. CASE ComposeStops \/ ComposeRunsCerts \/ OperatorForces
  BY <1>4 DEF ComposeStops, ComposeRunsCerts, OperatorForces
<1>5. CASE ComposeStarts
  BY <1>5 DEF ComposeStarts, MeterNext
<1>6. ASSUME NEW w \in Writers, GenFails(w) \/ GenMoves(w) PROVE UNCHANGED meterVars
  BY <1>6 DEF GenFails, GenMoves
<1>7. CASE EdgeMoves \/ EdgeFaults \/ LocalMoves
  BY <1>7 DEF EdgeMoves, EdgeFaults, LocalMoves
<1>8. CASE MetersMove
  BY <1>8 DEF MetersMove, MeterNext
<1> QED BY <1>1, <1>2, <1>3, <1>4, <1>5, <1>6, <1>7, <1>8 DEF LabNext

\* The counters of the lab's edge, through its restarts, and their readers
\* implement UdpMeters; so what is reported in the lab is what was counted.
THEOREM LabReportsHonestly == LabSpec => MeterSpec /\ []DeltasHonest
<1>1. LabInit => MeterInit
  BY DEF LabInit
<1>2. LabSpec => MeterSpec
  BY <1>1, LabStepsAreMeterSteps, PTL DEF LabSpec, MeterSpec
<1> QED BY <1>2, DeltasAreHonest, PTL
----------------------------------------------------------------------------
(* The requests of the panel.                                              *)

\* The command of a request to run a tool is refused only for a gap between
\* planRun and the tool's own flags.
LEMMA RefusedRun ==
  ASSUME NEW q \in RunReq, RunAccepted(q), ~RunStarts(PlanRun(q))
  PROVE  Gap(q)
<1>1. /\ q.api = "run" /\ q.rps \in Int /\ q.conns \in Int
      /\ q.localCerts \in BOOLEAN /\ q.insecure \in BOOLEAN
      /\ q.tool \in {"blast", "probe", "curl", "chrome"}
  BY DEF RunReq, RunAccepted, ValidateRunRequest
<1> DEFINE a == PlanRun(q)
<1>2. /\ a.tool = q.tool /\ a.duration = q.duration
      /\ a.warmup = (IF q.warmup = "zero" THEN "" ELSE q.warmup)
      /\ a.certs = (q.localCerts /\ ~Scripted(q))
      /\ a.mode = (IF q.mode = "open" THEN "open" ELSE "closed")
      /\ a.rps = (IF q.rps > 0 THEN q.rps ELSE 0)
      /\ a.conns = Clamp(q.conns, 1, 64)
  BY DEF PlanRun
<1>3. Clamp(q.conns, 1, 64) >= 1
  BY <1>1 DEF Clamp
<1> HIDE DEF a
<1>4. CASE q.tool = "probe"
  <2>1. a.certs
    BY <1>2, <1>4 DEF RunStarts, a
  <2> QED
    BY <1>1, <1>2, <1>4, <2>1 DEF Gap
<1>5. CASE q.tool = "blast"
  <2>1. ~(/\ ParsesDuration(a.duration) /\ ParsesDuration(a.warmup)
          /\ a.mode \in {"closed", "open"}
          /\ a.mode = "open" => a.rps > 0
          /\ a.conns >= 1)
    BY <1>2, <1>5 DEF RunStarts, a
  <2>2. a.conns >= 1 /\ a.mode \in {"closed", "open"}
    BY <1>2, <1>3
  <2>3. CASE ~(ParsesDuration(a.duration) /\ ParsesDuration(a.warmup))
    BY <1>1, <1>2, <1>5, <2>3 DEF ParsesDuration, Gap
  <2>4. CASE a.mode = "open" /\ ~(a.rps > 0)
    <3>1. q.mode = "open"
      BY <1>2, <2>4
    <3>2. CASE q.rps > 0
      BY <1>2, <2>4, <3>2
    <3>3. CASE ~(q.rps > 0)
      BY <1>1, <1>5, <3>1, <3>3 DEF Gap
    <3> QED
      BY <3>2, <3>3
  <2> QED
    BY <2>1, <2>2, <2>3, <2>4
<1>6. CASE q.tool \notin {"probe", "blast"}
  BY <1>2, <1>6 DEF RunStarts, a
<1> QED
  BY <1>4, <1>5, <1>6

\* Values that are left out or all alike, put one after the other.
LEMMA AllOfOne ==
  ASSUME NEW u, NEW x, NEW y, NEW z, NEW v, v = (x \o y) \o z,
         x = <<u>>, y \in {<<>>, <<u>>}, z \in {<<>>, <<u>>}
  PROVE  Len(v) \in Nat /\ Len(v) >= 1 /\ v[1] = u /\ (Len(v) >= 2 => v[2] = u)
<1> DEFINE S == {u}
<1>1. <<u>> \in Seq(S) /\ Len(<<u>>) = 1 /\ <<>> \in Seq(S)
  OBVIOUS
<1>2. x \in Seq(S) /\ Len(x) = 1 /\ y \in Seq(S) /\ z \in Seq(S)
  BY <1>1
<1> HIDE DEF S
<1>3. x \o y \in Seq(S) /\ Len(x \o y) = 1 + Len(y) /\ Len(y) \in Nat /\ Len(z) \in Nat
  BY <1>2, ConcatProperties, LenProperties
<1>4. v \in Seq(S) /\ Len(v) = 1 + Len(y) + Len(z)
  BY <1>2, <1>3, ConcatProperties
<1>5. Len(v) \in Nat /\ Len(v) >= 1
  BY <1>3, <1>4
<1>6. \A i \in 1..Len(v) : v[i] \in S
  BY <1>4, ElementOfSeq
<1>7. v[1] = u /\ (Len(v) >= 2 => v[2] = u)
  BY <1>5, <1>6 DEF S
<1> QED
  BY <1>5, <1>7

\* So is an impairment, for one between buildImpairCommand and impair.sh.
LEMMA RefusedImpair ==
  ASSUME NEW q \in ImpairReq, ImpairAccepted(q), ~ImpairStarts(q)
  PROVE  Gap(q)
<1>0. SUFFICES ASSUME q.service # "origin", q.a = UnitOf[q.mode],
                    {q.b, q.burst} \subseteq {"", UnitOf[q.mode]}
             PROVE  FALSE
  BY DEF Gap, ImpairReq
<1>1. q.mode # "clear" /\ q.mode \in {"loss", "delay", "rate", "reorder"}
  BY DEF ImpairStarts, ImpairAccepted
<1> DEFINE u == UnitOf[q.mode]
           v == ImpairArgs(q)
<1>2. u # ""
  <2>1. /\ UnitOf["loss"] = "%" /\ UnitOf["reorder"] = "%"
        /\ UnitOf["delay"] = "ms" /\ UnitOf["rate"] = "mbit"
    BY DEF UnitOf
  <2> QED
    BY <1>1, <2>1
<1> DEFINE x == Given(q.a)
           y == Given(q.b)
           z == Given(q.burst)
<1>3. x = <<u>> /\ y \in {<<>>, <<u>>} /\ z \in {<<>>, <<u>>}
  BY <1>0, <1>2 DEF Given
<1>4. v = (x \o y) \o z
  BY DEF ImpairArgs
<1> HIDE DEF u, v, x, y, z
<1>5. Len(v) \in Nat /\ Len(v) >= 1 /\ v[1] = u /\ (Len(v) >= 2 => v[2] = u)
  BY <1>3, <1>4, AllOfOne
<1> QED
  BY <1>0, <1>5 DEF ImpairStarts, u, v

\* And so is an operation on the stack.
LEMMA RefusedStack ==
  ASSUME NEW q \in StackReq, ~StackStarts(q)
  PROVE  Gap(q)
BY DEF StackReq, StackStarts, ParsesDuration, Gap

\* Whatever the panel accepts and its command refuses has a gap.
LEMMA RefusedHasGap ==
  ASSUME NEW q \in Requests, Accepted(q), ~Starts(q)
  PROVE  Gap(q)
<1>1. CASE q \in RunReq
  <2>1. q.api = "run"
    BY <1>1 DEF RunReq
  <2>2. RunAccepted(q) /\ ~RunStarts(PlanRun(q))
    BY <2>1 DEF Accepted, Starts
  <2> QED
    BY <1>1, <2>2, RefusedRun
<1>2. CASE q \in ImpairReq
  <2>1. q.api = "impair"
    BY <1>2 DEF ImpairReq
  <2>2. ImpairAccepted(q) /\ ~ImpairStarts(q)
    BY <2>1 DEF Accepted, Starts
  <2> QED
    BY <1>2, <2>2, RefusedImpair
<1>3. CASE q \in StackReq
  <2>1. q.api = "stack"
    BY <1>3 DEF StackReq
  <2>2. ~StackStarts(q)
    BY <2>1 DEF Starts
  <2> QED
    BY <1>3, <2>2, RefusedStack
<1> QED
  BY <1>1, <1>2, <1>3, RequestAssumption

\* A command under way is that of a request the panel accepted.
PanelInv ==
  /\ panel = [st |-> panel.st, req |-> panel.req, exit |-> panel.exit]
  /\ panel.st # "free" => panel.req \in Requests /\ Accepted(panel.req)
  /\ AcceptedIsRunnable

\* The end of a command.
LEMMA DoneInv ==
  ASSUME NEW q, NEW exit, panel' = Done(q, exit),
         exit = "usage" => q \in Requests /\ Accepted(q) /\ ~Starts(q)
  PROVE  PanelInv'
<1>1. /\ panel'.st = "free" /\ panel'.exit = exit
      /\ panel'.req = IF exit = "usage" THEN q ELSE NoRequest
      /\ panel' = [st |-> panel'.st, req |-> panel'.req, exit |-> panel'.exit]
  BY DEF Done
<1>2. exit = "usage" => Gap(q)
  BY RefusedHasGap
<1>3. AcceptedIsRunnable'
  BY <1>1, <1>2 DEF AcceptedIsRunnable, Gap
<1> QED
  BY <1>1, <1>3 DEF PanelInv

\* A command that goes on to its next step.
LEMMA GoesOnInv ==
  ASSUME PanelInv, panel.st # "free", NEW st, panel' = [panel EXCEPT !.st = st]
  PROVE  PanelInv'
<1>1. /\ panel'.req = panel.req /\ panel'.exit = panel.exit
      /\ panel' = [st |-> panel'.st, req |-> panel'.req, exit |-> panel'.exit]
  BY DEF PanelInv
<1>2. AcceptedIsRunnable'
  BY <1>1 DEF PanelInv, AcceptedIsRunnable, Gap
<1> QED
  BY <1>1, <1>2 DEF PanelInv, Accepted

\* PanelInv is inductive.
LEMMA PanelStepInv == PanelInv /\ [LabNext]_labVars => PanelInv'
<1> SUFFICES ASSUME PanelInv, [LabNext]_labVars PROVE PanelInv'
  OBVIOUS
<1>1. CASE UNCHANGED panel
  BY <1>1 DEF PanelInv, AcceptedIsRunnable, Gap, Accepted
<1>2. ASSUME NEW q \in Requests, HandleRequest(q) PROVE PanelInv'
  <2>1. CASE Accepted(q) /\ Takes(q)
    <3>1. panel' = [st |-> "started", req |-> q, exit |-> "none"]
      BY <1>2, <2>1 DEF HandleRequest
    <3> QED
      BY <2>1, <3>1 DEF PanelInv, AcceptedIsRunnable
  <2>2. CASE ~(Accepted(q) /\ Takes(q))
    <3>1. panel' = Done(q, ExitOf(q))
      BY <1>2, <2>2 DEF HandleRequest
    <3>2. ExitOf(q) = "usage" => Accepted(q) /\ ~Starts(q)
      BY DEF ExitOf
    <3> QED
      BY <3>1, <3>2, DoneInv
  <2> QED
    BY <2>1, <2>2
<1>3. ASSUME NEW exit, Finish(exit), exit = "usage" => panel.st # "free" /\ ~Starts(Req)
      PROVE  PanelInv'
  <2>1. exit = "usage" => Req \in Requests /\ Accepted(Req)
    BY <1>3 DEF PanelInv, Req
  <2> QED
    BY <1>3, <2>1, DoneInv DEF Finish, Req
<1>4. CASE PanelProbes
  BY <1>4, GoesOnInv DEF PanelProbes
<1>5. CASE ShellProbes
  BY <1>1, <1>5 DEF ShellProbes
<1>6. CASE ProbeMoves
  BY <1>1, <1>3, <1>6 DEF ProbeMoves
<1>7. CASE ComposeStops
  BY <1>3, <1>7 DEF ComposeStops
<1>8. CASE ComposeRunsCerts
  BY <1>8, GoesOnInv DEF ComposeRunsCerts
<1>9. CASE ComposeStarts
  <2>1. panel.st # "free" /\ Finish(IF Starts(Req) THEN "ran" ELSE "usage")
    BY <1>9 DEF ComposeStarts
  <2> QED
    BY <1>3, <2>1
<1>10. ASSUME NEW w \in Writers, GenFails(w) \/ GenMoves(w) PROVE PanelInv'
  BY <1>1, <1>3, <1>10 DEF GenFails, GenMoves
<1>11. CASE EdgeMoves \/ EdgeFaults \/ LocalMoves \/ OperatorForces \/ MetersMove
  BY <1>1, <1>11 DEF EdgeMoves, EdgeFaults, LocalMoves, OperatorForces, MetersMove
<1> QED
  BY <1>1, <1>2, <1>4, <1>5, <1>6, <1>7, <1>8, <1>9, <1>10, <1>11 DEF LabNext, labVars

\* Whatever is posted to the panel, a command it starts is refused by its own
\* flags or arguments in the named cases alone (planRun, buildImpairCommand,
\* stackCommand against the flag sets, blast's validate and impair.sh).
THEOREM PanelChecksSuffice == LabSpec => []AcceptedIsRunnable
<1>1. LabInit => PanelInv
  BY DEF LabInit, PanelInv, AcceptedIsRunnable
<1>2. PanelInv => AcceptedIsRunnable
  BY DEF PanelInv
<1> QED
  BY <1>1, <1>2, PanelStepInv, PTL DEF LabSpec
----------------------------------------------------------------------------
(* The probe.                                                              *)

Verdicts == {"none", "works", "blocked here", "unreachable", "not enabled", "path"}
Probes ==
  [pc : {"none", "tcp", "http", "h3", "control", "done"}, insecure : BOOLEAN,
   asked : BOOLEAN, blocked : BOOLEAN, known : BOOLEAN, tcp : BOOLEAN, alt : BOOLEAN,
   h3 : BOOLEAN, verdict : Verdicts, steady : BOOLEAN]

\* What a probe of an edge that has served all along knows before its verdict:
\* the steps over TCP went well if and only if it skips the verification, and the
\* control is asked because the step over HTTP/3 could not go well.
Learnt(p) ==
  /\ p.pc = "tcp" => p.alt = FALSE
  /\ p.pc = "http" => p.alt = FALSE /\ p.tcp = TRUE
  /\ p.steady /\ p.pc = "http" => p.insecure
  /\ p.steady /\ p.pc \in {"h3", "control"} => p.tcp = p.insecure /\ p.alt = p.insecure
  /\ p.steady /\ p.pc = "control" => p.asked /\ (~p.insecure \/ p.blocked)

ProbeInv ==
  /\ probe \in Probes
  /\ probe.steady => Serving(edge)
  /\ Learnt(probe)
  /\ SteadyVerdict

\* The edge changes under the probe.
LEMMA WatchedInv == ASSUME ProbeInv, Watched PROVE ProbeInv'
<1> DEFINE q == [probe EXCEPT !.steady = probe.steady /\ Serving(edge')]
<1>1. probe' = q
  BY DEF Watched
<1>2. /\ q \in Probes /\ q.steady = (probe.steady /\ Serving(edge'))
      /\ q.pc = probe.pc /\ q.insecure = probe.insecure /\ q.asked = probe.asked
      /\ q.blocked = probe.blocked /\ q.known = probe.known /\ q.tcp = probe.tcp
      /\ q.alt = probe.alt /\ q.h3 = probe.h3 /\ q.verdict = probe.verdict
  BY DEF ProbeInv, Probes
<1> HIDE DEF q
<1>3. Learnt(q)
  BY <1>2 DEF ProbeInv, Learnt
<1>4. SteadyVerdict'
  BY <1>1, <1>2 DEF ProbeInv, SteadyVerdict, TrueVerdict
<1> QED
  BY <1>1, <1>2, <1>3, <1>4 DEF ProbeInv, Serving

\* A probe starts with nothing learnt.
LEMMA ProbeStartsInv ==
  ASSUME NEW insecure \in BOOLEAN, NEW asked \in BOOLEAN, NEW blocked \in BOOLEAN,
         NEW known \in BOOLEAN, ProbeStarts(insecure, asked, blocked, known),
         UNCHANGED edge
  PROVE  ProbeInv'
<1>1. probe' = [pc |-> "tcp", insecure |-> insecure, asked |-> asked, blocked |-> blocked,
                known |-> known, tcp |-> FALSE, alt |-> FALSE, h3 |-> FALSE,
                verdict |-> "none", steady |-> Serving(edge)]
  BY DEF ProbeStarts, NoProbe
<1>2. Serving(edge) \in BOOLEAN
  BY DEF Serving
<1>3. probe' \in Probes
  BY <1>1, <1>2 DEF Probes, Verdicts
<1>4. probe'.pc = "tcp" /\ probe'.alt = FALSE /\ probe'.steady = Serving(edge)
  BY <1>1
<1> QED
  BY <1>3, <1>4 DEF ProbeInv, Learnt, SteadyVerdict, Serving

\* The steps over TCP.
LEMMA ProbeTcpInv ==
  ASSUME ProbeInv, NEW late \in BOOLEAN, ProbeDial(late) \/ ProbeHTTP(late), UNCHANGED edge
  PROVE  ProbeInv'
<1> DEFINE st == probe.steady /\ ~late
<1>1. CASE ProbeDial(late)
  <2> DEFINE ok == edge.tcp = "up" /\ probe.insecure /\ ~late
  <2>1. probe.pc = "tcp" /\ probe \in Probes /\ ok \in BOOLEAN /\ st \in BOOLEAN
    BY <1>1 DEF ProbeDial, ProbeInv
  <2>2. probe' = [probe EXCEPT !.tcp = ok, !.pc = IF ok THEN "http" ELSE "h3", !.steady = st]
    BY <1>1 DEF ProbeDial
  <2>3. st => ok = probe.insecure
    BY <2>1 DEF ProbeInv, Serving, Probes
  <2> HIDE DEF ok, st
  <2>4. /\ probe' \in Probes /\ probe'.steady = st /\ probe'.tcp = ok
        /\ probe'.pc = (IF ok THEN "http" ELSE "h3") /\ probe'.alt = probe.alt
        /\ probe'.insecure = probe.insecure
    BY <2>1, <2>2 DEF Probes
  <2>5. Learnt(probe)'
    BY <2>1, <2>3, <2>4 DEF ProbeInv, Learnt, Probes
  <2>6. probe'.pc # "done" /\ (st => probe.steady)
    BY <2>4 DEF st
  <2> QED
    BY <2>4, <2>5, <2>6 DEF ProbeInv, SteadyVerdict, Serving
<1>2. CASE ProbeHTTP(late)
  <2> DEFINE ok == edge.tcp = "up" /\ ~late
             alt == ok /\ edge.h3 = "up"
  <2>1. probe.pc = "http" /\ probe \in Probes /\ ok \in BOOLEAN /\ alt \in BOOLEAN
        /\ st \in BOOLEAN
    BY <1>2 DEF ProbeHTTP, ProbeInv
  <2>2. probe' = [probe EXCEPT !.tcp = ok, !.alt = alt, !.pc = "h3", !.steady = st]
    BY <1>2 DEF ProbeHTTP
  <2>3. st => ok = probe.insecure /\ alt = probe.insecure
    BY <2>1 DEF ProbeInv, Serving, Probes, Learnt
  <2> HIDE DEF ok, alt, st
  <2>4. /\ probe' \in Probes /\ probe'.steady = st /\ probe'.tcp = ok
        /\ probe'.pc = "h3" /\ probe'.alt = alt
        /\ probe'.insecure = probe.insecure
    BY <2>1, <2>2, ZenonT(30) DEF Probes
  <2>5. Learnt(probe)'
    BY <2>1, <2>3, <2>4 DEF Learnt
  <2>6. probe'.pc # "done" /\ (st => probe.steady)
    BY <2>4 DEF st
  <2> QED
    BY <2>4, <2>5, <2>6 DEF ProbeInv, SteadyVerdict, Serving
<1> QED
  BY <1>1, <1>2

\* The fields of a probe that has ended.
LEMMA EndedIs ==
  ASSUME probe \in Probes, NEW h3 \in BOOLEAN, NEW tested \in BOOLEAN,
         NEW control \in BOOLEAN, NEW st \in BOOLEAN,
         probe' = [Ended(h3, tested, control) EXCEPT !.steady = st]
  PROVE  /\ probe' \in Probes /\ probe'.steady = st /\ probe'.pc = "done"
         /\ probe'.verdict = VerdictOf(probe.tcp, h3, probe.alt, tested, control)
         /\ probe'.insecure = probe.insecure /\ probe'.asked = probe.asked
         /\ probe'.blocked = probe.blocked /\ probe'.known = probe.known
<1> DEFINE v == VerdictOf(probe.tcp, h3, probe.alt, tested, control)
<1>1. v \in Verdicts
  BY DEF VerdictOf, Verdicts
<1> HIDE DEF v
<1>2. Ended(h3, tested, control) = [probe EXCEPT !.pc = "done", !.h3 = h3, !.verdict = v]
  BY DEF Ended, v
<1>3. probe' = [[probe EXCEPT !.pc = "done", !.h3 = h3, !.verdict = v] EXCEPT !.steady = st]
  BY <1>2
<1> QED
  BY <1>1, <1>3 DEF Probes, v

\* The step over HTTP/3.
LEMMA ProbeH3Inv ==
  ASSUME ProbeInv, NEW late \in BOOLEAN, ProbeH3(late), UNCHANGED edge
  PROVE  ProbeInv'
<1> DEFINE st == probe.steady /\ ~late
           ok == edge.h3 = "up" /\ probe.insecure /\ ~probe.blocked /\ ~late
<1>1. /\ probe.pc = "h3" /\ probe \in Probes /\ ok \in BOOLEAN /\ st \in BOOLEAN
      /\ st => probe.steady
  BY DEF ProbeH3, ProbeInv
<1>2. st => /\ ok = (probe.insecure /\ ~probe.blocked)
            /\ probe.tcp = probe.insecure /\ probe.alt = probe.insecure
  BY <1>1 DEF ProbeInv, Serving, Learnt, Probes
<1>3. probe' = [IF probe.asked /\ ~ok THEN [probe EXCEPT !.pc = "control"]
                                      ELSE Ended(ok, FALSE, TRUE)
                EXCEPT !.steady = (IF probe.asked /\ ~ok THEN [probe EXCEPT !.pc = "control"]
                                      ELSE Ended(ok, FALSE, TRUE)).steady /\ ~late]
  BY DEF ProbeH3
<1> HIDE DEF ok
<1>4. CASE probe.asked /\ ~ok
  <2>1. [probe EXCEPT !.pc = "control"].steady = probe.steady
    BY <1>1 DEF Probes
  <2>2. probe' = [[probe EXCEPT !.pc = "control"] EXCEPT !.steady = st]
    BY <1>3, <1>4, <2>1
  <2> HIDE DEF st
  <2>3. /\ probe' \in Probes /\ probe'.steady = st /\ probe'.tcp = probe.tcp
        /\ probe'.pc = "control" /\ probe'.alt = probe.alt /\ probe'.asked = probe.asked
        /\ probe'.insecure = probe.insecure /\ probe'.blocked = probe.blocked
    BY <1>1, <2>2 DEF Probes
  <2>4. Learnt(probe)'
    BY <1>1, <1>2, <1>4, <2>3 DEF Learnt, Probes
  <2> QED
    BY <1>1, <2>3, <2>4 DEF ProbeInv, SteadyVerdict, Serving
<1>5. CASE ~(probe.asked /\ ~ok)
  <2>1. Ended(ok, FALSE, TRUE).steady = probe.steady
    BY <1>1 DEF Probes, Ended
  <2>2. probe' = [Ended(ok, FALSE, TRUE) EXCEPT !.steady = st]
    BY <1>3, <1>5, <2>1
  <2> HIDE DEF st
  <2>3. /\ probe' \in Probes /\ probe'.steady = st /\ probe'.pc = "done"
        /\ probe'.verdict = VerdictOf(probe.tcp, ok, probe.alt, FALSE, TRUE)
        /\ probe'.insecure = probe.insecure /\ probe'.asked = probe.asked
        /\ probe'.blocked = probe.blocked /\ probe'.known = probe.known
    BY <1>1, <2>2, EndedIs
  <2>4. st => probe'.verdict = TrueVerdict'
    <3> SUFFICES ASSUME st PROVE probe'.verdict = TrueVerdict'
      OBVIOUS
    <3>1. TrueVerdict' = IF probe.insecure /\ ~probe.blocked THEN "works"
                         ELSE IF probe.asked /\ (probe.blocked \/ ~probe.known)
                         THEN "blocked here"
                         ELSE IF probe.insecure THEN "path" ELSE "unreachable"
      BY <2>3 DEF TrueVerdict
    <3>2. /\ probe.insecure \in BOOLEAN /\ probe.blocked \in BOOLEAN
          /\ probe.tcp \in BOOLEAN /\ probe.alt \in BOOLEAN /\ probe.asked \in BOOLEAN
      BY <1>1 DEF Probes
    <3>3. probe'.verdict =
            IF ok THEN "works" ELSE IF ~probe.tcp THEN "unreachable"
            ELSE IF ~probe.alt THEN "not enabled" ELSE "path"
      BY <2>3 DEF VerdictOf
    <3>4. CASE probe.insecure
      BY <1>2, <1>5, <3>1, <3>2, <3>3, <3>4
    <3>5. CASE ~probe.insecure
      BY <1>2, <1>5, <3>1, <3>2, <3>3, <3>5
    <3> QED
      BY <3>4, <3>5
  <2> QED
    BY <1>1, <2>3, <2>4 DEF ProbeInv, SteadyVerdict, Serving, Learnt
<1> QED
  BY <1>4, <1>5

\* The step to the control endpoint.
LEMMA ProbeControlInv ==
  ASSUME ProbeInv, NEW late \in BOOLEAN, ProbeControl(late), UNCHANGED edge
  PROVE  ProbeInv'
<1> DEFINE st == probe.steady /\ ~late
           ok == probe.known /\ ~probe.blocked /\ ~late
<1>1. /\ probe.pc = "control" /\ probe \in Probes /\ ok \in BOOLEAN /\ st \in BOOLEAN
      /\ st => probe.steady
  BY DEF ProbeControl, ProbeInv
<1>2. st => /\ ok = (probe.known /\ ~probe.blocked)
            /\ probe.tcp = probe.insecure /\ probe.alt = probe.insecure
            /\ probe.asked /\ (~probe.insecure \/ probe.blocked)
  BY <1>1 DEF ProbeInv, Learnt, Probes
<1>3. Ended(FALSE, TRUE, ok).steady = probe.steady
  BY <1>1 DEF Probes, Ended
<1>4. probe' = [Ended(FALSE, TRUE, ok) EXCEPT !.steady = st]
  BY <1>3 DEF ProbeControl
<1> HIDE DEF st, ok
<1>5. /\ probe' \in Probes /\ probe'.steady = st /\ probe'.pc = "done"
      /\ probe'.verdict = VerdictOf(probe.tcp, FALSE, probe.alt, TRUE, ok)
      /\ probe'.insecure = probe.insecure /\ probe'.asked = probe.asked
      /\ probe'.blocked = probe.blocked /\ probe'.known = probe.known
  BY <1>1, <1>4, EndedIs
<1>6. st => probe'.verdict = TrueVerdict'
  <2> SUFFICES ASSUME st PROVE probe'.verdict = TrueVerdict'
    OBVIOUS
  <2>1. TrueVerdict' = IF probe.insecure /\ ~probe.blocked THEN "works"
                       ELSE IF probe.asked /\ (probe.blocked \/ ~probe.known) THEN "blocked here"
                       ELSE IF probe.insecure THEN "path" ELSE "unreachable"
    BY <1>5 DEF TrueVerdict
  <2>2. probe'.verdict =
          IF ~ok THEN "blocked here" ELSE IF ~probe.tcp THEN "unreachable"
          ELSE IF ~probe.alt THEN "not enabled" ELSE "path"
    BY <1>5 DEF VerdictOf
  <2> QED
    BY <1>2, <2>1, <2>2
<1> QED
  BY <1>1, <1>5, <1>6 DEF ProbeInv, SteadyVerdict, Serving, Learnt

\* ProbeInv is inductive.
LEMMA ProbeStepInv == ProbeInv /\ [LabNext]_labVars => ProbeInv'
<1> SUFFICES ASSUME ProbeInv, [LabNext]_labVars PROVE ProbeInv'
  OBVIOUS
<1>1. CASE UNCHANGED <<probe, edge>>
  BY <1>1 DEF ProbeInv, Learnt, SteadyVerdict, TrueVerdict, Serving
<1>2. ASSUME NEW q \in Requests, HandleRequest(q) PROVE ProbeInv'
  BY <1>1, <1>2 DEF HandleRequest, edgeVars
<1>3. CASE PanelProbes
  <2>1. PICK blocked \in BOOLEAN, known \in BOOLEAN :
          ProbeStarts(PlanRun(Req).insecure, TRUE, blocked, known)
    BY <1>3 DEF PanelProbes
  <2>2. PlanRun(Req).insecure \in BOOLEAN /\ UNCHANGED edge
    BY <1>3 DEF PanelProbes, edgeVars, PlanRun
  <2> QED
    BY <2>1, <2>2, ProbeStartsInv
<1>4. CASE ShellProbes
  BY <1>4, ProbeStartsInv DEF ShellProbes, edgeVars
<1>5. CASE ProbeMoves
  <2>1. UNCHANGED edge /\ ProbeStep
    BY <1>5 DEF ProbeMoves, edgeVars
  <2> QED
    BY <2>1, ProbeTcpInv, ProbeH3Inv, ProbeControlInv DEF ProbeStep
<1>6. CASE ComposeStops \/ ComposeStarts \/ EdgeMoves \/ EdgeFaults \/ LocalMoves
  BY <1>6, WatchedInv DEF ComposeStops, ComposeStarts, EdgeMoves, EdgeFaults, LocalMoves
<1>7. CASE ComposeRunsCerts \/ OperatorForces \/ MetersMove
  BY <1>1, <1>7 DEF ComposeRunsCerts, OperatorForces, MetersMove, edgeVars
<1>8. ASSUME NEW w \in Writers, GenFails(w) \/ GenMoves(w) PROVE ProbeInv'
  BY <1>1, <1>8 DEF GenFails, GenMoves, edgeVars
<1>9. CASE UNCHANGED labVars
  BY <1>1, <1>9 DEF labVars, edgeVars
<1> QED
  BY <1>2, <1>3, <1>4, <1>5, <1>6, <1>7, <1>8, <1>9 DEF LabNext

\* However the edge starts, fails and stops around a probe, its verdict on an edge
\* that served all the while is the one its own side of the path deserves
\* (probe.Main, verdict).
THEOREM SteadyProbesAreRight == LabSpec => []SteadyVerdict
<1>1. LabInit => ProbeInv
  <2> SUFFICES ASSUME LabInit PROVE ProbeInv
    OBVIOUS
  <2>1. probe = NoProbe
    BY DEF LabInit
  <2>2. probe \in Probes /\ probe.pc = "none" /\ probe.steady = FALSE
    BY <2>1 DEF NoProbe, Probes, Verdicts
  <2> QED
    BY <2>2 DEF ProbeInv, Learnt, SteadyVerdict
<1>2. ProbeInv => SteadyVerdict
  BY DEF ProbeInv
<1> QED
  BY <1>1, <1>2, ProbeStepInv, PTL DEF LabSpec
=============================================================================
