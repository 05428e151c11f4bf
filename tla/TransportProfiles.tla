------------------------- MODULE TransportProfiles -------------------------
(***************************************************************************)
(* The optical profiles a transfer is sent with, the checks a profile must  *)
(* pass, and how a frame becomes a symbol on the screen: which QR version   *)
(* holds it, and whether the room the view gives it leaves every module a   *)
(* whole pixel.                                                            *)
(*                                                                         *)
(* Fractions are kept as whole numbers: rates and ratios in thousandths,    *)
(* camera pixels per module in tenths, device pixels per CSS pixel in       *)
(* hundredths.  Every profile is ECC L, so capacities are those of L.       *)
(***************************************************************************)
EXTENDS FramesV2

QuietZone == 4
MaxVersion == 40
MinBudget == 160
MaxBudget == 480

\* QR_BYTE_CAPACITY at ECC L, by version.
Capacity ==
  <<  17,   32,   53,   78,  106,  134,  154,  192,  230,  271,
     321,  367,  425,  458,  520,  586,  644,  718,  792,  858,
     929, 1003, 1091, 1171, 1273, 1367, 1465, 1528, 1628, 1732,
    1840, 1952, 2068, 2188, 2303, 2431, 2563, 2699, 2809, 2953>>

TotalModules(version) == 4 * version + 17 + 2 * QuietZone

\* smallestVersionFor(): 0 when no version holds so many bytes.
SmallestVersionFor(bytes) ==
  LET holding == {v \in 1..MaxVersion : Capacity[v] >= bytes}
  IN  IF holding = {} THEN 0 ELSE CHOOSE v \in holding : \A w \in holding : v <= w

(***************************************************************************)
(* The profiles.                                                           *)
(***************************************************************************)
SymbolsPerSegment == 2048

Profile(id, version, symbol, fps, hold, repair, loss, density, selectable) ==
  [id |-> id, version |-> version, symbolSize |-> symbol,
   segmentSize |-> symbol * SymbolsPerSegment, fps |-> fps, hold |-> hold,
   repair |-> repair, loss |-> loss, density |-> density, selectable |-> selectable]

Reliable     == Profile(1, 10,  239, 10, 100, 1000, 300, 25, TRUE)
Balanced     == Profile(2, 18,  686, 12,  83,  750, 200, 40, TRUE)
Turbo        == Profile(3, 24, 1139, 15,  66,  750, 200, 50, TRUE)
Experimental == Profile(4, 32, 1920, 20,  50,  750, 200, 50, FALSE)

Profiles == {Reliable, Balanced, Turbo, Experimental}

\* transportProfileById() and resolveTransportProfile(): an id that names no
\* profile, or one not to be selected, opens the default.
ResolveProfile(id) ==
  IF \E p \in Profiles : p.id = id /\ p.selectable
  THEN CHOOSE p \in Profiles : p.id = id
  ELSE Balanced

\* MEASURED_REPAIR_OVERHEAD, and the line between its points; rounded up.
RepairPoints == <<<<0, 0>>, <<10, 460>>, <<50, 710>>, <<100, 710>>, <<200, 720>>, <<300, 940>>>>

RequiredRepair(loss) ==
  LET i == CHOOSE k \in 2..Len(RepairPoints) :
             RepairPoints[k - 1][1] <= loss /\ loss <= RepairPoints[k][1]
      low == RepairPoints[i - 1]
      high == RepairPoints[i]
  IN  low[2] + CeilDiv((loss - low[1]) * (high[2] - low[2]), high[1] - low[1])

\* validateTransportProfile(): configFromProfile() refuses one with any of these.
ProfileViolations(p) ==
     Check(p.symbolSize + DataOverhead > Capacity[p.version], "frame over capacity")
  \o Check(p.symbolSize \notin MinSymbol..MaxSymbol, "symbol size")
  \o Check(p.segmentSize \notin MinSegment..MaxSegment, "segment size")
  \o Check(p.segmentSize % p.symbolSize # 0, "symbols not whole")
  \o Check(p.segmentSize \div p.symbolSize < 1024, "too few symbols")
  \o Check(p.fps \notin 1..120 \/ p.hold <= 0, "cadence")
  \o Check(p.repair \notin 0..4000, "repair ratio")
  \o Check(p.loss > 300, "loss not measured")
  \o Check(p.loss <= 300 /\ p.repair < RequiredRepair(p.loss), "repair too small")

(***************************************************************************)
(* The views.  A session of a profile is drawn by the view its grid calls   *)
(* for: one code in the room the window leaves, or two or four codes in a   *)
(* fixed room each, at the profile's version and at one device pixel a CSS  *)
(* pixel whatever the display has.                                         *)
(***************************************************************************)
\* ADAPTIVE_PROFILES, by the id a session was opened with.
Grid(id) == CASE id = 2 -> 2 [] id = 3 -> 4 [] OTHER -> 1

ChooseBudget(room) ==
  CASE room <= 0 -> MaxBudget
    [] room \in 1..MinBudget -> MinBudget
    [] room \in MinBudget..MaxBudget -> room
    [] OTHER -> MaxBudget

\* planQrGeometry(): device pixels a module gets; below one it throws.
ModuleScale(version, budget, ratio) == (budget * ratio) \div (100 * TotalModules(version))

\* resolveQrRenderPlan() and the paint that follows: a frame is drawn when a
\* version holds it and every module of that version gets a whole pixel.
Drawn(version, bytes, budget, ratio) ==
  /\ version \in 1..MaxVersion
  /\ bytes <= Capacity[version]
  /\ ModuleScale(version, budget, ratio) >= 1

\* One of the views drawing a frame in a window.
DrawnBy(profile, bytes, window) ==
  CASE Grid(profile.id) = 1 ->
         Drawn(SmallestVersionFor(bytes), bytes, ChooseBudget(window.room), window.ratio)
    [] Grid(profile.id) = 2 -> Drawn(profile.version, bytes, 220, 100)
    [] Grid(profile.id) = 4 -> Drawn(profile.version, bytes, 110, 100)
=============================================================================
