------------------------------ MODULE MCScoring ------------------------------
(* The artifact scorecard-v1.2, with requests on and between its edges.     *)
EXTENDS Scoring

Infinity == 1000000000
NoLo == -Infinity

MCFeatures == <<"dpd30_plus_last_12m", "monthly_income", "age", "enquiries_last_3m">>
MCCoefficient ==
    [dpd30_plus_last_12m |-> -9597, monthly_income |-> -7442, age |-> -452,
     enquiries_last_3m |-> -7660]

MCIntercept == -25932

BinsOf(edges, woe) ==
    [n \in DOMAIN woe |-> [lo |-> IF n = 1 THEN NoLo ELSE edges[n - 1],
                           hi |-> IF n = Len(woe) THEN Infinity ELSE edges[n], woe |-> woe[n]]]

MCBins ==
    [dpd30_plus_last_12m |-> BinsOf(<<1000>>, <<4110, -15282>>),
     monthly_income |->
         BinsOf(<<29193000, 36902000, 42771500, 47928500, 53022875, 65569625>>,
                <<-4642, -2349, -1435, -378, 859, 2752, 5674>>),
     age |-> BinsOf(<<25000, 29000, 32000, 35000, 38000, 41000, 45000>>,
                    <<-3216, -1217, -998, -170, 488, 1272, 2039, 4333>>),
     enquiries_last_3m |-> BinsOf(<<1000, 2000>>, <<1286, -993, -4001>>)]

Number(x) == [is |-> "number", number |-> x]
NotANumber == [is |-> "nan"]
Text == [is |-> "text"]
Absent == [is |-> "missing"]

Applicants ==
    [dpd30_plus_last_12m : {Number(0), Number(1000), Number(2000)},
     monthly_income : {Number(29192000), Number(29193000), Number(36902000), Number(42772000),
                       Number(47929000), Number(53023000), Number(65570000)},
     age : {Number(1000 * y) : y \in {21, 25, 29, 32, 35, 38, 41, 45}},
     enquiries_last_3m : {Number(0), Number(1000), Number(2000), Number(5000)}]

Plain == [dpd30_plus_last_12m |-> Number(0), monthly_income |-> Number(30000000),
          age |-> Number(30000), enquiries_last_3m |-> Number(0)]

MCRequests ==
    [version : {"none"}, value : Applicants, challengerFields : {TRUE}]
    \union [version : {"none"}, challengerFields : {FALSE},
            value : {[Plain EXCEPT ![f] = v] : f \in DOMAIN Plain,
                                               v \in {NotANumber, Text, Absent}}]
    \union [version : {"scorecard-v1.2", "scorecard-v1.1"}, value : {Plain},
            challengerFields : {FALSE}]

\* The bins are as the theorem about their edges needs them, and so is the floor
\* of 555 for the one about prices.
ASSUME BinsAssumption == BinsMeet
ASSUME FloorAssumption == FloorLeavesRoom
=============================================================================
