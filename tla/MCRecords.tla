------------------------------ MODULE MCRecords ------------------------------
(* Instances of Records for TLC.  a1 wants a personal loan and turns 20 on  *)
(* the second day; a2 wants a business loan above the ceiling of replay.    *)
EXTENDS Records

CONSTANTS a1, a2

MCProduct == [a \in Applications |-> IF a = a1 THEN "PL" ELSE "BL"]
MCSameProduct == [a \in Applications |-> "PL"]
MCBureaus == [a \in Applications |-> IF a = a1 THEN {"full", "degraded"} ELSE {"full"}]
MCFirstDay == [year |-> 20, day |-> 0]
MCDob == [a \in Applications |-> [year |-> 0, day |-> IF a = a1 THEN 1 ELSE 0]]
MCProductCeilings == [PL |-> 2000, BL |-> 5000]
MCPolicyProduct == [v \in PolicyVersions |-> IF v = "BL1" THEN "BL" ELSE "PL"]

\* BUREAU data missing costs points, and the second model is the stricter one.
MCScoreOf(m, a, age, bureau) ==
    CASE m = 1 /\ bureau = "full" -> [score |-> 700, riskGrade |-> "A1", reasonCodes |-> {"income"}]
      [] m = 1 /\ bureau = "degraded" -> [score |-> 600, riskGrade |-> "C1", reasonCodes |-> {"enquiries"}]
      [] m = 2 /\ bureau = "full" -> [score |-> 640, riskGrade |-> "B1", reasonCodes |-> {"income"}]
      [] OTHER -> [score |-> 500, riskGrade |-> "D", reasonCodes |-> {"enquiries"}]

\* PL1: AGE_MIN, then a referral without bureau; PL2: a score floor; BL1 only refers.
MCEvaluate(v, a, age, bureau, score) ==
    CASE v = "PL1" /\ age < 20 -> [outcome |-> "DECLINE", reasonCodes |-> {"AGE_MIN"}]
      [] v = "PL2" /\ score < 650 -> [outcome |-> "DECLINE", reasonCodes |-> {"SCORE_FLOOR"}]
      [] v # "PL2" /\ bureau = "degraded" -> [outcome |-> "REFER", reasonCodes |-> {"NO_BUREAU"}]
      [] OTHER -> [outcome |-> "APPROVE", reasonCodes |-> {}]

MCLimit(a, grade, ceiling) == Min({ceiling, IF a = a1 THEN 1500 ELSE 4000})
MCRate(grade) == CASE grade = "A1" -> 1400 [] grade = "B1" -> 1550 [] OTHER -> 1750
=============================================================================
