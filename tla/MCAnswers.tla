----------------------------- MODULE MCAnswers -----------------------------
(* Instances of Answers for TLC. *)
EXTENDS Answers

Line(current, permanent, temporary) ==
    [current |-> current, permanent |-> permanent, temporary |-> temporary]

\* Not solved; 50 %; 200 %, or 100 % of its temporary limit; no limit.
MCLineData == {Line(Missing, 2, Missing), Line(1, 2, Missing), Line(4, 2, 4), Line(3, 0, Missing)}

Current(value, limit) == [limit_type |-> "CURRENT", value |-> value, limit |-> limit]
LowVoltage == [limit_type |-> "LOW_VOLTAGE", value |-> 1, limit |-> 2]

\* Harmless; one overload; a voltage problem and the worst overload; two overloads
\* that share their loading, beside limits that mean none.
MCElementData ==
    {[sides |-> <<1, 2>>, violations |-> <<>>],
     [sides |-> <<2, 0>>, violations |-> <<Current(5, 4)>>],
     [sides |-> <<1, 1>>, violations |-> <<LowVoltage, Current(4, 2)>>],
     [sides |-> <<2, 2>>, violations |-> <<Current(3, 0), Current(3, 2), Current(6, Dummy + 1),
                                           Current(6, 4)>>]}
=============================================================================
