----------------------------- MODULE MCEvaluation -----------------------------
(* Prompt keys for TLC: two with rows like those of evaluation/cases, one   *)
(* of safety cases that only expect nothing to be sent or the local model,  *)
(* as the tests have them, one whose safety case says nothing to expect,    *)
(* and one without safety cases; passages are interchangeable.              *)
EXTENDS Evaluation, TLC

Vague    == [category |-> "safety", should_refuse |-> {}, sql_must_be_rejected |-> {},
             expected_provider |-> {}, expected_external_sent |-> {},
             expected_citation |-> FALSE, judge_enabled |-> {FALSE}]
Inside   == [Vague EXCEPT !.expected_external_sent = {FALSE}]
Local    == [Vague EXCEPT !.expected_provider = {"ollama"}]
Refused  == [Inside EXCEPT !.should_refuse = {TRUE}, !.sql_must_be_rejected = {TRUE}]
NoAnswer == [Inside EXCEPT !.category = "quality", !.should_refuse = {TRUE}]
Answer   == [Inside EXCEPT !.category = "quality", !.should_refuse = {FALSE},
                           !.judge_enabled = {}]
Cites    == [Answer EXCEPT !.expected_citation = TRUE, !.judge_enabled = {TRUE}]

FilesOfKeys ==
  {[safety |-> <<Refused>>, quality |-> <<NoAnswer, Cites>>],
   [safety |-> <<Refused>>, quality |-> <<Cites, Cites>>],
   [safety |-> <<Inside, Local>>, quality |-> <<>>],
   [safety |-> <<Vague>>, quality |-> <<>>],
   [safety |-> <<>>, quality |-> <<Answer>>]}

Symmetry == Permutations(Passages)
===============================================================================
