------------------------------ MODULE FireAction -------------------------------
(* agents/fire/sub/action.py: what the fire domain makes of a request for a *)
(* change.  Beside the fields of ElecAction a request has `move`: {} or the *)
(* vector that a number and a direction of its text make.                   *)
EXTENDS ElecAction
LOCAL INSTANCE Sequences
LOCAL INSTANCE SequencesExt

\* A text that speaks of a layer or of a selection needs a selection; one that
\* names the layer is answered without a prompt.
FireLayerFix(req) == SelectedLayerFix(req)

\* A move is meant for every element of the drawing when nothing is selected.
Shifted(req, subject) ==
    {[i \in DOMAIN subject |-> For(subject[i], "MOVE", <<[type |-> "MOVE", delta |-> d]>>)] : d \in req.move}
FireAnalyzeAndFix(req, list) ==
    FirstAnswer(FireLayerFix(req), Subject(req, list), Shifted(req, Subject(req, list)), req.fixes)
==============================================================================
