---------------------------- MODULE MCAnalytics ----------------------------
(* Tables for the analytics endpoints.                                      *)
EXTENDS Analytics

CONSTANTS a1, a2, a3

\* The ledger of an application that was created in w[1] on the day d[1] and
\* reached w[k] on the day d[k].
LedgerOf(w, d) ==
  [k \in 1 .. Len(w) |-> [from |-> IF k = 1 THEN None ELSE w[k - 1], to |-> w[k], at |-> d[k]]]

Made(w, d, status, source) ==
  [ stage |-> w[Len(w)], status |-> status, source |-> source, month |-> d[Len(w)],
    ledger |-> LedgerOf(w, d) ]

\* Up to three applications in any stages.
Fresh == { Made(<<s>>, <<0>>, "ACTIVE", "LINKEDIN") : s \in Stages }

\* Applications that have come some way, and one whose two last ledger rows
\* were written by overlapping requests.
Travelled ==
  { Made(<<"SAVED", "APPLIED", "SCREENING", "INTERVIEW">>, d, status, "OTHER") :
      d \in {<<0, 1, 1, 2>>, <<0, 1, 3, 4>>, <<1, 1, 2, 5>>, <<0, 2, 2, 2>>},
      status \in {"ACTIVE", "ARCHIVED"} }
  \cup { Made(<<"APPLIED", "INTERVIEW", "INTERVIEW", "OFFER", "REJECTED">>, <<0, 1, 2, 4, 5>>, "ACTIVE", "LINKEDIN") }
  \cup { [ stage |-> "OFFER", status |-> "ACTIVE", source |-> "LINKEDIN", month |-> 1,
           ledger |-> LedgerOf(<<"INTERVIEW", "REJECTED">>, <<0, 1>>)
                        \o <<[from |-> "INTERVIEW", to |-> "OFFER", at |-> 2]>> ] }

MCPortfolios ==
  { [a \in Apps |-> CASE a = a1 -> x [] a = a2 -> y [] OTHER -> z] :
      x, y \in Travelled \cup {None}, z \in {None, Made(<<"SAVED">>, <<0>>, "ACTIVE", "OTHER")} }
  \cup [Apps -> Fresh]
=============================================================================
