---------------------------- MODULE MCPaidLedger ----------------------------
\* One event; two bundles that pass the gates and one that does not.
EXTENDS PaidLedger
CONSTANTS e1, a, b, x, r1, r2
MCEvents == {e1}
MCContents == {a, b, x}
MCGood == {a, b}
MCCalls == {r1, r2}
=============================================================================
