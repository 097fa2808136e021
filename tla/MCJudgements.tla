---------------------------- MODULE MCJudgements ----------------------------
EXTENDS Judgements

MCEvents == {429, 410, 200}
MCSamples == {0, 1, 5}
MCPercents == {0, 500, 505, 990, 995, 999, 1000}
MCItems == {"a", "b", "c"}
MCScenarios == {"101", "T-301"}
MCSdks == {"python 1", "java 1"}
=============================================================================
