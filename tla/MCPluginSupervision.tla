-------------------------- MODULE MCPluginSupervision --------------------------
EXTENDS PluginSupervision

CONSTANTS c1, c2, sup, g1, g2, g3, nothing

OneCaller == {c1}
TwoCallers == {c1, c2}
TwoGens == {g1, g2}
ThreeGens == {g1, g2, g3}
=============================================================================
