-------------------------- MODULE MC_StorageServer --------------------------
EXTENDS StorageServer, TLC

CONSTANTS f1, f2, t0, t1, e1, g1, g2

MCOneFile == {f1}
MCTwoFiles == {f1, f2}
MCTexts == {t0, t1}
MCEditTexts == {e1}
MCTags == {g1, g2}
=============================================================================
