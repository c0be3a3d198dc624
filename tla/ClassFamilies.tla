--------------------------- MODULE ClassFamilies ---------------------------
(***************************************************************************)
(* The 47 modulation classes of the classifier and the coarse family each  *)
(* belongs to (tools/ml/family_map.py).  The families are the labels of    *)
(* the auxiliary training loss and the routes of the hierarchical chain.   *)
(***************************************************************************)
EXTENDS Integers, Sequences, FiniteSets

\* CLASS_FAMILY, turned around: the classes of each family.
FamilyMembers == [
    QAM      |-> {"QAM16", "QAM32", "QAM64", "QAM256"},
    PSK      |-> {"BPSK", "QPSK", "8PSK", "16PSK", "32PSK", "PSK31"},
    ASK      |-> {"4ASK", "16ASK", "OOK"},
    FSK      |-> {"FSK", "GFSK", "GMSK", "MSK", "4FSK", "8FSK", "RTTY", "NAVTEX", "DSC",
                  "MDC_1200", "FLEX", "POCSAG", "P25_C4FM", "P25_PHASE2", "DMR", "NXDN",
                  "DSTAR", "TETRA"},
    PROTOCOL |-> {"ACARS", "ADS_B", "AIS", "VDL2", "EAS_SAME", "DTMF"},
    AM       |-> {"AM_DSB", "AM_DSB_SC", "AM_SSB_LSB", "AM_SSB_USB"},
    FM       |-> {"FM_NB", "FM_WB"},
    SPECIAL  |-> {"OFDM", "CSS", "LFM", "TONE"}]

\* FAMILY_NAMES: sorted, so that a family's index is its rank.
FamilyNames == <<"AM", "ASK", "FM", "FSK", "PROTOCOL", "PSK", "QAM", "SPECIAL">>

MappedClasses == UNION {FamilyMembers[f] : f \in DOMAIN FamilyMembers}

\* CLASS_FAMILY.get(c, ""), then FAMILY_INDEX.get(..., -1): zero-based.
FamilyIndex(c) ==
    IF c \in MappedClasses
    THEN (CHOOSE i \in DOMAIN FamilyNames : c \in FamilyMembers[FamilyNames[i]]) - 1
    ELSE -1

=============================================================================
