------------------------- MODULE MirrorSignatures -------------------------
(***************************************************************************)
(* The signatures _build_protocol_db() of tools/test_harness/classifier.py *)
(* returns, in its order.  Units as in SignatureDatabase: band edges in    *)
(* 10 kHz, bandwidths in Hz, symbol rates in quarters of a symbol per      *)
(* second; <<0, 0>> is a missing range.  Underscores stand for the blanks  *)
(* and brackets of a name.                                                 *)
(***************************************************************************)
EXTENDS Integers, Sequences

\* One dict; `needs` holds its keys burst, ofdm, fhss, dsss, chirp.
MirrorSig(name, bands, mods, bw, sr, needs) ==
    [name |-> name, bands |-> bands, mods |-> mods, bw |-> bw, sr |-> sr, needs |-> needs]

MirrorBroadcast == <<
    MirrorSig("AM_Broadcast", {<<52, 171>>}, {"AM_DSB_LC"}, <<9000, 10000>>, <<0, 0>>, {}),
    MirrorSig("FM_Broadcast", {<<8750, 10800>>}, {"FM_WB"}, <<130000, 300000>>, <<0, 0>>, {}),
    MirrorSig("HD_Radio", {<<8750, 10800>>}, {"OFDM"}, <<300000, 500000>>, <<0, 0>>, {"ofdm"}),
    MirrorSig("DAB/DAB+", {<<17400, 24000>>, <<145200, 149200>>}, {"OFDM"}, <<1400000, 1600000>>, <<0, 0>>, {"ofdm"}),
    MirrorSig("DRM", {<<300, 3000>>}, {"OFDM"}, <<9000, 18000>>, <<0, 0>>, {"ofdm"}) >>

MirrorAviation == <<
    MirrorSig("VHF_Airband_AM", {<<11800, 13700>>}, {"AM_DSB_LC"}, <<6000, 30000>>, <<0, 0>>, {}),
    MirrorSig("ADS-B", {<<108900, 109100>>}, {}, <<1500000, 4000000>>, <<0, 0>>, {"burst"}),
    MirrorSig("ACARS", {<<12900, 13700>>}, {"AM_DSB_LC"}, <<1500, 3000>>, <<4800, 9600>>, {"burst"}),
    MirrorSig("VOR/ILS", {<<10800, 11800>>}, {"AM_DSB_LC"}, <<0, 0>>, <<0, 0>>, {}) >>

MirrorMarine == <<
    MirrorSig("AIS", {<<16190, 16210>>}, {"MSK/GMSK", "FSK"}, <<20000, 30000>>, <<32000, 48000>>, {"burst"}),
    MirrorSig("Marine_VHF_FM", {<<15600, 17400>>}, {"FM_NB"}, <<10000, 25000>>, <<0, 0>>, {}),
    MirrorSig("DSC", {<<15650, 15655>>}, {"FSK"}, <<800, 1500>>, <<2400, 9600>>, {}) >>

MirrorAmateur == <<
    MirrorSig("APRS", {<<14430, 14450>>, <<14470, 14490>>},
        {"FSK", "MSK/GMSK"}, <<10000, 20000>>, <<3200, 6400>>, {"burst"}),
    MirrorSig("FT8", {<<357, 358>>, <<707, 708>>, <<1407, 1408>>, <<2107, 2108>>, <<2807, 2808>>},
        {"FSK"}, <<40, 80>>, <<12, 40>>, {"burst"}),
    MirrorSig("WSPR", {<<1409, 1410>>, <<1014, 1015>>}, {"FSK"}, <<3, 10>>, <<0, 0>>, {}),
    MirrorSig("PSK31", {<<1407, 1408>>}, {"BPSK"}, <<20, 60>>, <<80, 180>>, {}),
    MirrorSig("RTTY", {<<300, 3000>>}, {"FSK"}, <<0, 0>>, <<160, 600>>, {}),
    MirrorSig("D-STAR", {<<14400, 14800>>, <<43000, 44000>>},
        {"MSK/GMSK", "FSK"}, <<5000, 8000>>, <<14000, 20000>>, {}) >>

MirrorPublicSafety == <<
    MirrorSig("P25_Phase_I", {<<13600, 17400>>, <<38000, 51200>>, <<76300, 87000>>},
        {"QPSK", "FSK"}, <<10000, 15000>>, <<16000, 20000>>, {}),
    MirrorSig("TETRA", {<<38000, 40000>>, <<41000, 43000>>, <<45000, 47000>>},
        {"QPSK"}, <<22000, 28000>>, <<68000, 76000>>, {"burst"}),
    MirrorSig("DMR", {<<13600, 17400>>, <<40300, 52700>>, <<76200, 87000>>},
        {"FSK", "QPSK"}, <<10000, 13000>>, <<16000, 22000>>, {"burst"}),
    MirrorSig("MPT1327", {<<13800, 17400>>, <<45000, 47000>>}, {"FSK"}, <<10000, 25000>>, <<4000, 6000>>, {}) >>

MirrorCellular == <<
    MirrorSig("GSM", {<<85000, 89400>>, <<88000, 96000>>, <<171000, 188000>>, <<185000, 199000>>},
        {"MSK/GMSK", "FSK"}, <<180000, 220000>>, <<1000000, 1160000>>, {"burst"}),
    MirrorSig("UMTS/WCDMA", {<<85000, 90000>>, <<170000, 220000>>},
        {"QPSK"}, <<4000000, 6000000>>, <<0, 0>>, {"dsss"}),
    MirrorSig("LTE", {<<70000, 90000>>, <<170000, 220000>>, <<250000, 270000>>},
        {"OFDM"}, <<1400000, 20000000>>, <<0, 0>>, {"ofdm"}),
    MirrorSig("5G_NR", {<<60000, 90000>>, <<240000, 270000>>, <<330000, 380000>>, <<2400000, 2950000>>},
        {"OFDM"}, <<0, 0>>, <<0, 0>>, {"ofdm"}) >>

MirrorIsm == <<
    MirrorSig("Wi-Fi_2.4_GHz", {<<240000, 248400>>}, {"OFDM"}, <<18000000, 22000000>>, <<0, 0>>, {"burst", "ofdm"}),
    MirrorSig("Wi-Fi_5_GHz", {<<515000, 585000>>}, {"OFDM"}, <<18000000, 82000000>>, <<0, 0>>, {"burst", "ofdm"}),
    MirrorSig("Bluetooth_Classic", {<<240000, 248400>>}, {"FSK", "QPSK"}, <<700000, 1200000>>, <<0, 0>>, {"fhss"}),
    MirrorSig("Bluetooth_LE", {<<240000, 248400>>}, {"FSK", "MSK/GMSK"}, <<1500000, 2500000>>, <<0, 0>>, {"burst"}),
    MirrorSig("Zigbee_802.15.4", {<<240000, 248400>>, <<86800, 86900>>, <<90200, 92800>>},
        {}, <<1500000, 2500000>>, <<800000, 1200000>>, {"burst"}),
    MirrorSig("LoRa", {<<43300, 43500>>, <<86800, 87000>>, <<91500, 91600>>},
        {"CSS"}, <<100000, 550000>>, <<0, 0>>, {"burst"}),
    MirrorSig("Z-Wave", {<<86830, 86850>>, <<90840, 90850>>}, {"FSK"}, <<150000, 250000>>, <<40000, 400000>>, {}),
    MirrorSig("TPMS", {<<31500, 31600>>, <<43380, 43400>>},
        {"FSK", "M-ASK/OOK"}, <<10000, 80000>>, <<60000, 160000>>, {"burst"}),
    MirrorSig("Key_Fob_Remote", {<<31500, 31600>>, <<43380, 43400>>, <<86800, 87000>>, <<91500, 91600>>},
        {"M-ASK/OOK", "FSK"}, <<5000, 50000>>, <<0, 0>>, {"burst"}),
    MirrorSig("ANT+", {<<245000, 246000>>}, {"FSK"}, <<500000, 1500000>>, <<0, 0>>, {}) >>

MirrorSatellite == <<
    MirrorSig("GPS_L1_C/A", {<<157530, 157550>>}, {"BPSK"}, <<1000000, 3000000>>, <<0, 0>>, {}),
    MirrorSig("NOAA_APT", {<<13700, 13800>>}, {"FM_NB", "FM_WB"}, <<30000, 38000>>, <<8000, 11200>>, {}),
    MirrorSig("Meteor_LRPT", {<<13700, 13750>>}, {"QPSK"}, <<100000, 150000>>, <<280000, 360000>>, {}),
    MirrorSig("Iridium", {<<161600, 162650>>}, {"QPSK"}, <<25000, 40000>>, <<0, 0>>, {"burst"}),
    MirrorSig("Inmarsat_AERO", {<<152500, 155900>>}, {"BPSK", "QPSK"}, <<8000, 12000>>, <<0, 0>>, {}) >>

MirrorRadar == <<
    MirrorSig("FMCW_Radar", {}, {"CSS"}, <<0, 0>>, <<0, 0>>, {"chirp"}),
    MirrorSig("Pulse_Radar", {}, {}, <<500000, 50000000>>, <<0, 0>>, {"burst"}),
    MirrorSig("Weather_Radar_WSR-88D", {<<270000, 290000>>}, {}, <<0, 0>>, <<0, 0>>, {"burst"}) >>

\* _db
MirrorDb ==
    MirrorBroadcast \o MirrorAviation \o MirrorMarine \o MirrorAmateur \o MirrorPublicSafety \o
    MirrorCellular \o MirrorIsm \o MirrorSatellite \o MirrorRadar

=============================================================================
