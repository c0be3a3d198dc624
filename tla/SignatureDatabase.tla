------------------------- MODULE SignatureDatabase -------------------------
(***************************************************************************)
(* The signatures ProtocolMapper::buildDatabase() loads.  Band edges are   *)
(* in units of 10 kHz, bandwidths in Hz, symbol rates in quarters of a     *)
(* symbol per second (6.25 sps is 25), so that every entry is an integer.  *)
(* The category is left out: nothing decides on it.  A name has an         *)
(* underscore for each blank.                                              *)
(***************************************************************************)
EXTENDS Integers

\* struct Signature; `needs` holds the flags of the entry that are true:
\* burst_required, burst_forbidden, ofdm_required, fhss_required.
Sig(name, bands, mods, bw, sr, needs) ==
    [name |-> name, bands |-> bands, mods |-> mods, bw |-> bw, sr |-> sr, needs |-> needs]

Broadcast == {
    Sig("AM_Broadcast", {<<52, 171>>}, {"AM_DSB_LC"}, <<9000, 10000>>, <<0, 0>>, {}),
    Sig("FM_Broadcast", {<<8750, 10800>>}, {"FM_WB"}, <<100000, 250000>>, <<0, 0>>, {"continuous"}),
    Sig("HD_Radio", {<<8750, 10800>>}, {"OFDM"}, <<300000, 500000>>, <<0, 0>>, {"ofdm"}),
    Sig("DAB", {<<17400, 24000>>, <<145200, 149200>>}, {"OFDM"}, <<1000000, 2000000>>, <<0, 0>>, {"ofdm"}),
    Sig("DRM", {<<300, 3000>>}, {"OFDM"}, <<5000, 15000>>, <<0, 0>>, {"ofdm"}) }

Aviation == {
    Sig("VHF_Airband", {<<11800, 13700>>}, {"AM_DSB_LC"}, <<6000, 30000>>, <<0, 0>>, {}),
    Sig("ADS-B", {<<108900, 109100>>}, {}, <<2000000, 4000000>>, <<0, 0>>, {"burst"}),
    Sig("ACARS", {<<12900, 13000>>, <<13680, 13700>>}, {"AM_DSB_LC"}, <<1500, 3500>>, <<0, 0>>, {"burst"}),
    Sig("VOR", {<<10800, 11800>>}, {"AM_DSB_LC", "CW"}, <<8000, 50000>>, <<0, 0>>, {}) }

Marine == {
    Sig("AIS", {<<16190, 16210>>}, {"GMSK", "FSK"}, <<20000, 30000>>, <<38400, 38400>>, {"burst"}),
    Sig("Marine_VHF", {<<15600, 17400>>}, {"FM_NB"}, <<10000, 30000>>, <<0, 0>>, {}),
    Sig("DSC", {<<15650, 15660>>}, {"FSK"}, <<800, 1600>>, <<4800, 4800>>, {"burst"}) }

Amateur == {
    Sig("APRS", {<<14430, 14450>>, <<14470, 14490>>}, {"FSK", "GMSK"}, <<10000, 25000>>, <<4800, 4800>>, {"burst"}),
    Sig("FT8", {<<357, 358>>, <<707, 708>>, <<1407, 1408>>}, {"FSK"}, <<30, 80>>, <<25, 25>>, {}),
    Sig("WSPR", {<<1409, 1410>>, <<1013, 1015>>}, {"FSK"}, <<1, 12>>, <<0, 0>>, {}),
    Sig("PSK31", {<<1406, 1408>>}, {"BPSK"}, <<20, 50>>, <<125, 125>>, {}),
    Sig("RTTY", {<<300, 3000>>}, {"FSK"}, <<200, 500>>, <<180, 440>>, {}),
    Sig("D-STAR", {<<14400, 14800>>, <<43000, 44000>>}, {"GMSK"}, <<4000, 8000>>, <<19200, 19200>>, {}),
    Sig("DMR_Amateur", {<<14400, 14800>>, <<43000, 44000>>}, {"FSK", "QAM16"}, <<10000, 15000>>, <<19200, 19200>>, {"burst"}),
    Sig("P25", {<<13600, 17400>>, <<38000, 51200>>, <<76300, 87000>>}, {"QPSK", "QAM16"}, <<6000, 13000>>, <<19200, 38400>>, {}) }

PublicSafety == {
    Sig("TETRA", {<<38000, 40000>>, <<41000, 43000>>, <<45000, 47000>>}, {"QPSK"}, <<20000, 30000>>, <<144000, 144000>>, {"burst"}),
    Sig("DMR_Tier_II", {<<13600, 17400>>, <<40300, 52700>>, <<76200, 87000>>}, {"FSK", "GMSK"}, <<10000, 15000>>, <<19200, 19200>>, {"burst"}),
    Sig("DMR_Tier_III", {<<13600, 17400>>, <<40300, 52700>>, <<76200, 87000>>}, {"FSK"}, <<10000, 15000>>, <<19200, 19200>>, {"burst"}),
    Sig("MPT1327", {<<13800, 17400>>, <<45000, 47000>>}, {"FSK"}, <<8000, 25000>>, <<4800, 19200>>, {"burst"}) }

Cellular == {
    Sig("GSM_850", {<<82400, 89400>>}, {"GMSK"}, <<150000, 250000>>, <<1083332, 1083332>>, {"burst"}),
    Sig("GSM_900", {<<88000, 96000>>}, {"GMSK"}, <<150000, 250000>>, <<1083332, 1083332>>, {"burst"}),
    Sig("GSM_1800", {<<171000, 188000>>}, {"GMSK"}, <<150000, 250000>>, <<1083332, 1083332>>, {"burst"}),
    Sig("GSM_1900", {<<185000, 199000>>}, {"GMSK"}, <<150000, 250000>>, <<1083332, 1083332>>, {"burst"}),
    Sig("UMTS/WCDMA", {<<85000, 90000>>, <<170000, 220000>>}, {"QPSK", "DSSS"}, <<4000000, 6000000>>, <<15360000, 15360000>>, {}),
    Sig("LTE_700", {<<69800, 79800>>}, {"OFDM"}, <<1400000, 20000000>>, <<0, 0>>, {"ofdm"}),
    Sig("LTE_800", {<<79000, 86200>>}, {"OFDM"}, <<1400000, 20000000>>, <<0, 0>>, {"ofdm"}),
    Sig("LTE_1800", {<<171000, 188000>>}, {"OFDM"}, <<1400000, 20000000>>, <<0, 0>>, {"ofdm"}),
    Sig("LTE_2100", {<<190000, 220000>>}, {"OFDM"}, <<1400000, 20000000>>, <<0, 0>>, {"ofdm"}),
    Sig("LTE_2600", {<<250000, 269000>>}, {"OFDM"}, <<1400000, 20000000>>, <<0, 0>>, {"ofdm"}),
    Sig("5G_NR_Sub-6", {<<60000, 70000>>, <<250000, 270000>>, <<330000, 420000>>}, {"OFDM"}, <<5000000, 100000000>>, <<0, 0>>, {"ofdm"}),
    Sig("5G_NR_mmWave", {<<2425000, 5260000>>}, {"OFDM"}, <<50000000, 400000000>>, <<0, 0>>, {"ofdm"}) }

ISM == {
    Sig("Wi-Fi_2.4_GHz", {<<240000, 248400>>}, {"OFDM"}, <<15000000, 45000000>>, <<0, 0>>, {"ofdm"}),
    Sig("Wi-Fi_5_GHz", {<<515000, 585000>>}, {"OFDM"}, <<15000000, 85000000>>, <<0, 0>>, {"ofdm"}),
    Sig("Bluetooth_Classic", {<<240000, 248400>>}, {"FSK", "GMSK"}, <<800000, 1200000>>, <<0, 0>>, {"burst", "fhss"}),
    Sig("Bluetooth_LE", {<<240000, 248400>>}, {"GMSK"}, <<1500000, 2500000>>, <<0, 0>>, {"burst", "fhss"}),
    Sig("Zigbee", {<<240000, 248400>>}, {"DSSS"}, <<1500000, 2500000>>, <<1000000, 1000000>>, {}),
    Sig("LoRa_433", {<<43300, 43500>>}, {"CSS"}, <<100000, 600000>>, <<0, 0>>, {"burst"}),
    Sig("LoRa_868", {<<86300, 87000>>}, {"CSS"}, <<100000, 600000>>, <<0, 0>>, {"burst"}),
    Sig("LoRa_915", {<<90200, 92800>>}, {"CSS"}, <<100000, 600000>>, <<0, 0>>, {"burst"}),
    Sig("Z-Wave_EU", {<<86830, 86860>>}, {"FSK"}, <<150000, 250000>>, <<0, 0>>, {"burst"}),
    Sig("Z-Wave_US", {<<90830, 90860>>}, {"FSK"}, <<150000, 250000>>, <<0, 0>>, {"burst"}) }

Automotive == {
    Sig("TPMS_315", {<<31450, 31550>>}, {"FSK"}, <<100000, 200000>>, <<76800, 153600>>, {"burst"}),
    Sig("TPMS_433", {<<43300, 43400>>}, {"FSK"}, <<100000, 200000>>, <<76800, 153600>>, {"burst"}),
    Sig("Key_Fob_315", {<<31450, 31550>>}, {"FSK", "CW"}, <<100000, 400000>>, <<0, 0>>, {"burst"}),
    Sig("Key_Fob_433", {<<43300, 43400>>}, {"FSK", "CW"}, <<100000, 400000>>, <<0, 0>>, {"burst"}),
    Sig("Key_Fob_868", {<<86800, 86900>>}, {"FSK"}, <<100000, 400000>>, <<0, 0>>, {"burst"}) }

Satellite == {
    Sig("GPS_L1", {<<157500, 157600>>}, {"BPSK", "DSSS"}, <<1500000, 2500000>>, <<0, 0>>, {}),
    Sig("NOAA_APT", {<<13700, 13800>>}, {"FM_NB", "FM_WB"}, <<25000, 45000>>, <<9600, 9600>>, {}),
    Sig("Meteor_LRPT", {<<13700, 13800>>}, {"QPSK"}, <<100000, 150000>>, <<288000, 288000>>, {}),
    Sig("Iridium", {<<161600, 162650>>}, {"QPSK"}, <<25000, 40000>>, <<0, 0>>, {"burst"}),
    Sig("Inmarsat_AERO", {<<152500, 155900>>}, {"QPSK", "BPSK"}, <<8000, 15000>>, <<0, 0>>, {}) }

Radar == {
    Sig("FMCW_Radar_24G", {<<2400000, 2425000>>}, {"CSS"}, <<0, 0>>, <<0, 0>>, {}),
    Sig("FMCW_Radar_77G", {<<7600000, 7700000>>}, {"CSS"}, <<0, 0>>, <<0, 0>>, {}),
    Sig("Weather_Radar", {<<270000, 290000>>}, {}, <<0, 0>>, <<0, 0>>, {"burst"}) }

\* db_
Signatures ==
    Broadcast \cup Aviation \cup Marine \cup Amateur \cup PublicSafety \cup
    Cellular \cup ISM \cup Automotive \cup Satellite \cup Radar

=============================================================================
