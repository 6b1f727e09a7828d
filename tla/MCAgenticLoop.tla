--------------------------- MODULE MCAgenticLoop ----------------------------
EXTENDS AgenticLoop
MCWorld == [kind |-> [f \in Files |-> "text"], found |-> FALSE, noFiles |-> FALSE,
            routes |-> <<[calls |-> TRUE, stored |-> TRUE], [calls |-> TRUE, stored |-> FALSE]>>]
MCOffered == {"search_text", "get_file", "get_symbol", "compare_api_contract"}
=============================================================================
